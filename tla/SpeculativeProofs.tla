------------------------- MODULE SpeculativeProofs -------------------------
(***************************************************************************)
(* Speculative decoding keeps both caches on the committed tokens, for     *)
(* every vocabulary, depth and length of prompt and reply (Speculative).   *)
(***************************************************************************)
EXTENDS Speculative, DataLemmas, TLAPS

Text == Seq(Tokens)
Contexts == Seq(Text)
RoundSteps == {"draft", "verify", "judge", "commit", "replay", "extend"}
Steps == RoundSteps \cup {"prefill", "round", "emit", "flush", "done"}

Types ==
    /\ targetKV \in Text /\ draftKV \in Text /\ all \in Text /\ targetNext \in Text
    /\ draftNext \in Text /\ dcur \in Text /\ drafts \in Text /\ accepted \in Text
    /\ committed \in Text /\ generated \in Text
    /\ draftCtx \in Contexts /\ verified \in Contexts /\ judgedIn \in Contexts
    /\ next \in Nat /\ pc \in Steps

\* n tokens of what follows the committed ones.
Ahead(toks, n) == all \o SubSeq(toks, 1, n)

\* Both caches and both predictions are of the tokens toks.
AllAt(toks) == targetKV = toks /\ draftKV = toks /\ targetNext = toks /\ draftNext = toks

NoEos(toks) == \A i \in 1 .. Len(toks) : toks[i] # Eos

\* The draft model's cache only ever grows beyond the committed tokens.
DraftExtends == Len(draftKV) >= Len(all) /\ SubSeq(draftKV, 1, Len(all)) = all

\* Every draft was sampled after the ones before it.
DraftedInContext ==
    Len(draftCtx) = Len(drafts) /\ \A i \in 1 .. Len(drafts) : draftCtx[i] = Ahead(drafts, i - 1)

\* The target's predictions, one for each draft.
VerifiedInContext ==
    Len(verified) = Len(drafts) /\ \A i \in 1 .. Len(drafts) : verified[i] = Ahead(drafts, i)

Judged ==
    Len(judgedIn) = Len(accepted) /\ \A i \in 1 .. Len(accepted) : judgedIn[i] = Ahead(accepted, i - 1)

\* Where the caches are at each step of a round.
DraftInv ==
    /\ targetKV = all /\ targetNext = all /\ draftNext = all
    /\ draftKV = all \o drafts /\ dcur = draftKV
    /\ DraftedInContext /\ accepted = <<>> /\ judgedIn = <<>> /\ ~rejected /\ ~hitEos /\ next = 0

VerifyInv ==
    /\ targetKV = all /\ targetNext = all /\ draftNext = all
    /\ DraftExtends /\ drafts # <<>>
    /\ DraftedInContext /\ accepted = <<>> /\ judgedIn = <<>> /\ ~rejected /\ ~hitEos /\ next = 0

JudgeInv ==
    /\ targetKV = all \o drafts /\ targetNext = all /\ draftNext = all
    /\ DraftExtends /\ drafts # <<>>
    /\ DraftedInContext /\ VerifiedInContext /\ Judged
    /\ Len(accepted) <= Len(drafts) /\ accepted = SubSeq(drafts, 1, Len(accepted))
    /\ ~rejected /\ ~hitEos /\ next = 0

\* All accepted tokens but the last are drafts, all of them unless one was rejected.
CommitInv ==
    /\ targetKV = all \o drafts /\ draftNext = all
    /\ DraftExtends /\ Judged
    /\ Len(accepted) >= 1 /\ Len(accepted) - 1 <= Len(drafts)
    /\ SubSeq(accepted, 1, Len(accepted) - 1) = SubSeq(drafts, 1, Len(accepted) - 1)
    /\ ~rejected => Len(accepted) - 1 = Len(drafts)
    /\ ~hitEos /\ next = 0

ReplayInv ==
    /\ targetKV = all \o accepted /\ targetNext = all \o accepted
    /\ next < Len(accepted) /\ draftKV = Ahead(accepted, next)
    /\ Judged /\ ~hitEos

ExtendInv == Judged /\ (~hitEos => AllAt(all \o accepted))

RoundInv ==
    /\ pc = "round" => AllAt(all)
    /\ pc = "draft" => DraftInv
    /\ pc = "verify" => VerifyInv
    /\ pc = "judge" => JudgeInv
    /\ pc = "commit" => CommitInv
    /\ pc = "replay" => ReplayInv
    /\ pc = "extend" => ExtendInv
    /\ pc = "emit" /\ ~hitEos => AllAt(all)

\* As long as the reply goes on it is short of max_new_tokens and without an Eos.
ReplyInv ==
    /\ pc \in RoundSteps \cup {"prefill", "emit"} => Len(generated) < MaxNew
    /\ pc \in RoundSteps \cup {"prefill", "emit", "round"} => NoEos(generated)
    /\ EndsInTime

IInv == Types /\ RoundInv /\ ReplyInv

-----------------------------------------------------------------------------
(* Sequences                                                               *)

LEMMA Appended ==
    ASSUME NEW s \in Text, NEW t \in Text, NEW e \in Tokens
    PROVE  /\ Append(t, e) \in Text /\ Len(Append(t, e)) = Len(t) + 1
           /\ Append(t, e)[Len(t) + 1] = e /\ \A i \in 1 .. Len(t) : Append(t, e)[i] = t[i]
           /\ s \o t \in Text /\ Len(s \o t) = Len(s) + Len(t)
  BY DEF Text

LEMMA AppendedAfter ==
    ASSUME NEW s \in Text, NEW t \in Text, NEW e \in Tokens
    PROVE  Append(s \o t, e) = s \o Append(t, e)
  BY DEF Text

LEMMA FirstOfAppended ==
    ASSUME NEW t \in Text, NEW e \in Tokens, NEW i \in 0 .. Len(t)
    PROVE  SubSeq(Append(t, e), 1, i) = SubSeq(t, 1, i)
  BY DEF Text

LEMMA FirstOf ==
    ASSUME NEW t \in Text, NEW i \in 0 .. Len(t)
    PROVE  /\ SubSeq(t, 1, i) \in Text /\ Len(SubSeq(t, 1, i)) = i
           /\ \A j \in 1 .. i : SubSeq(t, 1, i)[j] = t[j]
           /\ SubSeq(t, 1, Len(t)) = t /\ SubSeq(t, 1, 0) = <<>>
  BY DEF Text

LEMMA EmptyText ==
    ASSUME NEW t \in Text
    PROVE  /\ t \o <<>> = t /\ <<>> \o t = t /\ <<>> \in Text /\ <<>> \in Contexts
           /\ Len(t) \in Nat /\ (t # <<>> <=> Len(t) >= 1) /\ (t = <<>> <=> Len(t) = 0)
  BY DEF Text, Contexts

\* One more draft, or accepted token, than its first n.
LEMMA OneFurther ==
    ASSUME NEW t \in Text, NEW i \in 0 .. Len(t) - 1
    PROVE  Append(SubSeq(t, 1, i), t[i + 1]) = SubSeq(t, 1, i + 1)
  BY DEF Text

\* Rolling back to the first k of what was appended.
LEMMA RolledBack ==
    ASSUME NEW s \in Text, NEW t \in Text, NEW k \in 0 .. Len(t)
    PROVE  Truncate(s \o t, Len(s) + k) = s \o SubSeq(t, 1, k)
<1>1. Len(s \o t) = Len(s) + Len(t) /\ Len(s) \in Nat /\ Len(t) \in Nat
  BY DEF Text
<1>2. Lower(Len(s) + k, Len(s \o t)) = Len(s) + k
  BY <1>1 DEF Lower
<1>3. SubSeq(s \o t, 1, Len(s) + k) = s \o SubSeq(t, 1, k)
  BY <1>1 DEF Text
<1> QED
  BY <1>2, <1>3 DEF Truncate

\* What a draft model holds beyond the committed tokens goes when a round is committed.
LEMMA DraftRolledBack ==
    ASSUME draftKV \in Text, all \in Text, DraftExtends
    PROVE  Truncate(draftKV, CommittedLen) = all
  BY DEF DraftExtends, Truncate, CommittedLen, Lower, Text

-----------------------------------------------------------------------------
(* Types                                                                   *)

LEMMA TypesInit == Init => Types
<1> SUFFICES ASSUME Init PROVE Types
  OBVIOUS
<1>1. PICK n \in 1 .. MaxPrompt : all \in [1 .. n -> Tokens \ {Eos}]
  BY DEF Init
<1>2. all \in Text
  BY <1>1, SizeAssumption DEF Text
<1> QED
  BY <1>2 DEF Init, Types, Text, Contexts, Steps

LEMMA TypesNext == Types /\ RoundInv /\ [Next]_vars => Types'
<1> SUFFICES ASSUME Types, RoundInv, [Next]_vars PROVE Types'
  OBVIOUS
<1> USE DEF Types
<1>1. CASE Prefill
  BY <1>1 DEF Prefill, round, output, Steps
<1>2. CASE BeginRound
  <2>1. pc' \in Steps
    BY <1>2 DEF BeginRound, Steps, RoundSteps
  <2>2. <<>> \in Text /\ <<>> \in Contexts
    BY EmptyText
  <2> QED
    BY <1>2, <2>1, <2>2 DEF BeginRound, caches, state, output
<1>3. CASE Draft
  <2>1. PICK d \in Tokens :
            /\ drafts' = Append(drafts, d) /\ draftCtx' = Append(draftCtx, dcur)
            /\ draftKV' \in {draftKV, Append(draftKV, d)} /\ dcur' \in {dcur, Append(draftKV, d)}
            /\ pc' \in Steps
    BY <1>3 DEF Draft, Steps, RoundSteps
  <2>2. Append(drafts, d) \in Text /\ Append(draftKV, d) \in Text /\ Append(draftCtx, dcur) \in Contexts
    BY DEF Text, Contexts
  <2> QED
    BY <1>3, <2>1, <2>2 DEF Draft, state, output
<1>4. CASE Verify
  <2>1. targetKV \o drafts \in Text
    BY DEF Text
  <2>2. \A i \in 1 .. Len(drafts) : targetKV \o SubSeq(drafts, 1, i) \in Text
    BY DEF Text
  <2>3. [i \in 1 .. Len(drafts) |-> targetKV \o SubSeq(drafts, 1, i)] \in Contexts
    BY <2>2, EmptyText DEF Contexts
  <2>4. "judge" \in Steps
    BY DEF Steps, RoundSteps
  <2> QED
    BY <1>4, <2>1, <2>3, <2>4 DEF Verify, state, output
<1>5. ASSUME NEW t \in Tokens, NEW ctx \in Text, accepted' = Append(accepted, t),
             judgedIn' = Append(judgedIn, ctx), pc' \in {"judge", "commit", "extend"},
             UNCHANGED <<caches, state, drafts, draftCtx, dcur, verified, next, output>>
      PROVE  Types'
  <2>1. Append(accepted, t) \in Text /\ Append(judgedIn, ctx) \in Contexts
    BY DEF Text, Contexts
  <2>2. pc' \in Steps
    BY <1>5 DEF Steps, RoundSteps
  <2> QED
    BY <1>5, <2>1, <2>2 DEF caches, state, output
<1>6. CASE Accept \/ Reject \/ Bonus
  <2>1. /\ pc = "judge" /\ Len(accepted) <= Len(drafts) /\ Len(drafts) >= 1
        /\ Len(verified) = Len(drafts) /\ Len(accepted) \in Nat /\ Len(drafts) \in Nat
    BY <1>6, EmptyText DEF Accept, Reject, Bonus, RoundInv, JudgeInv, VerifiedInContext
  <2>2. \A i \in 1 .. Len(drafts) : drafts[i] \in Tokens /\ verified[i] \in Text
    BY <2>1 DEF Text, Contexts
  <2>3. \A i \in 1 .. Len(drafts) : JudgeCtx(i) \in Text
    BY <2>1, <2>2 DEF JudgeCtx
  <2>4. Len(accepted) < Len(drafts) => Len(accepted) + 1 \in 1 .. Len(drafts)
    BY <2>1
  <2>5. CASE Accept
    BY <1>5, <2>2, <2>3, <2>4, <2>5 DEF Accept
  <2>6. CASE Reject
    BY <1>5, <2>3, <2>4, <2>6 DEF Reject
  <2>7. CASE Bonus
    BY <1>5, <2>1, <2>2, <2>7 DEF Bonus
  <2> QED
    BY <1>6, <2>5, <2>6, <2>7
<1>7. CASE CommitTarget
  <2>1. Len(accepted) \in 1 .. Len(accepted)
    BY <1>7, EmptyText DEF CommitTarget, RoundInv, CommitInv
  <2>2. accepted[Len(accepted)] \in Tokens
    BY <2>1 DEF Text
  <2>3. ASSUME NEW kv \in Text, NEW n \in Int PROVE Truncate(kv, n) \in Text
    BY DEF Truncate, Lower, Text
  <2>4. CommittedLen \in Nat /\ CommittedLen + (Len(accepted) - 1) \in Int
    BY <2>1, EmptyText DEF CommittedLen
  <2>5. PICK kept \in Text : targetKV' = Append(kept, accepted[Len(accepted)]) /\ targetNext' = targetKV'
    BY <1>7, <2>3, <2>4 DEF CommitTarget
  <2>6. targetKV' \in Text /\ targetNext' \in Text /\ draftKV' \in Text
    <3>1. Append(kept, accepted[Len(accepted)]) \in Text
      BY <2>2, Appended
    <3>2. draftKV' = Truncate(draftKV, CommittedLen) /\ Truncate(draftKV, CommittedLen) \in Text
      BY <1>7, <2>3, <2>4 DEF CommitTarget
    <3> QED
      BY <2>5, <3>1, <3>2
  <2>7. "replay" \in Steps
    BY DEF Steps, RoundSteps
  <2> QED
    BY <1>7, <2>6, <2>7 DEF CommitTarget, output
<1>12. CASE Replay
  <2>1. next + 1 \in 1 .. Len(accepted)
    BY <1>12, EmptyText DEF Replay, RoundInv, ReplayInv
  <2>2. accepted[next + 1] \in Tokens
    BY <2>1 DEF Text
  <2>3. Append(draftKV, accepted[next + 1]) \in Text /\ pc' \in Steps /\ next + 1 \in Nat
    BY <1>12, <2>2, Appended DEF Replay, Steps, RoundSteps
  <2> QED
    BY <1>12, <2>3 DEF Replay, output
<1>8. CASE Extend
  <2>1. all \o accepted \in Text /\ "emit" \in Steps
    BY DEF Text, Steps
  <2> QED
    BY <1>8, <2>1 DEF Extend, caches, round
<1>9. CASE NextToken /\ pc' \in {"emit", "flush", "done"}
  <2>1. Append(generated, Head(committed)) \in Text /\ Tail(committed) \in Text
    BY <1>9 DEF NextToken, Text
  <2>2. pc' \in Steps
    BY <1>9 DEF Steps
  <2> QED
    BY <1>9, <2>1, <2>2 DEF NextToken, caches, state, round
<1>10. CASE Collect \/ StreamEos \/ StreamStop \/ StreamText \/ StreamLeft
  BY <1>9, <1>10 DEF Collect, StreamEos, StreamStop, StreamText, StreamLeft
<1>11. CASE RoundDone \/ Flush \/ EngineFails \/ Done \/ UNCHANGED vars
  <2>1. pc' \in Steps
    BY <1>11 DEF RoundDone, Flush, EngineFails, Done, vars, Steps
  <2> QED
    BY <1>11, <2>1 DEF RoundDone, Flush, EngineFails, Done, vars, caches, state, round, output
<1> QED
  BY <1>1, <1>2, <1>3, <1>4, <1>5, <1>6, <1>7, <1>8, <1>10, <1>11, <1>12 DEF Next

-----------------------------------------------------------------------------
(* The reply ends in time                                                  *)

LEMMA ReplyInit == Init => ReplyInv
  BY SizeAssumption DEF Init, ReplyInv, NoEos, EndsInTime

LEMMA ReplyNext == Types /\ ReplyInv /\ [Next]_vars => ReplyInv'
<1> SUFFICES ASSUME Types, ReplyInv, [Next]_vars PROVE ReplyInv'
  OBVIOUS
<1>0. generated \in Text /\ committed \in Text /\ Len(generated) \in Nat /\ MaxNew \in Nat
  BY EmptyText, SizeAssumption DEF Types
<1>1. ASSUME generated' = generated, pc' \in Steps,
             pc \in RoundSteps \cup {"prefill", "emit"} \/ pc' \in {"flush", "done"} \/ pc' = pc
                 \/ Len(generated) < MaxNew,
             pc' \in {"flush", "done"} \/ pc' = pc
                 \/ pc \in RoundSteps \cup {"prefill", "emit", "round"}
      PROVE  ReplyInv'
  BY <1>0, <1>1 DEF ReplyInv, NoEos, EndsInTime, Steps, RoundSteps
<1>2. CASE Prefill \/ BeginRound \/ Draft \/ Verify \/ Accept \/ Reject \/ Bonus \/ CommitTarget \/ Replay
             \/ Extend \/ RoundDone \/ Flush \/ EngineFails \/ Done \/ UNCHANGED vars
  <2>1. CASE BeginRound
    BY <1>0, <1>1, <2>1 DEF BeginRound, output, Steps, RoundSteps
  <2>2. CASE Prefill \/ RoundDone \/ Flush \/ EngineFails \/ Done \/ UNCHANGED vars
    BY <1>1, <2>2 DEF Prefill, RoundDone, Flush, EngineFails, Done, vars, output, Steps, RoundSteps, Types
  <2>3. CASE Draft \/ Verify \/ Accept \/ Reject \/ Bonus
    BY <1>1, <2>3 DEF Draft, Verify, Accept, Reject, Bonus, output, Steps, RoundSteps
  <2>4. CASE CommitTarget \/ Replay \/ Extend
    BY <1>1, <2>4 DEF CommitTarget, Replay, Extend, output, Steps, RoundSteps, Types
  <2> QED
    BY <1>2, <2>1, <2>2, <2>3, <2>4
<1>3. CASE Collect \/ StreamEos \/ StreamStop \/ StreamText \/ StreamLeft
  <2>1. NextToken /\ pc = "emit" /\ committed # <<>> /\ generated' = Append(generated, Head(committed))
    BY <1>3 DEF Collect, StreamEos, StreamStop, StreamText, StreamLeft, NextToken
  <2>2. Len(generated) < MaxNew /\ NoEos(generated)
    BY <2>1 DEF ReplyInv
  <2>3. Head(committed) \in Tokens
    BY <1>0, <2>1 DEF Text
  <2>4. /\ generated' \in Text /\ Len(generated') = Len(generated) + 1
        /\ generated'[Len(generated) + 1] = Head(committed)
        /\ \A i \in 1 .. Len(generated) : generated'[i] = generated[i]
    BY <1>0, <2>1, <2>3, Appended
  <2>5. EndsInTime'
    BY <1>0, <2>2, <2>4 DEF EndsInTime, NoEos, Text
  <2>6. pc' \in {"emit", "flush", "done"}
    BY <1>3 DEF Collect, StreamEos, StreamStop, StreamText, StreamLeft
  <2>7. pc' = "emit" => Head(committed) # Eos /\ Len(generated') < MaxNew
    BY <1>0, <1>3, <2>4 DEF Collect, StreamEos, StreamStop, StreamText, StreamLeft, Full
  <2>8. pc' = "emit" => NoEos(generated')
    BY <1>0, <2>2, <2>4, <2>7 DEF NoEos
  <2> QED
    BY <2>5, <2>6, <2>7, <2>8 DEF ReplyInv, RoundSteps
<1> QED
  BY <1>2, <1>3 DEF Next

-----------------------------------------------------------------------------
(* The text of a stream                                                    *)

Running == RoundSteps \cup {"prefill", "round", "emit"}

\* What follows the first e tokens is the beginning of a stop sequence.
Begins(toks, e) ==
    \E s \in Stops : Len(toks) - e < Len(s) /\ SubSeq(toks, e + 1, Len(toks)) = SubSeq(s, 1, Len(toks) - e)

\* As long as a stream runs, no stop sequence is in its text, nothing was sent of one that may have
\* begun, and what was sent is the text as far as it was emitted.
StreamInv ==
    /\ emitted \in Nat /\ (streaming \/ emitted = 0)
    /\ pc = "prefill" => generated = <<>> /\ sent = <<>>
    /\ IF NoEos(generated) THEN Decode(generated) = generated ELSE Decode(generated) # generated
    /\ streaming /\ pc \in Running =>
           /\ StopsAt(generated) = {}
           /\ \A e \in 1 .. Len(generated) : Begins(generated, e) => emitted <= e
    /\ streaming /\ pc \in Running \cup {"flush"} /\ NoEos(generated) /\ StopsAt(generated) = {} =>
           emitted <= Len(generated) /\ sent = SubSeq(generated, 1, emitted)
    /\ StopUnsent /\ CutIsComplete

\* What each token decodes to.
Pieces(toks) == [i \in DOMAIN toks |-> IF toks[i] = Eos THEN <<>> ELSE <<toks[i]>>]

LEMMA PiecesAppended ==
    ASSUME NEW t \in Text, NEW e \in Tokens, NEW x, x = IF e = Eos THEN <<>> ELSE <<e>>
    PROVE  /\ x \in Text /\ Pieces(t) \in Seq(Text)
           /\ Pieces(Append(t, e)) = Append(Pieces(t), x)
<1>1. \A u \in Text : Pieces(u) \in Seq(Text) /\ Len(Pieces(u)) = Len(u)
  <2> SUFFICES ASSUME NEW u \in Text PROVE Pieces(u) \in Seq(Text) /\ Len(Pieces(u)) = Len(u)
    OBVIOUS
  <2>1. Len(u) \in Nat /\ DOMAIN u = 1 .. Len(u) /\ \A i \in 1 .. Len(u) : u[i] \in Tokens
    BY DEF Text
  <2>2. \A i \in 1 .. Len(u) : <<u[i]>> \in Text /\ <<>> \in Text
    BY <2>1 DEF Text
  <2> QED
    BY <2>1, <2>2 DEF Pieces
<1>2. x \in Text
  BY DEF Text
<1>3. Append(t, e) \in Text /\ Append(Pieces(t), x) \in Seq(Text) /\ Len(Append(Pieces(t), x)) = Len(t) + 1
  <2>1. Append(t, e) \in Text
    BY Appended
  <2>2. Append(Pieces(t), x) \in Seq(Text) /\ Len(Append(Pieces(t), x)) = Len(Pieces(t)) + 1
    BY <1>1, <1>2, AppendProperties
  <2> QED
    BY <1>1, <2>1, <2>2
<1>4. \A i \in 1 .. Len(t) + 1 : Pieces(Append(t, e))[i] = Append(Pieces(t), x)[i]
  <2> SUFFICES ASSUME NEW i \in 1 .. Len(t) + 1
               PROVE  Pieces(Append(t, e))[i] = Append(Pieces(t), x)[i]
    OBVIOUS
  <2>1. /\ Len(t) \in Nat /\ DOMAIN Append(t, e) = 1 .. Len(t) + 1 /\ DOMAIN t = 1 .. Len(t)
        /\ Append(t, e)[Len(t) + 1] = e /\ \A j \in 1 .. Len(t) : Append(t, e)[j] = t[j]
    BY <1>3, Appended DEF Text
  <2>2. /\ Append(Pieces(t), x)[Len(t) + 1] = x
        /\ \A j \in 1 .. Len(t) : Append(Pieces(t), x)[j] = Pieces(t)[j]
    BY <1>1, <1>2
  <2>3. CASE i = Len(t) + 1
    BY <2>1, <2>2, <2>3 DEF Pieces
  <2>4. CASE i \in 1 .. Len(t)
    BY <2>1, <2>2, <2>4 DEF Pieces
  <2>5. i = Len(t) + 1 \/ i \in 1 .. Len(t)
    BY <2>1
  <2> QED
    BY <2>3, <2>4, <2>5
<1>5. Pieces(Append(t, e)) \in Seq(Text) /\ Len(Pieces(Append(t, e))) = Len(t) + 1
  BY <1>1, <1>3, Appended, ZenonT(40)
<1>6. Pieces(Append(t, e)) = Append(Pieces(t), x)
  BY <1>3, <1>4, <1>5, SeqEqual
<1> QED
  BY <1>1, <1>2, <1>6

\* The text of one token more is one token longer, unless that is Eos.
LEMMA DecodeAppended ==
    ASSUME NEW t \in Text, NEW e \in Tokens
    PROVE  /\ Decode(t) \in Text
           /\ Decode(Append(t, e)) = IF e = Eos THEN Decode(t) ELSE Append(Decode(t), e)
<1> DEFINE x == IF e = Eos THEN <<>> ELSE <<e>>
<1>1. x \in Text /\ Pieces(t) \in Seq(Text) /\ Pieces(Append(t, e)) = Append(Pieces(t), x)
  BY PiecesAppended
<1>2. \A u : Decode(u) = FlattenSeq(Pieces(u))
  BY DEF Decode, Pieces
<1>3. Decode(t) \in Text
  BY <1>1, <1>2, FlatIsSeq DEF Text
<1>4. Decode(Append(t, e)) = Decode(t) \o x
  <2> HIDE DEF x
  <2>1. FlattenSeq(Append(Pieces(t), x)) = FlattenSeq(Pieces(t)) \o x
    BY <1>1, FlatOfAppend DEF Text
  <2> QED
    BY <1>1, <1>2, <2>1
<1>5. \A u \in Text : u \o <<>> = u /\ u \o <<e>> = Append(u, e)
  BY DEF Text
<1> QED
  BY <1>3, <1>4, <1>5

LEMMA DecodeNothing == Decode(<<>>) = <<>>
<1>1. Pieces(<<>>) = <<>>
  BY DEF Pieces
<1>2. FlattenSeq(<<>>) = <<>>
  BY FlatIsFromTable
<1> QED
  BY <1>1, <1>2 DEF Decode, Pieces

LEMMA StopIsText == \A s \in Stops : s \in Text /\ Len(s) \in Nat \ {0}
  BY TokenAssumption DEF Text

\* The first of the places where a stop sequence is.
LEMMA Earliest ==
    ASSUME NEW t \in Text, StopsAt(t) # {}
    PROVE  EarliestStop(t) \in StopsAt(t) /\ EarliestStop(t) \in 0 .. Len(t)
<1>1. StopsAt(t) \subseteq 0 .. Len(t) /\ Len(t) \in Nat
  BY DEF StopsAt, Occurrences, Text
<1>2. StopsAt(t) \subseteq Nat
  BY <1>1
<1>3. \E i \in StopsAt(t) : \A j \in StopsAt(t) : i <= j
  BY <1>2, LeastOf
<1> QED
  BY <1>1, <1>3 DEF EarliestStop

\* safe_emit_end goes no further than any beginning of a stop sequence, but for the one at 0.
LEMMA HeldBack ==
    ASSUME NEW t \in Text
    PROVE  /\ SafeEmitEnd(t) \in 0 .. Len(t)
           /\ \A e \in 1 .. Len(t) : Begins(t, e) => SafeEmitEnd(t) <= e
<1> DEFINE held == {n \in 1 .. Len(t) - 1 :
                      \E s \in Stops : n < Len(s) /\ SubSeq(t, Len(t) - n + 1, Len(t)) = SubSeq(s, 1, n)}
           most == CHOOSE n \in held : \A m \in held : m <= n
<1>1. Len(t) \in Nat
  BY DEF Text
<1>2. SafeEmitEnd(t) = IF held = {} THEN Len(t) ELSE Len(t) - most
  BY DEF SafeEmitEnd
<1>3. held \subseteq 1 .. Len(t) - 1
  OBVIOUS
<1>4. held # {} => most \in held /\ \A m \in held : m <= most
  <2> HIDE DEF held
  <2>1. held # {} => \E n \in held : \A m \in held : m <= n
    <3>1. held \subseteq 0 .. Len(t)
      BY <1>1, <1>3
    <3> QED
      BY <1>1, <3>1, GreatestOf
  <2> QED
    BY <2>1
<1>5. ASSUME NEW e \in 1 .. Len(t), Begins(t, e) PROVE e = Len(t) \/ Len(t) - e \in held
  <2>1. Len(t) - (Len(t) - e) + 1 = e + 1
    BY <1>1
  <2>2. PICK s \in Stops : Len(t) - e < Len(s) /\ SubSeq(t, e + 1, Len(t)) = SubSeq(s, 1, Len(t) - e)
    BY <1>5 DEF Begins
  <2>3. e # Len(t) => Len(t) - e \in 1 .. Len(t) - 1
    BY <1>1
  <2> QED
    BY <2>1, <2>2, <2>3
<1> HIDE DEF held, most
<1>6. SafeEmitEnd(t) \in 0 .. Len(t)
  <2>1. CASE held = {}
    BY <1>1, <1>2, <2>1
  <2>2. CASE held # {}
    <3>1. most \in 1 .. Len(t) - 1
      BY <1>3, <1>4, <2>2
    <3>2. SafeEmitEnd(t) = Len(t) - most
      BY <1>2, <2>2
    <3> QED
      BY <1>1, <3>1, <3>2
  <2> QED
    BY <2>1, <2>2
<1>7. ASSUME NEW e \in 1 .. Len(t), Begins(t, e) PROVE SafeEmitEnd(t) <= e
  <2>1. CASE e = Len(t)
    BY <1>1, <1>6, <2>1
  <2>2. CASE Len(t) - e \in held
    <3>1. held # {} /\ Len(t) - e <= most /\ most \in 1 .. Len(t) - 1
      BY <1>3, <1>4, <2>2
    <3> QED
      BY <1>1, <1>2, <3>1
  <2> QED
    BY <1>5, <1>7, <2>1, <2>2
<1> QED
  BY <1>6, <1>7

\* A stop sequence that is complete with token e had begun before.
LEMMA StopHadBegun ==
    ASSUME NEW t \in Text, NEW e \in Tokens, StopsAt(t) = {}, NEW k \in StopsAt(Append(t, e)), k > 0
    PROVE  k \in 1 .. Len(t) /\ Begins(t, k)
<1> DEFINE u == Append(t, e)
<1>1. /\ u \in Text /\ Len(u) = Len(t) + 1 /\ Len(t) \in Nat
      /\ \A i \in 1 .. Len(t) : u[i] = t[i]
  BY Appended, EmptyText
<1> HIDE DEF u
<1>2. k \in 0 .. Len(u)
  BY DEF StopsAt, Occurrences, u
<1>3. PICK s \in Stops : k + Len(s) <= Len(u) /\ SubSeq(u, k + 1, k + Len(s)) = s
  BY DEF StopsAt, Occurrences, u
<1>4. s \in Text /\ Len(s) \in Nat /\ Len(s) >= 1 /\ k \in Nat
  BY <1>2, StopIsText
<1>5. k \in 1 .. Len(t)
  BY <1>1, <1>3, <1>4
<1>6. \A i \in 1 .. Len(s) : s[i] = u[k + i]
  <2>1. \A i \in 1 .. Len(s) : SubSeq(u, k + 1, k + Len(s))[i] = u[k + i]
    BY <1>1, <1>3, <1>4 DEF Text
  <2> QED
    BY <1>3, <2>1
<1>7. k + Len(s) = Len(t) + 1
  <2> SUFFICES ASSUME k + Len(s) <= Len(t) PROVE FALSE
    BY <1>1, <1>3, <1>4, SMTT(30)
  <2>1. /\ SubSeq(t, k + 1, k + Len(s)) \in Text /\ Len(SubSeq(t, k + 1, k + Len(s))) = Len(s)
        /\ \A i \in 1 .. Len(s) : SubSeq(t, k + 1, k + Len(s))[i] = t[k + i]
    BY <1>1, <1>4 DEF Text
  <2>2. \A i \in 1 .. Len(s) : t[k + i] = s[i]
    BY <1>1, <1>4, <1>6
  <2>3. SubSeq(t, k + 1, k + Len(s)) = s
    <3>1. \A i \in 1 .. Len(s) : SubSeq(t, k + 1, k + Len(s))[i] = s[i]
      BY <2>1, <2>2
    <3> QED
      BY <1>4, <2>1, <3>1, SeqEqual DEF Text
  <2>4. k \in 0 .. Len(t)
    BY <1>5
  <2> QED
    BY <2>3, <2>4 DEF StopsAt, Occurrences
<1>8. SubSeq(t, k + 1, Len(t)) = SubSeq(s, 1, Len(t) - k)
  <2>0. Len(t) - k \in 0 .. Len(s) /\ Len(t) - k \in Nat
    BY <1>1, <1>4, <1>5, <1>7
  <2>1. /\ SubSeq(t, k + 1, Len(t)) \in Text /\ Len(SubSeq(t, k + 1, Len(t))) = Len(t) - k
        /\ \A i \in 1 .. Len(t) - k : SubSeq(t, k + 1, Len(t))[i] = t[k + i]
    BY <1>1, <1>5 DEF Text
  <2>2. /\ SubSeq(s, 1, Len(t) - k) \in Text /\ Len(SubSeq(s, 1, Len(t) - k)) = Len(t) - k
        /\ \A i \in 1 .. Len(t) - k : SubSeq(s, 1, Len(t) - k)[i] = s[i]
    BY <1>4, <2>0, FirstOf
  <2>3. \A i \in 1 .. Len(t) - k : t[k + i] = s[i]
    BY <1>1, <1>5, <1>6, <1>7, <1>4
  <2> QED
    BY <2>0, <2>1, <2>2, <2>3 DEF Text
<1> QED
  BY <1>1, <1>3, <1>4, <1>5, <1>7, <1>8 DEF Begins

\* What is the beginning of a stop sequence with token e was one without it.
LEMMA BeganBefore ==
    ASSUME NEW t \in Text, NEW e \in Tokens, NEW k \in 1 .. Len(t), Begins(Append(t, e), k)
    PROVE  Begins(t, k)
<1> DEFINE u == Append(t, e)
           n == Len(t) - k
<1>1. /\ u \in Text /\ Len(u) = Len(t) + 1 /\ Len(t) \in Nat
      /\ \A i \in 1 .. Len(t) : u[i] = t[i]
  BY Appended, EmptyText
<1> HIDE DEF u
<1>2. PICK s \in Stops : Len(u) - k < Len(s) /\ SubSeq(u, k + 1, Len(u)) = SubSeq(s, 1, Len(u) - k)
  BY DEF Begins, u
<1>3. s \in Text /\ Len(s) \in Nat /\ n \in Nat /\ Len(u) - k = n + 1 /\ n + 1 <= Len(s)
  BY <1>1, <1>2, StopIsText
<1>4. \A i \in 1 .. n : t[k + i] = s[i]
  <2>1. \A i \in 1 .. n + 1 : SubSeq(u, k + 1, Len(u))[i] = u[k + i]
    BY <1>1, <1>3 DEF Text
  <2>2. \A i \in 1 .. n + 1 : SubSeq(s, 1, n + 1)[i] = s[i]
    BY <1>3 DEF Text
  <2>3. \A i \in 1 .. n : k + i \in 1 .. Len(t) /\ i \in 1 .. n + 1
    BY <1>1
  <2> QED
    BY <1>1, <1>2, <1>3, <2>1, <2>2, <2>3
<1>5. SubSeq(t, k + 1, Len(t)) = SubSeq(s, 1, n)
  <2>1. /\ SubSeq(t, k + 1, Len(t)) \in Text /\ Len(SubSeq(t, k + 1, Len(t))) = n
        /\ \A i \in 1 .. n : SubSeq(t, k + 1, Len(t))[i] = t[k + i]
    BY <1>1 DEF Text
  <2>2. /\ SubSeq(s, 1, n) \in Text /\ Len(SubSeq(s, 1, n)) = n
        /\ \A i \in 1 .. n : SubSeq(s, 1, n)[i] = s[i]
    BY <1>3 DEF Text
  <2> HIDE DEF n
  <2> QED
    BY <1>4, <2>1, <2>2, <1>3 DEF Text
<1> QED
  BY <1>1, <1>2, <1>3, <1>5, SMTT(30) DEF Begins

\* A text after a text.
LEMMA JoinOf ==
    ASSUME NEW v \in Text, NEW w \in Text
    PROVE  /\ v \o w \in Text /\ Len(v \o w) = Len(v) + Len(w)
           /\ \A i \in 1 .. Len(v) : (v \o w)[i] = v[i]
           /\ \A i \in Len(v) + 1 .. Len(v) + Len(w) : (v \o w)[i] = w[i - Len(v)]
BY DEF Text

\* Sending from where the stream was to a later place.
LEMMA SentFurther ==
    ASSUME NEW t \in Text, NEW u \in Text, Len(t) <= Len(u), \A i \in 1 .. Len(t) : u[i] = t[i],
           emitted \in 0 .. Len(t), NEW to \in 0 .. Len(u)
    PROVE  SubSeq(t, 1, emitted) \o Rest(u, to) = SubSeq(u, 1, Higher(emitted, to))
<1>1. Len(t) \in Nat /\ Len(u) \in Nat /\ emitted \in Nat /\ to \in Nat
  BY EmptyText
<1>2. /\ SubSeq(t, 1, emitted) \in Text /\ Len(SubSeq(t, 1, emitted)) = emitted
      /\ \A i \in 1 .. emitted : SubSeq(t, 1, emitted)[i] = u[i]
  <2>1. \A i \in 1 .. emitted : t[i] = u[i]
    BY <1>1
  <2> QED
    BY <2>1, FirstOf
<1>3. CASE emitted <= to
  <2>1. /\ Rest(u, to) \in Text /\ Len(Rest(u, to)) = to - emitted
        /\ \A i \in 1 .. to - emitted : Rest(u, to)[i] = u[emitted + i]
    BY <1>1, <1>3 DEF Rest, Text
  <2>2. Higher(emitted, to) = to /\ SubSeq(u, 1, to) \in Text /\ Len(SubSeq(u, 1, to)) = to
        /\ \A i \in 1 .. to : SubSeq(u, 1, to)[i] = u[i]
    BY <1>1, <1>3, FirstOf DEF Higher
  <2> DEFINE v == SubSeq(t, 1, emitted)
             w == Rest(u, to)
  <2> HIDE DEF v, w
  <2>3. /\ v \o w \in Text /\ Len(v \o w) = to
        /\ \A i \in 1 .. emitted : (v \o w)[i] = v[i]
        /\ \A i \in emitted + 1 .. to : (v \o w)[i] = w[i - emitted]
    <3>1. v \in Text /\ Len(v) = emitted /\ w \in Text /\ Len(w) = to - emitted
      BY <1>2, <2>1 DEF v, w
    <3>2. /\ v \o w \in Text /\ Len(v \o w) = Len(v) + Len(w)
          /\ \A i \in 1 .. Len(v) : (v \o w)[i] = v[i]
          /\ \A i \in Len(v) + 1 .. Len(v) + Len(w) : (v \o w)[i] = w[i - Len(v)]
      BY <3>1, JoinOf, Zenon
    <3>3. Len(v) + Len(w) = to
      BY <1>1, <1>3, <3>1
    <3> QED
      BY <3>1, <3>2, <3>3, Zenon
  <2>4. \A i \in 1 .. to : (v \o w)[i] = SubSeq(u, 1, to)[i]
    <3> SUFFICES ASSUME NEW i \in 1 .. to PROVE (v \o w)[i] = u[i]
      BY <2>2
    <3>1. CASE i \in 1 .. emitted
      BY <1>2, <2>3, <3>1 DEF v
    <3>2. CASE i \in emitted + 1 .. to
      <4>1. i - emitted \in 1 .. to - emitted /\ emitted + (i - emitted) = i
        BY <1>1, <3>2
      <4> QED
        BY <2>1, <2>3, <3>2, <4>1 DEF w
    <3>3. i \in 1 .. emitted \/ i \in emitted + 1 .. to
      BY <1>1, <1>3
    <3> QED
      BY <3>1, <3>2, <3>3
  <2> QED
    BY <2>2, <2>3, <2>4, SeqEqual DEF Text, v, w
<1>4. CASE ~(emitted <= to)
  <2>1. Higher(emitted, to) = emitted /\ Rest(u, to) = <<>>
    BY <1>1, <1>4 DEF Higher, Rest, Text
  <2>2. SubSeq(u, 1, emitted) = SubSeq(t, 1, emitted)
    <3>1. emitted \in 0 .. Len(u)
      BY <1>1
    <3>2. /\ SubSeq(u, 1, emitted) \in Text /\ Len(SubSeq(u, 1, emitted)) = emitted
          /\ \A i \in 1 .. emitted : SubSeq(u, 1, emitted)[i] = u[i]
      BY <3>1, FirstOf
    <3> QED
      BY <1>2, <3>2, SeqEqual DEF Text
  <2> QED
    BY <1>2, <2>1, <2>2, EmptyText
<1> QED
  BY <1>3, <1>4

LEMMA StreamInit == Init => StreamInv
<1> SUFFICES ASSUME Init PROVE StreamInv
  OBVIOUS
<1>1. generated = <<>> /\ sent = <<>> /\ emitted = 0 /\ pc = "prefill" /\ <<>> \in Text /\ Len(<<>>) = 0
  BY EmptyText DEF Init, Text
<1>2. Decode(<<>>) = <<>> /\ NoEos(generated)
  BY <1>1, DecodeNothing DEF NoEos
<1>3. StopsAt(<<>>) = {}
  <2> SUFFICES ASSUME NEW i \in StopsAt(<<>>) PROVE FALSE
    OBVIOUS
  <2>1. PICK s \in Stops : i + Len(s) <= 0 /\ i \in 0 .. 0
    BY <1>1 DEF StopsAt, Occurrences
  <2> QED
    BY <2>1, StopIsText
<1>4. SubSeq(<<>>, 1, 0) = <<>>
  BY <1>1, FirstOf
<1>5. StopUnsent /\ CutIsComplete
  BY <1>1, <1>2, <1>3 DEF StopUnsent, CutIsComplete
<1> QED
  BY <1>1, <1>2, <1>3, <1>4, <1>5 DEF StreamInv

\* A step that leaves the text and what was sent alone, and does not end the stream.
LEMMA StreamSilent ==
    ASSUME StreamInv, UNCHANGED <<generated, emitted, sent, streaming>>,
           pc \in Running, pc' \in (Running \cup {"flush"}) \ {"prefill"}
    PROVE  StreamInv'
<1>1. NoEos(generated)' = NoEos(generated) /\ Decode(generated)' = Decode(generated)
      /\ StopsAt(generated)' = StopsAt(generated)
  BY DEF NoEos, Decode, StopsAt, Occurrences
<1>2. StopUnsent'
  BY DEF StreamInv, StopUnsent
<1>3. CutIsComplete'
  BY DEF CutIsComplete, Running, RoundSteps
<1>4. \A e : Begins(generated, e)' <=> Begins(generated, e)
  BY DEF Begins
<1>5. pc' # "prefill"
  OBVIOUS
<1> QED
  BY <1>1, <1>2, <1>3, <1>4, <1>5 DEF StreamInv

\* A token is counted: what that makes of the text.
LEMMA TokenCounted ==
    ASSUME Types, ReplyInv, StreamInv, NextToken, NEW e, e = Head(committed)
    PROVE  /\ generated \in Text /\ e \in Tokens /\ generated' = Append(generated, e) /\ generated' \in Text
           /\ NoEos(generated) /\ Decode(generated) = generated
           /\ Decode(generated') = IF e = Eos THEN generated ELSE generated'
           /\ NoEos(generated') <=> e # Eos
           /\ streaming => /\ StopsAt(generated) = {} /\ emitted \in 0 .. Len(generated)
                           /\ sent = SubSeq(generated, 1, emitted)
                           /\ \A k \in 1 .. Len(generated) : Begins(generated, k) => emitted <= k
<1>1. generated \in Text /\ e \in Tokens /\ generated' = Append(generated, e) /\ pc = "emit"
  BY DEF NextToken, Types, Text
<1>2. NoEos(generated) /\ Decode(generated) = generated
  BY <1>1 DEF ReplyInv, StreamInv
<1>3. /\ generated' \in Text /\ Len(generated') = Len(generated) + 1 /\ Len(generated) \in Nat
      /\ generated'[Len(generated) + 1] = e /\ \A i \in 1 .. Len(generated) : generated'[i] = generated[i]
  BY <1>1, Appended, EmptyText
<1>4. NoEos(generated') <=> e # Eos
  BY <1>2, <1>3 DEF NoEos
<1>5. Decode(generated') = IF e = Eos THEN generated ELSE generated'
  BY <1>1, <1>2, DecodeAppended
<1>6. streaming => /\ StopsAt(generated) = {} /\ emitted \in Nat /\ emitted <= Len(generated)
                   /\ sent = SubSeq(generated, 1, emitted)
                   /\ \A k \in 1 .. Len(generated) : Begins(generated, k) => emitted <= k
  BY <1>1, <1>2 DEF StreamInv, Running
<1>7. streaming => emitted \in 0 .. Len(generated)
  BY <1>3, <1>6
<1> QED
  BY <1>1, <1>2, <1>3, <1>4, <1>5, <1>6, <1>7

\* The text is empty of stop sequences or nothing was sent of the first one.
LEMMA StopUnsentNext ==
    ASSUME Types, ReplyInv, StreamInv, NextToken, emitted' = emitted, NEW e, e = Head(committed)
    PROVE  StopUnsent'
<1>1. /\ generated \in Text /\ e \in Tokens /\ generated' = Append(generated, e) /\ generated' \in Text
      /\ Decode(generated') = IF e = Eos THEN generated ELSE generated'
      /\ streaming => StopsAt(generated) = {} /\ \A k \in 1 .. Len(generated) : Begins(generated, k) => emitted <= k
      /\ streaming \/ emitted = 0
  BY TokenCounted DEF StreamInv
<1> DEFINE text == Decode(generated')
<1>2. SUFFICES ASSUME StopsAt(text) # {}, EarliestStop(text) > 0
               PROVE  emitted <= EarliestStop(text)
  BY DEF StopUnsent
<1>3. text \in Text
  BY <1>1
<1> HIDE DEF text
<1>4. EarliestStop(text) \in StopsAt(text) /\ EarliestStop(text) \in 0 .. Len(text) /\ Len(text) \in Nat
  BY <1>2, <1>3, Earliest, EmptyText
<1>5. CASE ~streaming
  BY <1>1, <1>4, <1>5
<1>6. CASE streaming
  <2>1. e # Eos /\ text = Append(generated, e)
    BY <1>1, <1>2, <1>6 DEF text
  <2>2. EarliestStop(text) \in 1 .. Len(generated) /\ Begins(generated, EarliestStop(text))
    BY <1>1, <1>2, <1>4, <1>6, <2>1, StopHadBegun
  <2> QED
    BY <1>1, <1>6, <2>2
<1> QED
  BY <1>5, <1>6

\* The steps of the caller's loop that end it.
LEMMA StreamEnds ==
    ASSUME Types, ReplyInv, StreamInv, NextToken, emitted' = emitted, streaming' = streaming,
           pc' # "prefill", pc' \in Running => ~streaming,
           NEW e, e = Head(committed), pc' = "flush" => e = Eos \/ StopsAt(generated') # {},
           pc' = "done" => ~streaming \/ outcome' = "left"
    PROVE  StreamInv'
<1>1. /\ generated \in Text /\ e \in Tokens /\ generated' = Append(generated, e) /\ generated' \in Text
      /\ NoEos(generated') <=> e # Eos
      /\ Decode(generated') = IF e = Eos THEN generated ELSE generated'
  BY TokenCounted
<1>2. StopUnsent'
  BY StopUnsentNext
<1>3. e = Eos => generated' # generated
  <2>1. Len(generated') = Len(generated) + 1 /\ Len(generated) \in Nat
    BY <1>1, Appended, EmptyText
  <2> QED
    BY <2>1
<1>4. CutIsComplete'
  BY DEF CutIsComplete
<1>5. emitted' \in Nat /\ (streaming' \/ emitted' = 0)
  BY DEF StreamInv
<1>6. IF NoEos(generated') THEN Decode(generated') = generated' ELSE Decode(generated') # generated'
  BY <1>1, <1>3
<1>7. ~(streaming' /\ pc' \in Running \cup {"flush"} /\ NoEos(generated') /\ StopsAt(generated') = {})
  BY <1>1
<1> QED
  BY <1>2, <1>4, <1>5, <1>6, <1>7 DEF StreamInv

LEMMA StreamTextStep == ASSUME Types, ReplyInv, StreamInv, StreamText PROVE StreamInv'
<1> DEFINE e == Head(committed)
           to == SafeEmitEnd(generated')
<1>0. NextToken /\ streaming /\ e # Eos /\ streaming' = streaming /\ pc' \in {"emit", "flush"}
  BY DEF StreamText, NextToken
<1>1. /\ generated \in Text /\ e \in Tokens /\ generated' = Append(generated, e) /\ generated' \in Text
      /\ NoEos(generated') /\ Decode(generated') = generated'
      /\ emitted \in 0 .. Len(generated) /\ sent = SubSeq(generated, 1, emitted)
      /\ \A k \in 1 .. Len(generated) : Begins(generated, k) => emitted <= k
  BY <1>0, TokenCounted
<1>2. /\ Len(generated') = Len(generated) + 1 /\ Len(generated) \in Nat
      /\ \A i \in 1 .. Len(generated) : generated'[i] = generated[i]
  BY <1>1, Appended, EmptyText
<1>3. /\ StopsAt(generated') = {} /\ sent' = sent \o Rest(generated', to)
      /\ emitted' = Higher(emitted, to)
  BY <1>1 DEF StreamText
<1> HIDE DEF e, to
<1>4. to \in 0 .. Len(generated') /\ \A k \in 1 .. Len(generated') : Begins(generated', k) => to <= k
  BY <1>1, HeldBack DEF to
<1>5. emitted' \in Nat /\ emitted' <= Len(generated')
  BY <1>1, <1>2, <1>3, <1>4 DEF Higher
<1>6. sent' = SubSeq(generated', 1, emitted')
  <2>1. Len(generated) <= Len(generated')
    BY <1>2
  <2> QED
    BY <1>1, <1>2, <1>3, <1>4, <2>1, SentFurther
<1>7. ASSUME NEW k \in 1 .. Len(generated'), Begins(generated', k) PROVE emitted' <= k
  <2>1. to <= k
    BY <1>4, <1>7
  <2>2. emitted <= k
    <3>1. CASE k = Len(generated')
      BY <1>1, <1>2, <3>1
    <3>2. CASE k # Len(generated')
      <4>1. k \in 1 .. Len(generated)
        BY <1>2, <3>2
      <4>2. Begins(generated, k)
        BY <1>1, <1>7, <4>1, BeganBefore
      <4> QED
        BY <1>1, <4>1, <4>2
    <3> QED
      BY <3>1, <3>2
  <2> QED
    BY <1>3, <2>1, <2>2 DEF Higher
<1>8. StopUnsent' /\ CutIsComplete'
  BY <1>0, <1>1, <1>3 DEF StopUnsent, CutIsComplete
<1> QED
  BY <1>0, <1>1, <1>3, <1>5, <1>6, <1>7, <1>8 DEF StreamInv

\* After the loop the rest of the text is sent.
LEMMA FlushStep == ASSUME Types, StreamInv, Flush PROVE StreamInv'
<1>1. /\ generated' = generated /\ emitted' = emitted /\ streaming' = streaming /\ pc = "flush" /\ pc' = "done"
      /\ generated \in Text /\ Len(generated) \in Nat
  BY EmptyText DEF Flush, Types
<1>2. StopUnsent'
  BY <1>1 DEF StreamInv, StopUnsent
<1>3. ASSUME streaming, Decode(generated) = generated, StopsAt(generated) = {} PROVE sent' = generated
  <2>1. sent' = sent \o Rest(generated, Len(generated))
    BY <1>3 DEF Flush
  <2>2. emitted \in 0 .. Len(generated) /\ sent = SubSeq(generated, 1, emitted)
    BY <1>1, <1>3 DEF StreamInv
  <2>3. sent' = SubSeq(generated, 1, Higher(emitted, Len(generated)))
    <3>1. Len(generated) \in 0 .. Len(generated) /\ Len(generated) <= Len(generated)
      BY <1>1
    <3> QED
      BY <1>1, <2>1, <2>2, <3>1, SentFurther
  <2>4. Higher(emitted, Len(generated)) = Len(generated)
    BY <1>1, <2>2 DEF Higher
  <2> QED
    BY <1>1, <2>3, <2>4, FirstOf
<1>4. CutIsComplete'
  BY <1>1, <1>3 DEF CutIsComplete
<1>5. /\ emitted' \in Nat /\ (streaming' \/ emitted' = 0)
      /\ IF NoEos(generated') THEN Decode(generated') = generated' ELSE Decode(generated') # generated'
      /\ pc' \notin Running \cup {"flush"} /\ pc' # "prefill"
  BY <1>1 DEF StreamInv, Running, RoundSteps
<1> QED
  BY <1>2, <1>4, <1>5 DEF StreamInv

\* Nothing was generated yet when the prefill fails.
LEMMA PrefillFails == ASSUME StreamInv, EngineFails, pc = "prefill" PROVE StreamInv'
<1>1. /\ generated' = generated /\ emitted' = emitted /\ streaming' = streaming /\ sent' = sent /\ pc' = "done"
      /\ generated = <<>> /\ sent = <<>>
  BY DEF EngineFails, StreamInv
<1>2. StopUnsent' /\ CutIsComplete'
  BY <1>1, DecodeNothing DEF StreamInv, StopUnsent, CutIsComplete
<1>3. /\ emitted' \in Nat /\ (streaming' \/ emitted' = 0)
      /\ IF NoEos(generated') THEN Decode(generated') = generated' ELSE Decode(generated') # generated'
      /\ pc' \notin Running \cup {"flush"} /\ pc' # "prefill"
  BY <1>1 DEF StreamInv, Running, RoundSteps
<1> QED
  BY <1>2, <1>3 DEF StreamInv

\* An engine fails during a call.
LEMMA CallFails == ASSUME StreamInv, ~streaming, EngineFails PROVE StreamInv'
<1>1. /\ generated' = generated /\ emitted' = emitted /\ streaming' = streaming /\ pc' = "done"
  BY DEF EngineFails
<1>2. StopUnsent' /\ CutIsComplete'
  BY <1>1 DEF StreamInv, StopUnsent, CutIsComplete
<1>3. /\ emitted' \in Nat /\ (streaming' \/ emitted' = 0)
      /\ IF NoEos(generated') THEN Decode(generated') = generated' ELSE Decode(generated') # generated'
      /\ pc' \notin Running \cup {"flush"} /\ pc' # "prefill"
  BY <1>1 DEF StreamInv, Running, RoundSteps
<1> QED
  BY <1>2, <1>3 DEF StreamInv

LEMMA StreamNext == Types /\ ReplyInv /\ StreamInv /\ [Next]_vars => StreamInv'
<1> SUFFICES ASSUME Types, ReplyInv, StreamInv, [Next]_vars PROVE StreamInv'
  OBVIOUS
<1>1. CASE Prefill \/ BeginRound \/ Draft \/ Verify \/ Accept \/ Reject \/ Bonus
  <2>1. UNCHANGED <<generated, emitted, sent, streaming>>
    BY <1>1 DEF Prefill, BeginRound, Draft, Verify, Accept, Reject, Bonus, output
  <2>2. pc \in Running /\ pc' \in (Running \cup {"flush"}) \ {"prefill"}
    BY <1>1 DEF Prefill, BeginRound, Draft, Verify, Accept, Reject, Bonus, Running, RoundSteps
  <2> QED
    BY <2>1, <2>2, StreamSilent
<1>2. CASE CommitTarget \/ Replay \/ Extend \/ RoundDone
  <2>1. UNCHANGED <<generated, emitted, sent, streaming>>
    BY <1>2 DEF CommitTarget, Replay, Extend, RoundDone, output
  <2>2. pc \in Running /\ pc' \in (Running \cup {"flush"}) \ {"prefill"}
    BY <1>2 DEF CommitTarget, Replay, Extend, RoundDone, Running, RoundSteps
  <2> QED
    BY <2>1, <2>2, StreamSilent
<1>3. CASE EngineFails
  <2>1. CASE streaming /\ pc # "prefill"
    <3>1. UNCHANGED <<generated, emitted, sent, streaming>> /\ pc \in Running /\ pc' = "flush"
      BY <1>3, <2>1 DEF EngineFails, Running, RoundSteps
    <3> QED
      BY <3>1, StreamSilent
  <2> QED
    BY <1>3, <2>1, PrefillFails, CallFails
<1>4. CASE Collect
  <2>1. /\ NextToken /\ ~streaming /\ emitted' = emitted /\ streaming' = streaming /\ pc' \in {"done", "emit"}
    BY <1>4 DEF Collect, NextToken
  <2> QED
    BY <2>1, StreamEnds DEF Running
<1>5. CASE StreamEos
  <2>1. /\ NextToken /\ Head(committed) = Eos /\ emitted' = emitted /\ streaming' = streaming /\ pc' = "flush"
    BY <1>5 DEF StreamEos, NextToken
  <2> QED
    BY <2>1, StreamEnds DEF Running, RoundSteps
<1>6. CASE StreamStop
  <2>1. /\ NextToken /\ Head(committed) # Eos /\ emitted' = emitted /\ streaming' = streaming /\ pc' = "flush"
        /\ StopsAt(Decode(generated')) # {}
    BY <1>6 DEF StreamStop, NextToken
  <2>2. Decode(generated') = generated'
    BY <2>1, TokenCounted
  <2> QED
    BY <2>1, <2>2, StreamEnds DEF Running, RoundSteps
<1>7. CASE StreamText
  BY <1>7, StreamTextStep
<1>8. CASE StreamLeft
  <2>1. /\ NextToken /\ emitted' = emitted /\ streaming' = streaming /\ pc' = "done" /\ outcome' = "left"
    BY <1>8 DEF StreamLeft, NextToken
  <2> QED
    BY <2>1, StreamEnds DEF Running, RoundSteps
<1>9. CASE Flush
  BY <1>9, FlushStep
<1>10. CASE Done \/ UNCHANGED vars
  <2>1. UNCHANGED vars
    BY <1>10 DEF Done
  <2>2. UNCHANGED <<generated, emitted, sent, streaming, pc, outcome>>
    BY <2>1 DEF vars, output
  <2>3. StopUnsent' /\ CutIsComplete'
    BY <2>2 DEF StreamInv, StopUnsent, CutIsComplete
  <2> QED
    BY <2>2, <2>3 DEF StreamInv
<1> QED
  BY <1>1, <1>2, <1>3, <1>4, <1>5, <1>6, <1>7, <1>8, <1>9, <1>10 DEF Next

-----------------------------------------------------------------------------
(* The caches and the contexts, round by round                             *)

LEMMA RoundInit == Init => RoundInv
  BY DEF Init, RoundInv

\* A round begins where the last one left both caches.
LEMMA BeginRoundStep == ASSUME Types, RoundInv, BeginRound PROVE RoundInv'
<1>1. AllAt(all) /\ all \in Text
  BY DEF BeginRound, RoundInv, Types
<1>2. all \o <<>> = all
  BY <1>1, EmptyText
<1> QED
  BY <1>1, <1>2 DEF BeginRound, RoundInv, AllAt, DraftInv, DraftedInContext, caches, state

LEMMA DraftStep == ASSUME Types, RoundInv, Draft PROVE RoundInv'
<1>1. /\ DraftInv /\ all \in Text /\ drafts \in Text /\ draftKV \in Text /\ dcur \in Text
      /\ draftCtx \in Contexts
  BY DEF Draft, RoundInv, Types
<1>2. PICK d \in Tokens :
          /\ drafts' = Append(drafts, d) /\ draftCtx' = Append(draftCtx, dcur)
          /\ d = Eos => pc' = "verify" /\ draftKV' = draftKV
          /\ d # Eos => /\ draftKV' = Append(draftKV, d) /\ dcur' = draftKV' /\ pc' \in {"draft", "verify"}
  BY DEF Draft
<1>3. /\ drafts' \in Text /\ Len(drafts') = Len(drafts) + 1 /\ Len(drafts) \in Nat /\ drafts' # <<>>
      /\ \A i \in 0 .. Len(drafts) : SubSeq(drafts', 1, i) = SubSeq(drafts, 1, i)
      /\ SubSeq(drafts, 1, Len(drafts)) = drafts
  <2>1. Len(drafts) \in Nat /\ Len(drafts) \in 0 .. Len(drafts)
    BY <1>1, EmptyText
  <2>2. drafts' \in Text /\ Len(drafts') = Len(drafts) + 1
    BY <1>1, <1>2, Appended
  <2>3. drafts' # <<>>
    BY <2>1, <2>2, EmptyText
  <2>4. \A i \in 0 .. Len(drafts) : SubSeq(drafts', 1, i) = SubSeq(drafts, 1, i)
    BY <1>1, <1>2, FirstOfAppended
  <2>5. SubSeq(drafts, 1, Len(drafts)) = drafts
    BY <1>1, <2>1, FirstOf
  <2> QED
    BY <2>1, <2>2, <2>3, <2>4, <2>5
<1>4. /\ Len(draftCtx') = Len(draftCtx) + 1 /\ draftCtx'[Len(draftCtx) + 1] = dcur
      /\ \A i \in 1 .. Len(draftCtx) : draftCtx'[i] = draftCtx[i]
  BY <1>1, <1>2 DEF Contexts
<1>5. DraftedInContext'
  <2>1. ASSUME NEW i \in 1 .. Len(drafts) PROVE draftCtx'[i] = all \o SubSeq(drafts', 1, i - 1)
    <3>1. i - 1 \in 0 .. Len(drafts) /\ i \in 1 .. Len(draftCtx)
      BY <1>1, <1>3 DEF DraftInv, DraftedInContext
    <3> QED
      BY <1>1, <1>3, <1>4, <3>1 DEF DraftInv, DraftedInContext, Ahead
  <2>2. draftCtx'[Len(drafts) + 1] = all \o SubSeq(drafts', 1, (Len(drafts) + 1) - 1)
    <3>1. (Len(drafts) + 1) - 1 = Len(drafts) /\ Len(drafts) \in 0 .. Len(drafts)
      BY <1>3
    <3> QED
      BY <1>1, <1>3, <1>4, <3>1 DEF DraftInv, DraftedInContext
  <2>3. all' = all
    BY DEF Draft, state
  <2>4. \A i \in 1 .. Len(drafts') : i \in 1 .. Len(drafts) \/ i = Len(drafts) + 1
    BY <1>3
  <2>5. Len(draftCtx') = Len(drafts')
    BY <1>1, <1>3, <1>4 DEF DraftInv, DraftedInContext
  <2>6. \A i \in 1 .. Len(drafts') : draftCtx'[i] = all \o SubSeq(drafts', 1, i - 1)
    BY <2>1, <2>2, <2>4
  <2> QED
    BY <2>3, <2>5, <2>6 DEF DraftedInContext, Ahead
<1>6. Append(all \o drafts, d) = all \o Append(drafts, d)
  <2>1. all \in Text /\ drafts \in Text
    BY <1>1
  <2> QED
    BY <2>1, AppendedAfter
<1>7. DraftExtends'
  <2>1. draftKV' \in {all \o drafts, all \o drafts'} /\ all' = all
    BY <1>1, <1>2, <1>6 DEF DraftInv, Draft, state
  <2>2. ASSUME NEW t \in Text
        PROVE  Len(all \o t) >= Len(all) /\ SubSeq(all \o t, 1, Len(all)) = all
    BY <1>1 DEF Text
  <2> QED
    BY <1>1, <1>3, <2>1, <2>2 DEF DraftExtends
<1>8. /\ all' = all /\ targetKV' = targetKV /\ targetNext' = targetNext /\ draftNext' = draftNext
      /\ accepted' = accepted /\ judgedIn' = judgedIn /\ rejected' = rejected /\ hitEos' = hitEos
      /\ next' = next
  BY DEF Draft, state
<1>9. pc' = "draft" => draftKV' = all' \o drafts' /\ dcur' = draftKV'
  BY <1>1, <1>2, <1>6, <1>8 DEF DraftInv
<1>10. pc' \in {"draft", "verify"}
  BY <1>2
<1>11. pc' = "draft" => DraftInv'
  BY <1>1, <1>5, <1>8, <1>9 DEF DraftInv
<1>12. pc' = "verify" => VerifyInv'
  BY <1>1, <1>3, <1>5, <1>7, <1>8 DEF DraftInv, VerifyInv
<1> QED
  BY <1>10, <1>11, <1>12 DEF RoundInv

LEMMA VerifyStep == ASSUME Types, RoundInv, Verify PROVE RoundInv'
<1>1. VerifyInv /\ all \in Text /\ drafts \in Text /\ Len(drafts) \in Nat
  BY EmptyText DEF Verify, RoundInv, Types
<1>2. /\ targetKV' = targetKV \o drafts /\ pc' = "judge"
      /\ verified' = [i \in 1 .. Len(drafts) |-> targetKV \o SubSeq(drafts, 1, i)]
      /\ all' = all /\ draftKV' = draftKV /\ targetNext' = targetNext /\ draftNext' = draftNext
      /\ drafts' = drafts /\ draftCtx' = draftCtx /\ accepted' = accepted /\ judgedIn' = judgedIn
      /\ rejected' = rejected /\ hitEos' = hitEos /\ next' = next
  BY DEF Verify, state
<1>3. VerifiedInContext'
  <2>1. \A i \in 1 .. Len(drafts) : verified'[i] = all \o SubSeq(drafts, 1, i)
    BY <1>1, <1>2 DEF VerifyInv
  <2>2. Len(verified') = Len(drafts)
    BY <1>1, <1>2
  <2> QED
    BY <1>2, <2>1, <2>2 DEF VerifiedInContext, Ahead
<1>4. Len(accepted) = 0 /\ Len(judgedIn) = 0 /\ SubSeq(drafts, 1, 0) = <<>>
  BY <1>1, FirstOf, EmptyText DEF VerifyInv
<1>5. Judged'
  BY <1>2, <1>4 DEF Judged
<1>6. DraftExtends' /\ DraftedInContext'
  BY <1>1, <1>2 DEF VerifyInv, DraftExtends, DraftedInContext, Ahead
<1>7. JudgeInv'
  BY <1>1, <1>2, <1>3, <1>4, <1>5, <1>6 DEF VerifyInv, JudgeInv
<1> QED
  BY <1>2, <1>7 DEF RoundInv

\* The target's prediction for the next draft is the one after the tokens accepted so far.
LEMMA JudgeCtxIsAhead ==
    ASSUME Types, JudgeInv, NEW i \in 1 .. Len(drafts)
    PROVE  JudgeCtx(i) = Ahead(drafts, i - 1)
<1>1. CASE i = 1
  <2>1. SubSeq(drafts, 1, 1 - 1) = <<>> /\ all \o <<>> = all
    BY EmptyText, FirstOf DEF Types
  <2> QED
    BY <1>1, <2>1 DEF JudgeCtx, JudgeInv, Ahead
<1>2. CASE i # 1
  <2>1. i - 1 \in 1 .. Len(drafts)
    BY <1>2
  <2> QED
    BY <1>2, <2>1 DEF JudgeCtx, JudgeInv, VerifiedInContext
<1> QED
  BY <1>1, <1>2

\* One more token is judged after the ones accepted so far.
LEMMA JudgedFurther ==
    ASSUME Types, JudgeInv, NEW t \in Tokens, NEW ctx \in Text, all' = all,
           accepted' = Append(accepted, t), judgedIn' = Append(judgedIn, ctx),
           ctx = Ahead(drafts, Len(accepted))
    PROVE  /\ Judged' /\ accepted' \in Text /\ Len(accepted') = Len(accepted) + 1
           /\ SubSeq(accepted', 1, Len(accepted)) = SubSeq(drafts, 1, Len(accepted))
<1>1. /\ accepted \in Text /\ drafts \in Text /\ judgedIn \in Contexts /\ Len(accepted) \in Nat
      /\ Len(judgedIn) = Len(accepted)
  BY EmptyText DEF Types, JudgeInv, Judged
<1>2. /\ accepted' \in Text /\ Len(accepted') = Len(accepted) + 1
      /\ \A i \in 0 .. Len(accepted) : SubSeq(accepted', 1, i) = SubSeq(accepted, 1, i)
      /\ SubSeq(accepted, 1, Len(accepted)) = accepted
  BY <1>1, Appended, FirstOfAppended, FirstOf
<1>3. /\ Len(judgedIn') = Len(judgedIn) + 1 /\ judgedIn'[Len(judgedIn) + 1] = ctx
      /\ \A i \in 1 .. Len(judgedIn) : judgedIn'[i] = judgedIn[i]
  BY <1>1 DEF Contexts
<1>4. SubSeq(accepted', 1, Len(accepted)) = SubSeq(drafts, 1, Len(accepted))
  <2>1. Len(accepted) \in 0 .. Len(accepted)
    BY <1>1
  <2> QED
    BY <1>2, <2>1 DEF JudgeInv
<1>5. ASSUME NEW i \in 1 .. Len(accepted) + 1 PROVE judgedIn'[i] = all \o SubSeq(accepted', 1, i - 1)
  <2>1. CASE i \in 1 .. Len(accepted)
    <3>1. i - 1 \in 0 .. Len(accepted) /\ i \in 1 .. Len(judgedIn)
      BY <1>1, <2>1
    <3> QED
      BY <1>1, <1>2, <1>3, <2>1, <3>1 DEF JudgeInv, Judged, Ahead
  <2>2. CASE i = Len(accepted) + 1
    <3>1. i - 1 = Len(accepted)
      BY <1>1, <2>2
    <3> QED
      BY <1>1, <1>3, <1>4, <2>2, <3>1 DEF Ahead
  <2> QED
    BY <1>1, <2>1, <2>2
<1> QED
  BY <1>1, <1>2, <1>3, <1>4, <1>5 DEF Judged, Ahead

LEMMA AcceptStep == ASSUME Types, RoundInv, Accept PROVE RoundInv'
<1> DEFINE n == Len(accepted)
           t == drafts[n + 1]
<1>1. /\ JudgeInv /\ n \in Nat /\ n < Len(drafts) /\ n + 1 \in 1 .. Len(drafts) /\ t \in Tokens
      /\ drafts \in Text
  <2>1. JudgeInv /\ n \in Nat /\ n < Len(drafts) /\ drafts \in Text /\ Len(drafts) \in Nat
    BY EmptyText DEF Accept, RoundInv, Types
  <2>2. n + 1 \in 1 .. Len(drafts)
    BY <2>1
  <2> QED
    BY <2>1, <2>2 DEF Text
<1>2. /\ accepted' = Append(accepted, t) /\ judgedIn' = Append(judgedIn, JudgeCtx(n + 1))
      /\ hitEos' = (t = Eos) /\ rejected' = (t = Eos)
      /\ pc' = IF t = Eos THEN "extend" ELSE "judge"
      /\ all' = all /\ targetKV' = targetKV /\ draftKV' = draftKV /\ targetNext' = targetNext
      /\ draftNext' = draftNext /\ drafts' = drafts /\ draftCtx' = draftCtx /\ verified' = verified
      /\ next' = next
  BY DEF Accept, caches, state
<1>3. JudgeCtx(n + 1) = Ahead(drafts, n)
  <2>1. (n + 1) - 1 = n
    BY <1>1
  <2> QED
    BY <1>1, <2>1, JudgeCtxIsAhead
<1>4. Ahead(drafts, n) \in Text
  BY <1>1 DEF Ahead, Types, Text
<1>5. /\ Judged' /\ accepted' \in Text /\ Len(accepted') = n + 1
      /\ SubSeq(accepted', 1, n) = SubSeq(drafts, 1, n)
  BY <1>1, <1>2, <1>3, <1>4, JudgedFurther
<1>6. accepted' = SubSeq(drafts, 1, n + 1)
  <2>1. accepted = SubSeq(drafts, 1, n) /\ n \in 0 .. Len(drafts) - 1
    BY <1>1 DEF JudgeInv
  <2> QED
    BY <1>1, <1>2, <2>1, OneFurther
<1>7. CASE t = Eos
  BY <1>2, <1>5, <1>7 DEF RoundInv, ExtendInv
<1>8. CASE t # Eos
  <2>1. ~rejected' /\ ~hitEos' /\ pc' = "judge"
    BY <1>2, <1>8
  <2>2. DraftExtends' /\ DraftedInContext' /\ VerifiedInContext'
    BY <1>1, <1>2 DEF JudgeInv, DraftExtends, DraftedInContext, VerifiedInContext, Ahead
  <2>3. Len(accepted') <= Len(drafts') /\ accepted' = SubSeq(drafts', 1, Len(accepted'))
    BY <1>1, <1>2, <1>5, <1>6
  <2>4. JudgeInv'
    BY <1>1, <1>2, <1>5, <2>1, <2>2, <2>3 DEF JudgeInv
  <2> QED
    BY <2>1, <2>4 DEF RoundInv
<1> QED
  BY <1>7, <1>8

\* Reject and Bonus: a token of the target's is the last of the round.
LEMMA LastStep ==
    ASSUME Types, JudgeInv, NEW t \in Tokens, NEW ctx \in Text, ctx = Ahead(drafts, Len(accepted)),
           accepted' = Append(accepted, t), judgedIn' = Append(judgedIn, ctx), hitEos' = (t = Eos),
           rejected' \/ Len(accepted) = Len(drafts),
           pc' = IF t = Eos THEN "extend" ELSE "commit",
           UNCHANGED <<caches, state, drafts, next>>
    PROVE  RoundInv'
<1>1. /\ Judged' /\ accepted' \in Text /\ Len(accepted') = Len(accepted) + 1
      /\ SubSeq(accepted', 1, Len(accepted)) = SubSeq(drafts, 1, Len(accepted))
  BY JudgedFurther DEF state
<1>2. /\ Len(accepted) \in Nat /\ Len(accepted) <= Len(drafts) /\ Len(accepted') - 1 = Len(accepted)
  BY <1>1, EmptyText DEF Types, JudgeInv
<1>3. CASE t = Eos
  BY <1>1, <1>3 DEF RoundInv, ExtendInv
<1>4. CASE t # Eos
  <2>1. ~hitEos' /\ pc' = "commit"
    BY <1>4
  <2>2. DraftExtends'
    BY DEF JudgeInv, DraftExtends, caches, state
  <2>3. CommitInv'
    BY <1>1, <1>2, <2>1, <2>2 DEF CommitInv, JudgeInv, caches, state
  <2> QED
    BY <2>1, <2>3 DEF RoundInv
<1> QED
  BY <1>3, <1>4

LEMMA RejectStep == ASSUME Types, RoundInv, Reject PROVE RoundInv'
<1> DEFINE n == Len(accepted)
<1>1. /\ JudgeInv /\ n \in Nat /\ n < Len(drafts) /\ n + 1 \in 1 .. Len(drafts) /\ n \in 0 .. Len(drafts)
  <2>1. JudgeInv /\ n \in Nat /\ n < Len(drafts) /\ Len(drafts) \in Nat
    BY EmptyText DEF Reject, RoundInv, Types
  <2> QED
    BY <2>1
<1>2. PICK t \in Tokens :
          /\ accepted' = Append(accepted, t) /\ judgedIn' = Append(judgedIn, JudgeCtx(n + 1))
          /\ hitEos' = (t = Eos) /\ rejected' = TRUE /\ pc' = IF t = Eos THEN "extend" ELSE "commit"
  BY DEF Reject
<1>3. JudgeCtx(n + 1) = Ahead(drafts, n)
  <2>1. (n + 1) - 1 = n
    BY <1>1
  <2> QED
    BY <1>1, <2>1, JudgeCtxIsAhead
<1>4. Ahead(drafts, n) \in Text
  BY <1>1 DEF Ahead, Types, Text
<1>5. UNCHANGED <<caches, state, drafts, next>>
  BY DEF Reject
<1>6. rejected'
  BY <1>2
<1> QED
  BY <1>1, <1>2, <1>3, <1>4, <1>5, <1>6, LastStep

LEMMA BonusStep == ASSUME Types, RoundInv, Bonus PROVE RoundInv'
<1> DEFINE n == Len(accepted)
<1>1. JudgeInv /\ n \in Nat /\ n = Len(drafts) /\ n \in 1 .. Len(drafts) /\ n \in 0 .. Len(drafts)
  <2>1. JudgeInv /\ n \in Nat /\ n = Len(drafts) /\ drafts # <<>> /\ drafts \in Text
    BY EmptyText DEF Bonus, RoundInv, Types, JudgeInv
  <2>2. n >= 1
    BY <2>1, EmptyText
  <2> QED
    BY <2>1, <2>2
<1>2. PICK t \in Tokens :
          /\ accepted' = Append(accepted, t) /\ judgedIn' = Append(judgedIn, verified[Len(drafts)])
          /\ hitEos' = (t = Eos) /\ pc' = IF t = Eos THEN "extend" ELSE "commit"
  BY DEF Bonus
<1>3. verified[Len(drafts)] = Ahead(drafts, n)
  BY <1>1 DEF JudgeInv, VerifiedInContext
<1>4. Ahead(drafts, n) \in Text
  BY <1>1 DEF Ahead, Types, Text
<1>5. UNCHANGED <<caches, state, drafts, next>>
  BY DEF Bonus
<1> QED
  BY <1>1, <1>2, <1>3, <1>4, <1>5, LastStep

\* What the target holds past the accepted drafts goes, the last token is appended.
LEMMA CommitStep == ASSUME Types, RoundInv, CommitTarget PROVE RoundInv'
<1> DEFINE n == Len(accepted)
           kept == IF rejected THEN Truncate(targetKV, CommittedLen + (n - 1)) ELSE targetKV
<1>1. /\ CommitInv /\ all \in Text /\ drafts \in Text /\ accepted \in Text /\ draftKV \in Text
      /\ n \in Nat /\ n >= 1 /\ Len(all) \in Nat /\ Len(drafts) \in Nat
  BY EmptyText DEF CommitTarget, RoundInv, Types, CommitInv
<1>2. n - 1 \in 0 .. Len(drafts) /\ n - 1 \in 0 .. Len(accepted) - 1 /\ n - 1 \in 0 .. Len(accepted)
  BY <1>1 DEF CommitInv
<1>3. kept = all \o SubSeq(accepted, 1, n - 1)
  <2>1. CASE rejected
    <3>1. kept = Truncate(all \o drafts, Len(all) + (n - 1))
      BY <1>1, <2>1 DEF CommitInv, CommittedLen
    <3>2. kept = all \o SubSeq(drafts, 1, n - 1)
      BY <1>1, <1>2, <3>1, RolledBack
    <3> QED
      BY <1>1, <3>2 DEF CommitInv
  <2>2. CASE ~rejected
    <3>1. n - 1 = Len(drafts) /\ SubSeq(drafts, 1, n - 1) = drafts
      BY <1>1, <1>2, <2>2, FirstOf DEF CommitInv
    <3> QED
      BY <1>1, <2>2, <3>1 DEF CommitInv
  <2> QED
    BY <2>1, <2>2
<1>4. Append(SubSeq(accepted, 1, n - 1), accepted[n]) = accepted
  <2>1. Append(SubSeq(accepted, 1, n - 1), accepted[(n - 1) + 1]) = SubSeq(accepted, 1, (n - 1) + 1)
    BY <1>1, <1>2, OneFurther
  <2>2. (n - 1) + 1 = n /\ 0 \in 0 .. Len(accepted)
    BY <1>1
  <2>3. SubSeq(accepted, 1, n) = accepted
    BY <1>1, <2>2, FirstOf
  <2> QED
    BY <2>1, <2>2, <2>3
<1>5. Append(kept, accepted[n]) = all \o accepted
  <2>1. accepted[n] \in Tokens
    BY <1>1 DEF Text
  <2>2. SubSeq(accepted, 1, n - 1) \in Text
    BY <1>1, <1>2, FirstOf
  <2>3. Append(all \o SubSeq(accepted, 1, n - 1), accepted[n])
            = all \o Append(SubSeq(accepted, 1, n - 1), accepted[n])
    BY <1>1, <2>1, <2>2, AppendedAfter
  <2> QED
    BY <1>3, <1>4, <2>3
<1>6. targetKV' = Append(kept, accepted[n]) /\ targetNext' = Append(kept, accepted[n])
  BY DEF CommitTarget
<1> HIDE DEF kept
<1>7. draftKV' = all
  BY <1>1, DraftRolledBack DEF CommitTarget, CommitInv
<1>8. /\ all' = all /\ accepted' = accepted /\ judgedIn' = judgedIn /\ hitEos' = hitEos /\ pc' = "replay"
      /\ next' = next
  BY DEF CommitTarget
<1>9. Judged'
  BY <1>1, <1>8 DEF CommitInv, Judged, Ahead
<1>10. draftKV' = Ahead(accepted, next)' /\ next' < Len(accepted')
  <2>1. next' = 0 /\ 0 \in 0 .. Len(accepted)
    BY <1>1, <1>8 DEF CommitInv
  <2>2. SubSeq(accepted, 1, 0) = <<>> /\ all \o <<>> = all
    BY <1>1, <2>1, FirstOf, EmptyText
  <2> QED
    <3>1. next' < Len(accepted')
      BY <1>1, <1>8, <2>1
    <3>2. all' \o SubSeq(accepted', 1, next') = all
      BY <1>8, <2>1, <2>2
    <3> QED
      BY <1>7, <3>1, <3>2 DEF Ahead
<1> QED
  BY <1>1, <1>5, <1>6, <1>8, <1>9, <1>10 DEF CommitInv, RoundInv, ReplayInv

LEMMA ReplayStep == ASSUME Types, RoundInv, Replay PROVE RoundInv'
<1>1. /\ ReplayInv /\ all \in Text /\ accepted \in Text /\ draftKV \in Text
      /\ next \in Nat /\ Len(accepted) \in Nat /\ next \in 0 .. Len(accepted) - 1
      /\ next \in 0 .. Len(accepted) /\ next + 1 \in 1 .. Len(accepted)
  <2>1. /\ ReplayInv /\ all \in Text /\ accepted \in Text /\ draftKV \in Text
        /\ next \in Nat /\ Len(accepted) \in Nat /\ next < Len(accepted)
    BY EmptyText DEF Replay, RoundInv, Types, ReplayInv
  <2> QED
    BY <2>1
<1>2. /\ draftKV' = Append(draftKV, accepted[next + 1]) /\ next' = next + 1
      /\ targetKV' = targetKV /\ all' = all /\ targetNext' = targetNext /\ accepted' = accepted
      /\ judgedIn' = judgedIn /\ hitEos' = hitEos
      /\ IF next + 1 = Len(accepted) THEN draftNext' = draftKV' /\ pc' = "extend" ELSE pc' = "replay"
  BY DEF Replay
<1>3. draftKV' = Ahead(accepted, next + 1)
  <2>1. accepted[next + 1] \in Tokens
    BY <1>1 DEF Text
  <2>2. SubSeq(accepted, 1, next) \in Text
    BY <1>1, FirstOf
  <2>3. Append(all \o SubSeq(accepted, 1, next), accepted[next + 1])
            = all \o Append(SubSeq(accepted, 1, next), accepted[next + 1])
    BY <1>1, <2>1, <2>2, AppendedAfter
  <2>4. Append(SubSeq(accepted, 1, next), accepted[next + 1]) = SubSeq(accepted, 1, next + 1)
    BY <1>1, OneFurther
  <2> QED
    BY <1>1, <1>2, <2>3, <2>4 DEF ReplayInv, Ahead
<1>4. Judged'
  BY <1>1, <1>2 DEF ReplayInv, Judged, Ahead
<1>5. CASE next + 1 = Len(accepted)
  <2>1. SubSeq(accepted, 1, Len(accepted)) = accepted
    BY <1>1, FirstOf
  <2>2. draftKV' = all \o accepted
    BY <1>3, <1>5, <2>1 DEF Ahead
  <2>3. ExtendInv'
    BY <1>1, <1>2, <1>4, <1>5, <2>2 DEF ReplayInv, ExtendInv, AllAt
  <2> QED
    BY <1>2, <1>5, <2>3 DEF RoundInv
<1>6. CASE next + 1 # Len(accepted)
  <2>1. next + 1 < Len(accepted)
    BY <1>1, <1>6
  <2>2. ReplayInv'
    BY <1>1, <1>2, <1>3, <1>4, <2>1 DEF ReplayInv, Ahead
  <2> QED
    BY <1>2, <1>6, <2>2 DEF RoundInv
<1> QED
  BY <1>5, <1>6

\* A step that leaves the caches and the round alone.
LEMMA OutsideRound ==
    ASSUME Types, RoundInv, pc' \in {"emit", "round", "flush", "done"},
           UNCHANGED <<targetKV, draftKV, targetNext, draftNext, all, hitEos>>,
           pc' \in {"emit", "round"} => pc' = pc \/ (pc = "emit" /\ ~hitEos)
    PROVE  RoundInv'
  BY DEF RoundInv, AllAt

LEMMA RoundNext == Types /\ RoundInv /\ [Next]_vars => RoundInv'
<1> SUFFICES ASSUME Types, RoundInv, [Next]_vars PROVE RoundInv'
  OBVIOUS
<1>1. CASE Prefill
  BY <1>1 DEF Prefill, RoundInv, AllAt
<1>2. CASE Extend
  BY <1>2 DEF Extend, RoundInv, ExtendInv, AllAt, caches, round
<1>3. CASE Collect \/ StreamEos \/ StreamStop \/ StreamText \/ StreamLeft
  <2>1. NextToken /\ pc = "emit" /\ pc' \in {"emit", "flush", "done"}
    BY <1>3 DEF Collect, StreamEos, StreamStop, StreamText, StreamLeft, NextToken
  <2> QED
    BY <2>1, OutsideRound DEF NextToken, caches, state, round
<1>4. CASE RoundDone \/ Flush \/ EngineFails
  BY <1>4, OutsideRound DEF RoundDone, Flush, EngineFails, caches, state, round
<1>5. CASE Done \/ UNCHANGED vars
  <2>1. UNCHANGED <<caches, state, round, pc>>
    BY <1>5 DEF Done, vars
  <2> QED
    BY <2>1 DEF caches, state, round, RoundInv, AllAt, DraftInv, VerifyInv, JudgeInv, CommitInv, ReplayInv,
       ExtendInv, DraftExtends, DraftedInContext, VerifiedInContext, Judged, Ahead
<1> QED
  BY <1>1, <1>2, <1>3, <1>4, <1>5, BeginRoundStep, DraftStep, VerifyStep, AcceptStep, RejectStep, BonusStep,
     CommitStep, ReplayStep DEF Next

-----------------------------------------------------------------------------
(* The theorems                                                            *)

LEMMA InvHolds == Spec => []IInv
<1>1. Init => IInv
  BY TypesInit, RoundInit, ReplyInit DEF IInv
<1>2. IInv /\ [Next]_vars => IInv'
  BY TypesNext, RoundNext, ReplyNext DEF IInv
<1> QED
  BY <1>1, <1>2, PTL DEF Spec

\* After every round, whatever was drafted, accepted, rejected and rolled back, both caches hold
\* exactly the committed tokens and both models predict what follows them.
THEOREM CachesAlwaysMatch == Spec => []CachesMatch
<1>1. IInv => CachesMatch
  BY DEF IInv, RoundInv, AllAt, CachesMatch
<1> QED
  BY <1>1, InvHolds, PTL

\* Every token of a round was judged by the target, and every draft sampled by the draft model,
\* with exactly the tokens before it as context.
THEOREM JudgedInOwnContext == Spec => []InOwnContext
<1>1. ASSUME IInv PROVE InOwnContext
  <2>1. DOMAIN accepted = 1 .. Len(accepted) /\ DOMAIN drafts = 1 .. Len(drafts)
    BY <1>1 DEF IInv, Types, Text
  <2>2. pc \in {"judge", "commit", "replay", "extend"} => Judged
    BY <1>1 DEF IInv, RoundInv, JudgeInv, CommitInv, ReplayInv, ExtendInv
  <2>3. pc \in {"draft", "verify", "judge"} => DraftedInContext
    BY <1>1 DEF IInv, RoundInv, DraftInv, VerifyInv, JudgeInv
  <2> QED
    BY <2>1, <2>2, <2>3 DEF InOwnContext, JudgedInContext, Judged, DraftedInContext, Ahead
<1> QED
  BY <1>1, InvHolds, PTL

\* A round commits a burst of up to K + 1 tokens, and still the reply never has more than
\* max_new_tokens and nothing after an Eos.
THEOREM RepliesEndInTime == Spec => []EndsInTime
<1>1. IInv => EndsInTime
  BY DEF IInv, ReplyInv
<1> QED
  BY <1>1, InvHolds, PTL

\* Whatever burst a round commits: a stop sequence that is found is still unsent, unless it opens
\* the reply, and a stream that is cut has sent all its text, once. With the two facts about short
\* replies of plain decoding, which the run evaluates, that is all of the property it checks.
THEOREM StreamsAreWellCut ==
    ASSUME PlainIsOneReply, SplitCharactersBreakStreams
    PROVE  Spec => []ReplyWellCut
<1>1. Init => StreamInv
  BY StreamInit
<1>2. IInv /\ StreamInv /\ [Next]_vars => StreamInv'
  BY StreamNext DEF IInv
<1>3. IInv /\ StreamInv => ReplyWellCut
  BY DEF IInv, ReplyInv, StreamInv, ReplyWellCut
<1> QED
  BY <1>1, <1>2, <1>3, InvHolds, PTL DEF Spec
=============================================================================
