---------------------------- MODULE CacheProofs ----------------------------
(***************************************************************************)
(* The KV cache: that a pipeline reuses a prefix of it safely, for every   *)
(* number of callers, vocabulary, prompt and reply length (PrefixCache),   *)
(* and that every forward engine keeps the promise of KvCache that makes   *)
(* the reuse right, for every number of layers, window and sequence of     *)
(* calls (ForwardEngines).                                                 *)
(***************************************************************************)
EXTENDS PrefixCache, ForwardEngines, DataLemmas, SequenceTheorems, TLAPS

Steps == {"idle", "lock", "reuse", "clear", "prefill", "decode", "sample", "record", "unlock", "reset",
          "forget"}
Holding == {"reuse", "clear", "prefill", "decode", "sample", "record", "unlock", "reset"}

\* lastPrompt describes the cache: they agree as far as both go.
Agree == Shares(kv, lastPrompt, Lower(Len(kv), Len(lastPrompt)))

\* The cache holds the first n tokens of s.
Holds(s, n) == Len(kv) = n /\ n <= Len(s) /\ Shares(kv, s, n)

Types ==
    /\ kv \in Seq(Tokens) /\ lastPrompt \in Seq(Tokens)
    /\ mutex \in Callers \cup {NoCaller} /\ poisoned \in BOOLEAN
    /\ pc \in [Callers -> Steps]
    /\ kind \in [Callers -> Kinds \cup {"none"}]
    /\ all \in [Callers -> Seq(Tokens)]
    /\ start \in [Callers -> Nat]

\* What the caller that holds the engine has made of the cache.
HolderInv(c) ==
    /\ pc[c] \in {"reuse", "record"} => kind[c] \in {"stream", "call"}
    /\ pc[c] \in {"prefill", "decode", "sample", "unlock"} => kind[c] \in {"stream", "call", "raw"}
    /\ pc[c] = "clear" => kind[c] = "raw"
    /\ pc[c] = "reset" => kind[c] \in {"embed", "reset"}
    /\ pc[c] # "reset" => Len(all[c]) >= 1 /\ Len(all[c]) <= MaxPrompt + MaxNew
    /\ pc[c] \in {"reuse", "clear", "prefill"} => Len(all[c]) <= MaxPrompt
    /\ pc[c] \in {"reuse", "clear", "reset", "unlock"} => Agree
    /\ pc[c] \in {"prefill", "decode", "sample"} /\ kind[c] = "raw" => lastPrompt = <<>>
    /\ pc[c] = "prefill" => start[c] < Len(all[c]) /\ Holds(all[c], start[c])
    /\ pc[c] = "decode" => Holds(all[c], Len(all[c]) - 1)
    /\ pc[c] = "sample" => Holds(all[c], Len(all[c])) /\ Len(kv) <= Window
    /\ pc[c] = "record" => Holds(all[c], Len(kv))

IInv ==
    /\ Types
    /\ \A c \in Callers : pc[c] \in Holding <=> mutex = c
    /\ \A c \in Callers : pc[c] \in {"idle", "lock", "reuse", "clear", "reset", "forget"} => start[c] = 0
    /\ mutex # NoCaller => ~poisoned
    /\ mutex = NoCaller /\ ~poisoned => Agree
    /\ \A c \in Callers : mutex = c => HolderInv(c)

\* No `call` fails after it has touched the cache, the one kind that then records nothing: the
\* device does not fail in one, and either the context fits the window or the engine fails when it
\* is full (so never slides) and no `call` is made.
NoCallFails ==
    /\ "call" \notin FailingKinds
    /\ MaxPrompt + MaxNew <= Window \/ (~Slides /\ "call" \notin Kinds)

-----------------------------------------------------------------------------
(* Sequences and the shared prefix                                         *)

\* common_prefix_len returns a number of tokens that both have and share.
LEMMA CommonPrefixLenShares ==
    ASSUME NEW a \in Seq(Tokens), NEW b \in Seq(Tokens)
    PROVE  /\ CommonPrefixLen(a, b) \in 0 .. Lower(Len(a), Len(b))
           /\ Shares(a, b, CommonPrefixLen(a, b))
<1> DEFINE L == Lower(Len(a), Len(b))
           T == {n \in 0 .. L : Shares(a, b, n)}
<1>1. L \in Nat
  BY DEF Lower
<1>2. 0 \in T
  BY <1>1 DEF Shares
<1>3. PICK n \in T : \A m \in T : m <= n
  BY <1>1, <1>2, GreatestOf
<1>4. /\ n \in 0 .. L /\ Shares(a, b, n)
      /\ \A m \in 0 .. L : Shares(a, b, m) => m <= n
  BY <1>3
<1> QED
  BY <1>4 DEF CommonPrefixLen

\* A cache that holds nothing, or is described by nothing, is described.
LEMMA NothingAgrees ==
    ASSUME kv \in Seq(Tokens), lastPrompt \in Seq(Tokens), kv = <<>> \/ lastPrompt = <<>>
    PROVE  Agree
<1>1. Lower(Len(kv), Len(lastPrompt)) = 0
  BY DEF Lower
<1> QED
  BY <1>1 DEF Agree, Shares

-----------------------------------------------------------------------------
(* The steps                                                               *)

LEMMA InvInit == Init => IInv
<1> SUFFICES ASSUME Init PROVE IInv
  OBVIOUS
<1>1. Types
  <2>1. kv \in Seq(Tokens) /\ lastPrompt \in Seq(Tokens)
    BY DEF Init
  <2>4. poisoned \in BOOLEAN
    BY DEF Init
  <2>2. /\ pc \in [Callers -> Steps] /\ kind \in [Callers -> Kinds \cup {"none"}]
        /\ start \in [Callers -> Nat]
    BY DEF Init, Steps
  <2>3. all \in [Callers -> Seq(Tokens)]
    <3>1. <<>> \in Seq(Tokens)
      OBVIOUS
    <3> QED
      BY <3>1 DEF Init
  <2> QED
    BY <2>1, <2>2, <2>3, <2>4 DEF Init, Types
<1>2. Agree
  BY <1>1, NothingAgrees DEF Init, Types
<1> QED
  BY <1>1, <1>2, CallerAssumption DEF Init, IInv, Holding

\* A step that touches neither the cache nor what the holder knows; another caller may forget.
LEMMA HolderUnmoved ==
    ASSUME IInv, NEW d \in Callers, mutex = d, kv' = kv, lastPrompt' \in {lastPrompt, <<>>},
           pc'[d] = pc[d], kind'[d] = kind[d], all'[d] = all[d], start'[d] = start[d]
    PROVE  HolderInv(d)'
<1>1. Agree => Agree'
  <2>1. CASE lastPrompt' = lastPrompt
    BY <2>1 DEF Agree
  <2>2. CASE lastPrompt' = <<>>
    <3>1. kv' \in Seq(Tokens) /\ lastPrompt' \in Seq(Tokens) /\ Lower(Len(kv'), Len(lastPrompt')) = 0
      BY <2>2 DEF IInv, Types, Lower
    <3> QED
      BY <3>1 DEF Agree, Shares
  <2> QED
    BY <2>1, <2>2
<1> QED
  BY <1>1 DEF IInv, HolderInv, Holds, Shares

\* What every step has to say of the callers: who moved, and that the others did not.
Moved(c) ==
    /\ pc' = [pc EXCEPT ![c] = pc'[c]] /\ kind' = [kind EXCEPT ![c] = kind'[c]]
    /\ all' = [all EXCEPT ![c] = all'[c]] /\ start' = [start EXCEPT ![c] = start'[c]]
    /\ pc'[c] \in Steps /\ kind'[c] \in Kinds \cup {"none"}
    /\ all'[c] \in Seq(Tokens) /\ start'[c] \in Nat

LEMMA ReturnMoves ==
    ASSUME IInv, NEW c \in Callers, Return(c)
    PROVE  Moved(c) /\ pc'[c] = "idle" /\ start'[c] = 0
  BY DEF Return, Goto, IInv, Types, Moved, Steps

LEMMA MovedTypes ==
    ASSUME Types, NEW c \in Callers, Moved(c)
    PROVE  /\ pc' \in [Callers -> Steps] /\ kind' \in [Callers -> Kinds \cup {"none"}]
           /\ all' \in [Callers -> Seq(Tokens)] /\ start' \in [Callers -> Nat]
           /\ \A d \in Callers \ {c} : /\ pc'[d] = pc[d] /\ kind'[d] = kind[d]
                                      /\ all'[d] = all[d] /\ start'[d] = start[d]
  BY DEF Types, Moved

\* A caller that does not hold the engine moves, and does not take it.
LEMMA OutsideKeepsInv ==
    ASSUME IInv, NEW c \in Callers, mutex # c, Moved(c),
           kv' = kv, mutex' = mutex, poisoned' = poisoned, lastPrompt' \in {lastPrompt, <<>>},
           pc'[c] \in {"idle", "lock", "forget"}, start'[c] = 0
    PROVE  IInv'
<1>1. Types'
  <2>1. poisoned' \in BOOLEAN
    <3>1. poisoned \in BOOLEAN
      BY DEF IInv, Types
    <3> QED
      BY <3>1, Zenon
  <2>2. lastPrompt' \in Seq(Tokens)
    <3>1. lastPrompt \in Seq(Tokens) /\ <<>> \in Seq(Tokens)
      BY DEF IInv, Types
    <3> QED
      BY <3>1
  <2> QED
    BY <2>1, <2>2, MovedTypes DEF IInv, Types
<1>2. \A d \in Callers \ {c} : /\ pc'[d] = pc[d] /\ kind'[d] = kind[d]
                              /\ all'[d] = all[d] /\ start'[d] = start[d]
  BY MovedTypes DEF IInv
<1>3. \A d \in Callers : pc'[d] \in Holding <=> mutex' = d
  BY <1>2 DEF IInv, Holding
<1>4. Agree => Agree'
  BY <1>1, NothingAgrees DEF Agree, Types, Shares, Lower
<1>5. \A d \in Callers : mutex' = d => HolderInv(d)'
  BY <1>2, HolderUnmoved
<1> QED
  BY <1>1, <1>2, <1>3, <1>4, <1>5 DEF IInv

\* The caller that holds the engine moves and keeps it.
LEMMA InsideKeepsInv ==
    ASSUME IInv, NEW c \in Callers, mutex = c, Moved(c), mutex' = mutex, poisoned' = poisoned,
           kv' \in Seq(Tokens), lastPrompt' \in Seq(Tokens),
           pc'[c] \in Holding, pc'[c] \in {"reuse", "clear", "reset"} => start'[c] = 0,
           HolderInv(c)'
    PROVE  IInv'
<1>1. Types'
  BY MovedTypes DEF IInv, Types
<1>2. \A d \in Callers \ {c} : pc'[d] = pc[d] /\ start'[d] = start[d]
  BY MovedTypes DEF IInv
<1>3. \A d \in Callers : pc'[d] \in Holding <=> mutex' = d
  BY <1>2 DEF IInv
<1>4. \A d \in Callers : pc'[d] \in {"idle", "lock", "reuse", "clear", "reset", "forget"} => start'[d] = 0
  BY <1>2 DEF IInv, Holding
<1>5. mutex # NoCaller
  BY CallerAssumption
<1> QED
  BY <1>1, <1>3, <1>4, <1>5 DEF IInv

\* The caller that holds the engine releases it, or loses it in a panic.
LEMMA ReleaseKeepsInv ==
    ASSUME IInv, NEW c \in Callers, mutex = c, Moved(c), mutex' = NoCaller, poisoned' \in BOOLEAN,
           kv' \in Seq(Tokens), lastPrompt' \in Seq(Tokens),
           pc'[c] \in {"idle", "forget"}, start'[c] = 0, poisoned' \/ Agree'
    PROVE  IInv'
<1>1. Types'
  <2>1. /\ pc' \in [Callers -> Steps] /\ kind' \in [Callers -> Kinds \cup {"none"}]
        /\ all' \in [Callers -> Seq(Tokens)] /\ start' \in [Callers -> Nat]
    BY DEF IInv, Types, Moved
  <2> QED
    BY <2>1 DEF Types
<1>2. \A d \in Callers \ {c} : pc'[d] = pc[d] /\ start'[d] = start[d]
  BY DEF IInv, Types, Moved
<1>3. \A d \in Callers : pc'[d] \in Holding <=> mutex' = d
  BY <1>2, CallerAssumption DEF IInv, Holding
<1>4. \A d \in Callers : pc'[d] \in {"idle", "lock", "reuse", "clear", "reset", "forget"} => start'[d] = 0
  BY <1>2 DEF IInv, Holding
<1> QED
  BY <1>1, <1>3, <1>4, CallerAssumption DEF IInv

LEMMA OutsideSteps ==
    ASSUME IInv, NEW c \in Callers, Begin(c) \/ LockFails(c) \/ Forget(c)
    PROVE  IInv'
<1>1. pc[c] \in {"idle", "lock", "forget"} /\ mutex # c /\ start[c] = 0
  BY DEF Begin, LockFails, Forget, IInv, Holding
<1>2. CASE Begin(c)
  <2>1. Moved(c) /\ pc'[c] = "lock" /\ start'[c] = 0
    BY <1>1, <1>2 DEF Begin, Goto, Moved, IInv, Types, Steps
  <2> QED
    BY <1>1, <1>2, <2>1, OutsideKeepsInv DEF Begin, engine
<1>3. CASE LockFails(c)
  <2>1. Moved(c) /\ pc'[c] \in {"idle", "forget"} /\ start'[c] = 0
    <3>1. CASE Return(c)
      BY <3>1, ReturnMoves
    <3>2. CASE Goto(c, "forget") /\ UNCHANGED <<kind, all, start>>
      BY <1>1, <3>2 DEF Goto, Moved, IInv, Types, Steps
    <3> QED
      BY <1>3, <3>1, <3>2 DEF LockFails
  <2> QED
    BY <1>1, <1>3, <2>1, OutsideKeepsInv DEF LockFails, engine
<1>4. CASE Forget(c)
  BY <1>1, <1>4, ReturnMoves, OutsideKeepsInv DEF Forget, engine
<1> QED
  BY <1>2, <1>3, <1>4

LEMMA PromptsAreSequences ==
    ASSUME NEW p \in Prompts
    PROVE  p \in Seq(Tokens) /\ Len(p) >= 1 /\ Len(p) <= MaxPrompt
<1>1. PICK n \in 1 .. MaxPrompt : p \in [1 .. n -> Tokens]
  BY DEF Prompts
<1>2. n \in Nat /\ n >= 1 /\ n <= MaxPrompt
  BY <1>1, SizeAssumption
<1>3. p \in Seq(Tokens)
  BY <1>1, <1>2
<1>4. Len(p) = n
  BY <1>1, <1>2, <1>3
<1> QED
  BY <1>2, <1>3, <1>4

LEMMA LockStep ==
    ASSUME IInv, NEW c \in Callers, Lock(c)
    PROVE  IInv'
<1>1. pc[c] = "lock" /\ mutex = NoCaller /\ ~poisoned /\ Agree /\ start[c] = 0
  BY DEF Lock, IInv
<1>2. /\ pc'[c] \in {"reuse", "clear", "reset"} /\ kind' = kind /\ start' = start /\ Moved(c)
      /\ pc'[c] = "clear" => kind[c] = "raw"
      /\ pc'[c] = "reuse" => kind[c] \in {"stream", "call"}
      /\ pc'[c] = "reset" => kind[c] \in {"embed", "reset"}
      /\ pc'[c] # "reset" => Len(all'[c]) >= 1 /\ Len(all'[c]) <= MaxPrompt
  <2>1. CASE kind[c] \in {"stream", "call", "raw"}
    <3>1. PICK p \in Prompts : all' = [all EXCEPT ![c] = p]
      BY <2>1 DEF Lock
    <3>2. p \in Seq(Tokens) /\ Len(p) >= 1 /\ Len(p) <= MaxPrompt
      BY PromptsAreSequences
    <3>3. all'[c] = p /\ pc' = [pc EXCEPT ![c] = IF kind[c] = "raw" THEN "clear" ELSE "reuse"]
      BY <2>1, <3>1 DEF Lock, Goto, IInv, Types
    <3> QED
      BY <2>1, <3>1, <3>2, <3>3 DEF Lock, IInv, Types, Moved, Steps
  <2>2. CASE kind[c] \in {"embed", "reset"}
    BY <2>2 DEF Lock, Goto, IInv, Types, Moved, Steps
  <2> QED
    BY <2>1, <2>2 DEF Lock
<1>3. Types'
  BY <1>2 DEF Lock, IInv, Types, Moved
<1>4. \A d \in Callers \ {c} : pc'[d] = pc[d] /\ start'[d] = start[d]
  BY <1>2 DEF IInv, Types, Moved
<1>5. Agree' /\ MaxPrompt <= MaxPrompt + MaxNew
  BY <1>1, SizeAssumption DEF Lock, Agree
<1>6. HolderInv(c)'
  BY <1>2, <1>3, <1>5, SizeAssumption DEF HolderInv, Types
<1>7. \A d \in Callers : pc'[d] \in Holding <=> mutex' = d
  BY <1>1, <1>2, <1>4, CallerAssumption DEF IInv, Holding, Lock
<1>8. mutex' = c /\ poisoned' = poisoned
  BY DEF Lock
<1>9. \A d \in Callers : pc'[d] \in {"idle", "lock", "reuse", "clear", "reset", "forget"} => start'[d] = 0
  BY <1>1, <1>2 DEF IInv, Holding, Moved, Types
<1> QED
  BY <1>1, <1>3, <1>6, <1>7, <1>8, <1>9, CallerAssumption DEF IInv

\* The holder's own sequences, at the steps where they matter.
LEMMA HolderFacts ==
    ASSUME IInv, NEW c \in Callers, pc[c] \in Holding
    PROVE  /\ mutex = c /\ ~poisoned /\ HolderInv(c)
           /\ all[c] \in Seq(Tokens) /\ start[c] \in Nat
           /\ kv \in Seq(Tokens) /\ lastPrompt \in Seq(Tokens)
  BY CallerAssumption DEF IInv, Types

LEMMA ReuseStep ==
    ASSUME IInv, NEW c \in Callers, Reuse(c)
    PROVE  IInv'
<1> DEFINE shared == CommonPrefixLen(lastPrompt, all[c])
           p == Lower(shared, Len(all[c]) - 1)
           kept == IF CanTruncate THEN Lower(p, Len(kv)) ELSE 0
<1>1. pc[c] \in Holding /\ pc[c] = "reuse"
  BY DEF Reuse, Holding
<1>2. /\ mutex = c /\ HolderInv(c) /\ all[c] \in Seq(Tokens) /\ start[c] \in Nat
      /\ kv \in Seq(Tokens) /\ lastPrompt \in Seq(Tokens)
  BY <1>1, HolderFacts
<1>3. /\ shared \in 0 .. Lower(Len(lastPrompt), Len(all[c])) /\ Shares(lastPrompt, all[c], shared)
  BY <1>2, CommonPrefixLenShares
<1>4. Len(all[c]) >= 1 /\ Len(all[c]) <= MaxPrompt /\ Agree /\ kind[c] \in {"stream", "call"}
  BY <1>1, <1>2 DEF HolderInv
<1> HIDE DEF shared
<1>5. /\ kept \in Nat /\ kept <= Len(kv) /\ kept < Len(all[c])
      /\ kept <= shared /\ kept <= Len(lastPrompt)
  BY <1>2, <1>3, <1>4 DEF Lower
<1> HIDE DEF kept
<1>6. kv' = SubSeq(kv, 1, kept) /\ start' = [start EXCEPT ![c] = kept] /\ pc' = [pc EXCEPT ![c] = "prefill"]
  BY DEF Reuse, Goto, kept, shared
<1>7. kv' \in Seq(Tokens) /\ Len(kv') = kept /\ \A i \in 1 .. kept : kv'[i] = kv[i]
  BY <1>2, <1>5, <1>6
<1>8. Shares(kv', all[c], kept)
  <2>1. SUFFICES ASSUME NEW i \in 1 .. kept PROVE kv'[i] = all[c][i]
    BY DEF Shares
  <2>2. i \in 1 .. Lower(Len(kv), Len(lastPrompt)) /\ i \in 1 .. shared
    BY <1>2, <1>3, <1>5 DEF Lower
  <2>3. kv[i] = lastPrompt[i] /\ lastPrompt[i] = all[c][i]
    BY <2>2, <1>3, <1>4 DEF Shares, Agree
  <2> QED
    BY <1>7, <2>3
<1>9. /\ Moved(c) /\ start'[c] = kept /\ pc'[c] = "prefill" /\ all' = all /\ kind' = kind
      /\ mutex' = mutex /\ poisoned' = poisoned /\ lastPrompt' = lastPrompt
  BY <1>5, <1>6 DEF Reuse, Moved, IInv, Types, Steps
<1>10. Holds(all[c], start[c])'
  BY <1>5, <1>7, <1>8, <1>9 DEF Holds, Shares
<1>11. HolderInv(c)'
  BY <1>4, <1>5, <1>9, <1>10, SizeAssumption DEF HolderInv
<1> QED
  BY <1>2, <1>7, <1>9, <1>11, InsideKeepsInv DEF Holding

LEMMA ClearStep ==
    ASSUME IInv, NEW c \in Callers, Clear(c)
    PROVE  IInv'
<1>1. pc[c] \in Holding /\ pc[c] = "clear"
  BY DEF Clear, Holding
<1>2. /\ mutex = c /\ HolderInv(c) /\ all[c] \in Seq(Tokens) /\ start[c] = 0
  BY <1>1, HolderFacts DEF IInv
<1>3. Len(all[c]) >= 1 /\ Len(all[c]) <= MaxPrompt /\ kind[c] = "raw"
  BY <1>1, <1>2 DEF HolderInv
<1>4. kv' = <<>> /\ lastPrompt' = <<>> /\ kv' \in Seq(Tokens) /\ lastPrompt' \in Seq(Tokens) /\ Len(kv') = 0
  BY DEF Clear
<1>5. /\ Moved(c) /\ pc'[c] = "prefill" /\ all' = all /\ kind' = kind /\ start' = start
      /\ mutex' = mutex /\ poisoned' = poisoned
  BY DEF Clear, Goto, Moved, IInv, Types, Steps
<1>6. Holds(all[c], start[c])'
  BY <1>2, <1>3, <1>4, <1>5 DEF Holds, Shares
<1>7. HolderInv(c)'
  BY <1>2, <1>3, <1>4, <1>5, <1>6, SizeAssumption DEF HolderInv
<1> QED
  BY <1>2, <1>4, <1>5, <1>7, InsideKeepsInv DEF Holding

\* What the engine is run over next is what the cache lacks of the caller's tokens.
LEMMA ChunkIsTheRest ==
    ASSUME IInv, NEW c \in Callers, pc[c] \in {"prefill", "decode"}
    PROVE  /\ Chunk(c) \in Seq(Tokens) /\ Len(Chunk(c)) >= 1
           /\ Len(kv) + Len(Chunk(c)) = Len(all[c])
           /\ \A i \in 1 .. Len(Chunk(c)) : Chunk(c)[i] = all[c][Len(kv) + i]
           /\ Holds(all[c], Len(kv))
<1>1. /\ HolderInv(c) /\ all[c] \in Seq(Tokens) /\ start[c] \in Nat /\ kv \in Seq(Tokens)
  BY HolderFacts DEF Holding
<1>2. Len(all[c]) >= 1
  BY <1>1 DEF HolderInv
<1>3. CASE pc[c] = "prefill"
  <2>1. start[c] < Len(all[c]) /\ Len(kv) = start[c] /\ Holds(all[c], Len(kv))
    BY <1>1, <1>3 DEF HolderInv, Holds
  <2>2. Chunk(c) = SubSeq(all[c], start[c] + 1, Len(all[c]))
    <3>1. Len(all[c]) > 0
      BY <1>1, <1>2
    <3> QED
      BY <1>3, <3>1 DEF Chunk, Step0
  <2>3. /\ Chunk(c) \in Seq(Tokens) /\ Len(Chunk(c)) = Len(all[c]) - start[c]
        /\ \A i \in 1 .. Len(Chunk(c)) : Chunk(c)[i] = all[c][(start[c] + 1) + i - 1]
    <3> DEFINE s == all[c]
               b == start[c]
    <3>1. s \in Seq(Tokens) /\ b \in Nat /\ b < Len(s) /\ Chunk(c) = SubSeq(s, b + 1, Len(s))
      BY <1>1, <2>1, <2>2
    <3> HIDE DEF s, b
    <3>2. /\ SubSeq(s, b + 1, Len(s)) \in Seq(Tokens) /\ Len(SubSeq(s, b + 1, Len(s))) = Len(s) - b
          /\ \A i \in 1 .. Len(s) - b : SubSeq(s, b + 1, Len(s))[i] = s[(b + 1) + i - 1]
      BY ONLY <3>1
    <3>3. /\ Chunk(c) \in Seq(Tokens) /\ Len(Chunk(c)) = Len(s) - b
          /\ \A i \in 1 .. Len(Chunk(c)) : Chunk(c)[i] = s[(b + 1) + i - 1]
      BY ONLY <3>1, <3>2
    <3> QED
      BY <3>3 DEF s, b
  <2>4. ASSUME NEW i \in 1 .. Len(Chunk(c)) PROVE (start[c] + 1) + i - 1 = start[c] + i
    <3>1. i \in Int /\ start[c] \in Int
      BY <1>1
    <3> QED
      BY <3>1
  <2> QED
    BY <1>1, <1>2, <2>1, <2>3, <2>4
<1>4. CASE pc[c] = "decode"
  <2>1. Len(kv) = Len(all[c]) - 1 /\ Holds(all[c], Len(kv))
    BY <1>1, <1>4 DEF HolderInv, Holds
  <2>2. Chunk(c) = <<all[c][Len(all[c])]>>
    BY <1>4 DEF Chunk, Step0
  <2> QED
    BY <1>1, <1>2, <2>1, <2>2
<1> QED
  BY <1>3, <1>4

\* After n of them it holds n more.
LEMMA RunOver ==
    ASSUME IInv, NEW c \in Callers, pc[c] \in {"prefill", "decode"}, NEW n \in 0 .. Len(Chunk(c))
    PROVE  LET ran == kv \o SubSeq(Chunk(c), 1, n)
           IN  /\ ran \in Seq(Tokens) /\ Len(ran) = Len(kv) + n
               /\ Shares(ran, all[c], Len(kv) + n)
<1> DEFINE ran == kv \o SubSeq(Chunk(c), 1, n)
<1>1. /\ Chunk(c) \in Seq(Tokens) /\ Len(kv) + Len(Chunk(c)) = Len(all[c])
      /\ \A i \in 1 .. Len(Chunk(c)) : Chunk(c)[i] = all[c][Len(kv) + i]
      /\ Holds(all[c], Len(kv)) /\ kv \in Seq(Tokens)
  BY ChunkIsTheRest DEF IInv, Types
<1>2. /\ SubSeq(Chunk(c), 1, n) \in Seq(Tokens) /\ Len(SubSeq(Chunk(c), 1, n)) = n
      /\ \A i \in 1 .. n : SubSeq(Chunk(c), 1, n)[i] = Chunk(c)[i]
  BY <1>1
<1>3. /\ ran \in Seq(Tokens) /\ Len(ran) = Len(kv) + n
      /\ \A i \in 1 .. Len(kv) : ran[i] = kv[i]
      /\ \A i \in Len(kv) + 1 .. Len(kv) + n : ran[i] = SubSeq(Chunk(c), 1, n)[i - Len(kv)]
  BY <1>1, <1>2
<1>4. ASSUME NEW i \in 1 .. Len(kv) + n PROVE ran[i] = all[c][i]
  <2>1. CASE i \in 1 .. Len(kv)
    BY <1>1, <1>3, <2>1 DEF Holds, Shares
  <2>2. CASE i \in Len(kv) + 1 .. Len(kv) + n
    <3>1. i - Len(kv) \in 1 .. n /\ i - Len(kv) \in 1 .. Len(Chunk(c)) /\ Len(kv) + (i - Len(kv)) = i
      BY <1>1, <2>2
    <3> QED
      BY <1>1, <1>2, <1>3, <2>2, <3>1
  <2> QED
    BY <1>1, <2>1, <2>2
<1> QED
  BY <1>3, <1>4 DEF Shares

LEMMA ForwardStep ==
    ASSUME NoCallFails, IInv, NEW c \in Callers, Forward(c)
    PROVE  IInv'
<1>1. pc[c] \in {"prefill", "decode"} /\ pc[c] \in Holding
  BY DEF Forward, Holding
<1>2. /\ mutex = c /\ HolderInv(c) /\ all[c] \in Seq(Tokens) /\ kv \in Seq(Tokens)
      /\ Len(all[c]) >= 1 /\ Len(all[c]) <= MaxPrompt + MaxNew
      /\ kind[c] \in {"stream", "call", "raw"}
      /\ kind[c] = "raw" => lastPrompt = <<>>
  BY <1>1, HolderFacts DEF HolderInv
<1>3. /\ Chunk(c) \in Seq(Tokens) /\ Len(kv) + Len(Chunk(c)) = Len(all[c])
  BY <1>1, ChunkIsTheRest
<1> DEFINE ran == kv \o SubSeq(Chunk(c), 1, Len(Chunk(c)))
<1>4. ran \in Seq(Tokens) /\ Len(ran) = Len(all[c]) /\ Shares(ran, all[c], Len(all[c]))
  <2>1. Len(Chunk(c)) \in 0 .. Len(Chunk(c))
    BY <1>3
  <2> QED
    BY <1>1, <1>3, <2>1, RunOver
<1>5. SubSeq(Chunk(c), 1, Len(Chunk(c))) = Chunk(c)
  BY <1>3
<1>6. Len(ran) <= Window
  <2>1. CASE MaxPrompt + MaxNew <= Window
    BY <1>2, <1>4, <2>1, SizeAssumption
  <2>2. CASE ~Slides
    BY <1>3, <1>4, <2>2 DEF Forward
  <2> QED
    BY <2>1, <2>2 DEF NoCallFails
<1>11. kv' = ran
  <2>1. Len(kv \o Chunk(c)) <= Window
    BY <1>5, <1>6
  <2> QED
    BY <1>5, <2>1 DEF Forward, Slid
<1> HIDE DEF ran
<1>7. /\ Moved(c) /\ pc'[c] = "sample" /\ all' = all /\ kind' = kind
      /\ mutex' = mutex /\ poisoned' = poisoned /\ lastPrompt' = lastPrompt
  BY DEF Forward, Goto, Moved, IInv, Types, Steps
<1>8. Holds(all[c], Len(all[c]))'
  BY <1>2, <1>4, <1>11, <1>7 DEF Holds, Shares
<1>9. HolderInv(c)'
  BY <1>2, <1>6, <1>7, <1>8, <1>11 DEF HolderInv
<1>10. kv' \in Seq(Tokens) /\ lastPrompt' \in Seq(Tokens)
  BY <1>4, <1>11, <1>7 DEF IInv, Types
<1> QED
  BY <1>2, <1>7, <1>9, <1>10, InsideKeepsInv DEF Holding

\* A holder that has failed leaves a cache its own tokens describe; a stream records them, a raw
\* generation left nothing recorded.
LEMMA FailedStep ==
    ASSUME IInv, NEW c \in Callers, pc[c] \in {"prefill", "decode", "sample"},
           kind[c] \in {"stream", "raw"},
           Goto(c, IF kind[c] = "stream" THEN "record" ELSE "unlock"),
           UNCHANGED <<mutex, poisoned, lastPrompt, kind, all, start>>,
           kv' \in Seq(Tokens), Len(kv') <= Len(all[c]), Shares(kv', all[c], Len(kv'))
    PROVE  IInv'
<1>1. pc[c] \in Holding
  BY DEF Holding
<1>2. /\ mutex = c /\ HolderInv(c) /\ lastPrompt \in Seq(Tokens)
      /\ Len(all[c]) >= 1 /\ Len(all[c]) <= MaxPrompt + MaxNew
      /\ kind[c] = "raw" => lastPrompt = <<>>
  BY <1>1, HolderFacts DEF HolderInv
<1>3. Moved(c) /\ pc'[c] = IF kind[c] = "stream" THEN "record" ELSE "unlock"
  BY DEF Goto, Moved, IInv, Types, Steps
<1>4. kind[c] = "stream" => Holds(all[c], Len(kv))'
  BY DEF Holds, Shares
<1>5. kind[c] = "raw" => Agree'
  <2>1. SUFFICES ASSUME kind[c] = "raw" PROVE Agree'
    OBVIOUS
  <2>2. Lower(Len(kv'), Len(lastPrompt')) = 0
    BY <1>2, <2>1 DEF Lower
  <2> QED
    BY <2>2 DEF Agree, Shares
<1>6. HolderInv(c)'
  BY <1>2, <1>3, <1>4, <1>5 DEF HolderInv
<1> QED
  BY <1>2, <1>3, <1>6, InsideKeepsInv DEF Holding

LEMMA ForwardFailsStep ==
    ASSUME NoCallFails, IInv, NEW c \in Callers, ForwardFails(c)
    PROVE  IInv'
<1>1. pc[c] \in {"prefill", "decode"} /\ pc[c] \in Holding
  BY DEF ForwardFails, Holding
<1>2. /\ all[c] \in Seq(Tokens) /\ kv \in Seq(Tokens) /\ Len(all[c]) <= MaxPrompt + MaxNew
      /\ kind[c] \in {"stream", "call", "raw"}
  BY <1>1, HolderFacts DEF HolderInv
<1>3. /\ Chunk(c) \in Seq(Tokens) /\ Len(kv) + Len(Chunk(c)) = Len(all[c])
  BY <1>1, ChunkIsTheRest
<1>4. kind[c] \in {"stream", "raw"}
  <2>1. CASE MaxPrompt + MaxNew <= Window
    <3>1. Len(all[c]) <= Window
      BY <1>2, <2>1, SizeAssumption
    <3>2. Len(Chunk(c)) <= Window /\ Len(kv) + Len(Chunk(c)) <= Window
      BY <1>2, <1>3, <3>1, SizeAssumption
    <3> QED
      BY <1>2, <3>2, SizeAssumption DEF ForwardFails, NoCallFails
  <2>2. CASE "call" \notin Kinds
    BY <1>2, <2>2 DEF IInv, Types
  <2> QED
    BY <2>1, <2>2 DEF NoCallFails
<1>5. PICK n \in 0 .. Len(Chunk(c)) : kv' = kv \o SubSeq(Chunk(c), 1, n)
  BY DEF ForwardFails
<1>6. kv' \in Seq(Tokens) /\ Len(kv') = Len(kv) + n /\ Shares(kv', all[c], Len(kv) + n)
  BY <1>1, <1>5, RunOver
<1>7. Len(kv') <= Len(all[c])
  BY <1>2, <1>3, <1>6
<1>8. Goto(c, IF kind[c] = "stream" THEN "record" ELSE "unlock")
  BY DEF ForwardFails
<1>9. UNCHANGED <<mutex, poisoned, lastPrompt, kind, all, start>>
  BY DEF ForwardFails
<1>10. Shares(kv', all[c], Len(kv'))
  BY <1>6
<1> QED
  BY <1>1, <1>4, <1>6, <1>7, <1>8, <1>9, <1>10, FailedStep

LEMMA SampleFailsStep ==
    ASSUME NoCallFails, IInv, NEW c \in Callers, SampleFails(c)
    PROVE  IInv'
<1>1. pc[c] = "sample" /\ pc[c] \in Holding
  BY DEF SampleFails, Holding
<1>2. /\ all[c] \in Seq(Tokens) /\ kv \in Seq(Tokens) /\ kind[c] \in {"stream", "call", "raw"}
      /\ Len(kv) = Len(all[c]) /\ Shares(kv, all[c], Len(kv))
  BY <1>1, HolderFacts DEF HolderInv, Holds
<1>3. kind[c] \in {"stream", "raw"}
  BY <1>2 DEF SampleFails, NoCallFails
<1>4. kv' = kv /\ Len(kv') <= Len(all[c]) /\ Shares(kv', all[c], Len(kv'))
  BY <1>2 DEF SampleFails, engine
<1>5. Goto(c, IF kind[c] = "stream" THEN "record" ELSE "unlock")
  BY DEF SampleFails
<1>6. UNCHANGED <<mutex, poisoned, lastPrompt, kind, all, start>>
  BY DEF SampleFails, engine
<1> QED
  BY <1>1, <1>2, <1>3, <1>4, <1>5, <1>6, FailedStep

LEMMA SampleStep ==
    ASSUME IInv, NEW c \in Callers, Sample(c)
    PROVE  IInv'
<1>1. pc[c] = "sample" /\ pc[c] \in Holding
  BY DEF Sample, Holding
<1>2. /\ mutex = c /\ HolderInv(c) /\ all[c] \in Seq(Tokens) /\ kv \in Seq(Tokens)
      /\ lastPrompt \in Seq(Tokens)
      /\ kind[c] \in {"stream", "call", "raw"}
      /\ kind[c] = "raw" => lastPrompt = <<>>
      /\ Len(kv) = Len(all[c]) /\ Shares(kv, all[c], Len(kv))
  BY <1>1, HolderFacts DEF HolderInv, Holds
<1>3. PICK t \in Tokens : all' = [all EXCEPT ![c] = Append(@, t)]
  BY DEF Sample
<1>4. /\ all'[c] \in Seq(Tokens) /\ Len(all'[c]) = Len(all[c]) + 1
      /\ \A i \in 1 .. Len(all[c]) : all'[c][i] = all[c][i]
  BY <1>2, <1>3 DEF IInv, Types
<1>5. Len(all'[c]) >= 1 /\ Len(all'[c]) <= MaxPrompt + MaxNew
  BY <1>2, <1>4, SizeAssumption DEF Sample
<1>6. /\ kv' = kv /\ lastPrompt' = lastPrompt /\ kind' = kind /\ start' = start
      /\ mutex' = mutex /\ poisoned' = poisoned
  BY DEF Sample, engine
<1>7. /\ Moved(c)
      /\ pc'[c] \in {"decode", "unlock", "record"}
      /\ pc'[c] = "record" => kind[c] # "raw"
      /\ pc'[c] = "unlock" => kind[c] = "raw"
  <2>1. pc'[c] \in {"decode", IF kind[c] = "raw" THEN "unlock" ELSE "record"}
    BY DEF Sample, Goto, IInv, Types
  <2>2. pc' = [pc EXCEPT ![c] = pc'[c]]
    BY DEF Sample, Goto, IInv, Types
  <2> QED
    BY <1>3, <1>4, <1>6, <2>1, <2>2 DEF Moved, IInv, Types, Steps
<1>8. Shares(kv', all'[c], Len(kv')) /\ Len(kv') = Len(all'[c]) - 1
  BY <1>2, <1>4, <1>6 DEF Shares
<1>9. Holds(all[c], Len(all[c]) - 1)' /\ Holds(all[c], Len(kv))'
  BY <1>4, <1>5, <1>8 DEF Holds, Shares
<1>10. kind[c] = "raw" => Agree'
  <2>1. SUFFICES ASSUME kind[c] = "raw" PROVE Agree'
    OBVIOUS
  <2>2. Lower(Len(kv'), Len(lastPrompt')) = 0
    BY <1>2, <1>6, <2>1 DEF Lower
  <2> QED
    BY <2>2 DEF Agree, Shares
<1>11. HolderInv(c)'
  BY <1>2, <1>5, <1>6, <1>7, <1>9, <1>10 DEF HolderInv
<1> QED
  BY <1>2, <1>6, <1>7, <1>11, InsideKeepsInv DEF Holding

LEMMA RecordStep ==
    ASSUME IInv, NEW c \in Callers, Record(c)
    PROVE  IInv'
<1>1. pc[c] = "record" /\ pc[c] \in Holding
  BY DEF Record, Holding
<1>2. /\ mutex = c /\ HolderInv(c) /\ all[c] \in Seq(Tokens) /\ kv \in Seq(Tokens)
      /\ kind[c] \in {"stream", "call"} /\ Len(all[c]) >= 1 /\ Len(all[c]) <= MaxPrompt + MaxNew
      /\ Len(kv) <= Len(all[c]) /\ Shares(kv, all[c], Len(kv))
  BY <1>1, HolderFacts DEF HolderInv, Holds
<1>3. /\ kv' = kv /\ lastPrompt' = all[c] /\ kind' = kind /\ start' = start /\ all' = all
      /\ mutex' = mutex /\ poisoned' = poisoned /\ Moved(c) /\ pc'[c] = "unlock"
  BY DEF Record, engine, Goto, Moved, IInv, Types, Steps
<1>4. Agree'
  BY <1>2, <1>3 DEF Agree, Shares, Lower
<1>5. HolderInv(c)'
  BY <1>2, <1>3, <1>4 DEF HolderInv
<1> QED
  BY <1>2, <1>3, <1>5, InsideKeepsInv DEF Holding

LEMMA ReleaseSteps ==
    ASSUME IInv, NEW c \in Callers, Unlock(c) \/ Panic(c) \/ ResetEngine(c)
    PROVE  IInv'
<1>1. pc[c] \in Holding
  BY DEF Unlock, Panic, ResetEngine, Holding
<1>2. mutex = c /\ ~poisoned /\ HolderInv(c) /\ kv \in Seq(Tokens) /\ lastPrompt \in Seq(Tokens)
  BY <1>1, HolderFacts
<1>3. CASE Unlock(c)
  <2>1. Agree'
    BY <1>2, <1>3 DEF Unlock, HolderInv, Agree
  <2>2. poisoned' \in BOOLEAN
    <3>1. poisoned' = FALSE
      BY <1>2, <1>3 DEF Unlock
    <3> QED
      BY <3>1
  <2> QED
    BY <1>2, <1>3, <2>1, <2>2, ReturnMoves, ReleaseKeepsInv DEF Unlock
<1>4. CASE Panic(c)
  <2>1. poisoned' = TRUE /\ poisoned' \in BOOLEAN
    BY <1>4 DEF Panic
  <2> QED
    BY <1>2, <1>4, <2>1, ReturnMoves, ReleaseKeepsInv DEF Panic
<1>5. CASE ResetEngine(c)
  <2>1. kv' = <<>> /\ lastPrompt' = lastPrompt /\ mutex' = NoCaller /\ kv' \in Seq(Tokens)
    BY <1>5 DEF ResetEngine
  <2>2. poisoned' \in BOOLEAN
    <3>1. poisoned' = FALSE
      BY <1>2, <1>5 DEF ResetEngine
    <3> QED
      BY <3>1
  <2>3. Agree'
    <3>1. Lower(Len(kv'), Len(lastPrompt')) = 0
      BY <1>2, <2>1 DEF Lower
    <3> QED
      BY <3>1 DEF Agree, Shares
  <2>4. Moved(c) /\ pc'[c] \in {"idle", "forget"} /\ start'[c] = 0
    <3>1. CASE Return(c)
      BY <3>1, ReturnMoves
    <3>2. CASE Goto(c, "forget") /\ UNCHANGED <<kind, all, start>>
      <4>1. start[c] = 0
        BY <1>5 DEF ResetEngine, IInv
      <4> QED
        BY <3>2, <4>1 DEF Goto, Moved, IInv, Types, Steps
    <3> QED
      BY <1>5, <3>1, <3>2 DEF ResetEngine
  <2> QED
    BY <1>2, <2>1, <2>2, <2>3, <2>4, ReleaseKeepsInv
<1> QED
  BY <1>3, <1>4, <1>5

-----------------------------------------------------------------------------
(* The theorem                                                             *)

LEMMA InvNext == NoCallFails /\ IInv /\ [Next]_vars => IInv'
<1> SUFFICES ASSUME NoCallFails, IInv, [Next]_vars PROVE IInv'
  OBVIOUS
<1>1. CASE UNCHANGED vars
  BY <1>1 DEF vars, IInv, Types, HolderInv, Holds, Agree
<1> QED
  BY <1>1, OutsideSteps, LockStep, ReuseStep, ClearStep, ForwardStep, ForwardFailsStep, SampleFailsStep,
     SampleStep, RecordStep, ReleaseSteps DEF Next

LEMMA InvIsEnough == ASSUME NoCallFails, IInv PROVE CacheIsRecorded /\ ReuseIsSafe
<1>1. CacheIsRecorded
  BY DEF IInv, CacheIsRecorded, Agree
<1>2. ReuseIsInvisible
  <2>1. SUFFICES ASSUME NEW c \in Callers, pc[c] = "sample" PROVE kv = Slid(all[c])
    BY DEF ReuseIsInvisible
  <2>2. /\ kv \in Seq(Tokens) /\ all[c] \in Seq(Tokens) /\ Len(kv) = Len(all[c])
        /\ \A i \in 1 .. Len(kv) : kv[i] = all[c][i]
        /\ Len(kv) <= Window
    BY <2>1, HolderFacts DEF Holding, HolderInv, Holds, Shares
  <2>3. kv = all[c]
    BY <2>2
  <2> QED
    BY <2>2, <2>3 DEF Slid
<1>3. NeverEmptyChunk
  BY ChunkIsTheRest DEF NeverEmptyChunk
<1> QED
  BY <1>1, <1>2, <1>3 DEF ReuseIsSafe

LEMMA RecordedAndReused == ASSUME NoCallFails PROVE Spec => [](CacheIsRecorded /\ ReuseIsSafe)
<1>1. IInv => CacheIsRecorded /\ ReuseIsSafe
  BY InvIsEnough
<1>2. IInv /\ [Next]_vars => IInv'
  BY InvNext
<1> QED
  BY InvInit, <1>1, <1>2, PTL DEF Spec

\* Between calls last_prompt describes the KV cache: for every number of callers, every vocabulary
\* and whatever calls they make, panics included, as long as no call fails half-way that records
\* nothing.
THEOREM CacheStaysRecorded == ASSUME NoCallFails PROVE Spec => []CacheIsRecorded
  BY RecordedAndReused, PTL

\* Prefix reuse is invisible: under the same hypothesis, every token is sampled from exactly the
\* tokens of its own call, and the engine is never run on nothing.
THEOREM ReuseSafe == ASSUME NoCallFails PROVE Spec => []ReuseIsSafe
  BY RecordedAndReused, PTL

-----------------------------------------------------------------------------
(* The forward engines: ForwardEngines implements KvCache.                 *)

-----------------------------------------------------------------------------
(* Sequences of rows and keys, whose elements are in no set known          *)
(* beforehand.                                                             *)

\* s is a sequence of n things.
IsList(s, n) == n \in Nat /\ s = [i \in 1 .. n |-> s[i]]

Elements(s, n) == {s[i] : i \in 1 .. n}

\* A list is a sequence of its elements.
LEMMA ListIsSeq ==
    ASSUME NEW s, NEW n, IsList(s, n)
    PROVE  s \in Seq(Elements(s, n)) /\ Len(s) = n /\ DOMAIN s = 1 .. n
<1>1. n \in Nat /\ s = [i \in 1 .. n |-> s[i]]
  BY DEF IsList
<1>2. \A i \in 1 .. n : s[i] \in Elements(s, n)
  BY DEF Elements
<1>3. s \in [1 .. n -> Elements(s, n)]
  BY <1>1, <1>2
<1>4. s \in Seq(Elements(s, n))
  BY <1>1, <1>3, SeqDef
<1> QED
  BY <1>1, <1>4

\* Lists of one length with the same elements are the same.
LEMMA ListsEqual ==
    ASSUME NEW s, NEW t, NEW n, IsList(s, n), IsList(t, n), \A i \in 1 .. n : s[i] = t[i]
    PROVE  s = t
  BY DEF IsList

\* The m elements of t after the n of s.
AsJoined(u, s, n, t, m) ==
    /\ IsList(u, n + m)
    /\ \A i \in 1 .. n : u[i] = s[i]
    /\ \A i \in 1 .. m : u[n + i] = t[i]

\* Joining two lists.
LEMMA Joined ==
    ASSUME NEW s, NEW t, NEW n \in Nat, NEW m \in Nat, IsList(s, n), IsList(t, m)
    PROVE  AsJoined(s \o t, s, n, t, m)
<1> DEFINE S == Elements(s, n) \cup Elements(t, m)
<1>1. n \in Nat /\ m \in Nat /\ Len(s) = n /\ Len(t) = m
  BY ListIsSeq DEF IsList
<1>2. s \in Seq(S) /\ t \in Seq(S)
  BY ListIsSeq
<1> HIDE DEF S
<1>3. s \o t \in Seq(S) /\ Len(s \o t) = n + m
  BY <1>1, <1>2
<1>4. s \o t \in [1 .. n + m -> S]
  BY <1>1, <1>3, LenProperties
<1>5. \A i \in 1 .. n : (s \o t)[i] = s[i]
  BY <1>1, <1>2
<1>6. \A i \in 1 .. m : (s \o t)[n + i] = t[i]
  BY <1>1, <1>2
<1>7. s \o t = [i \in 1 .. n + m |-> (s \o t)[i]]
  BY <1>1, <1>3, <1>4
<1> QED
  BY <1>1, <1>5, <1>6, <1>7 DEF IsList, AsJoined

\* A part of a sequence is a list.
LEMMA PartOf ==
    ASSUME NEW s, NEW a \in Int, NEW b \in Int, b >= a - 1
    PROVE  /\ IsList(SubSeq(s, a, b), b - a + 1)
           /\ \A i \in 1 .. b - a + 1 : SubSeq(s, a, b)[i] = s[a + i - 1]
<1>1. SubSeq(s, a, b) = [i \in 1 .. (b - a + 1) |-> s[a + i - 1]]
  OBVIOUS
<1> QED
  BY <1>1 DEF IsList

\* Induction over the layers.
LEMMA FromLayerToLayer ==
    ASSUME NEW n \in Nat, NEW P, 0 \in P, \A l \in 1 .. n : l - 1 \in P => l \in P
    PROVE  0 .. n \subseteq P
<1> DEFINE Bad == (0 .. n) \ P
<1>1. ASSUME Bad # {} PROVE FALSE
  <2> Bad \subseteq Nat
    OBVIOUS
  <2>1. PICK l \in Bad : \A k \in Bad : l <= k
    BY <1>1, LeastOf
  <2>2. l - 1 \in P /\ l \in 1 .. n
    BY <2>1
  <2> QED
    BY <2>1, <2>2
<1> QED
  BY <1>1

-----------------------------------------------------------------------------
(* What a query sees.                                                      *)

\* The least element is the minimum.
LEMMA MinOf ==
    ASSUME NEW V, NEW m \in V, V \subseteq Int, \A k \in V : m <= k
    PROVE  Min(V) = m
<1>1. Min(V) = CHOOSE x \in V : \A y \in V : x <= y
  BY DEF Min
<1>2. Min(V) \in V /\ \A k \in V : Min(V) <= k
  BY <1>1
<1>3. Min(V) \in Int /\ m \in Int /\ Min(V) <= m /\ m <= Min(V)
  BY <1>2
<1> QED
  BY <1>3

\* The smaller and the larger of two numbers.
LEMMA MinAndMax ==
    ASSUME NEW i \in Int, NEW j \in Int
    PROVE  Min({i, j}) = (IF i <= j THEN i ELSE j) /\ Max({i, j}) = (IF i <= j THEN j ELSE i)
<1>1. Min({i, j}) \in {i, j} /\ Min({i, j}) <= i /\ Min({i, j}) <= j
  BY DEF Min
<1>2. Max({i, j}) \in {i, j} /\ Max({i, j}) >= i /\ Max({i, j}) >= j
  BY DEF Max
<1> QED
  BY <1>1, <1>2

\* The keys visible in an interval are visited in their order.
Above(visible, j) == {k \in visible : k > j}

IsNth(g, visible) ==
    g = [n \in 1 .. Cardinality(visible) |-> IF n = 1 THEN Min(visible) ELSE Min(Above(visible, g[n - 1]))]

\* The next element of an interval.
LEMMA MinAbove ==
    ASSUME NEW lo \in Int, NEW hi \in Int, NEW j \in Int, lo - 1 <= j, j < hi
    PROVE  Min(Above(lo .. hi, j)) = j + 1
<1>1. j + 1 \in Above(lo .. hi, j) /\ Above(lo .. hi, j) \subseteq Int /\ \A k \in Above(lo .. hi, j) : j + 1 <= k
  BY DEF Above
<1> QED
  BY <1>1, MinOf

\* The first element of an interval.
LEMMA MinInterval ==
    ASSUME NEW lo \in Int, NEW hi \in Int, lo <= hi
    PROVE  Min(lo .. hi) = lo
<1>1. lo \in lo .. hi /\ lo .. hi \subseteq Int /\ \A k \in lo .. hi : lo <= k
  OBVIOUS
<1> QED
  BY <1>1, MinOf

\* The n-th visited key of an interval is its n-th element.
LEMMA NthOfInterval ==
    ASSUME NEW lo \in Nat, NEW hi \in Nat, lo <= hi
    PROVE  \A n \in 1 .. hi - lo + 1 : (CHOOSE g : IsNth(g, lo .. hi))[n] = lo + n - 1
<1> DEFINE C == hi - lo + 1
           f == [n \in 1 .. C |-> lo + n - 1]
           Next_(g, n) == IF n = 1 THEN Min(lo .. hi) ELSE Min(Above(lo .. hi, g[n - 1]))
<1>1. Cardinality(lo .. hi) = C /\ C \in Nat
  BY FS_Interval
<1>2. Min(lo .. hi) = lo
  BY MinInterval
<1>3. ASSUME NEW g, NEW n \in 1 .. C, n = 1 \/ g[n - 1] = lo + n - 2 PROVE Next_(g, n) = lo + n - 1
  <2>1. CASE n = 1
    BY <1>2, <2>1
  <2>2. CASE n # 1
    <3>1. Min(Above(lo .. hi, lo + n - 2)) = lo + n - 1
      BY <2>2, MinAbove
    <3>2. g[n - 1] = lo + n - 2
      BY <1>3, <2>2
    <3> QED
      BY <2>2, <3>1, <3>2
  <2> QED
    BY <2>1, <2>2
<1> HIDE DEF Next_
<1>4. IsNth(f, lo .. hi)
  <2>1. ASSUME NEW n \in 1 .. C PROVE f[n] = Next_(f, n)
    <3>1. n = 1 \/ f[n - 1] = lo + n - 2
      BY <1>1
    <3> QED
      BY <1>3, <3>1
  <2>2. f = [n \in 1 .. C |-> Next_(f, n)]
    BY <2>1
  <2> QED
    BY <1>1, <2>2 DEF IsNth, Next_
<1>5. ASSUME NEW g, IsNth(g, lo .. hi) PROVE \A n \in 1 .. C : g[n] = lo + n - 1
  <2> DEFINE P == {n \in 0 .. C : n = 0 \/ g[n] = lo + n - 1}
  <2>1. g = [n \in 1 .. C |-> Next_(g, n)]
    BY <1>1, <1>5 DEF IsNth, Next_
  <2>2. \A n \in 1 .. C : g[n] = Next_(g, n)
    BY <2>1
  <2>3. ASSUME NEW n \in 1 .. C, n - 1 \in P PROVE n \in P
    <3>1. n = 1 \/ g[n - 1] = lo + n - 2
      BY <1>1, <2>3
    <3>2. g[n] = lo + n - 1
      BY <1>3, <2>2, <3>1
    <3> QED
      BY <1>1, <3>2
  <2>4. 0 \in P
    BY <1>1
  <2> HIDE DEF P
  <2>5. 0 .. C \subseteq P
    BY <1>1, <2>3, <2>4, FromLayerToLayer
  <2> QED
    BY <1>1, <2>5 DEF P
<1> HIDE DEF f
<1> QED
  BY <1>4, <1>5

FromTo(keys, lo, hi) == [k \in 1 .. hi - lo + 1 |-> keys[lo + k]]

\* A query that sees an interval of keys visits them in order.
LEMMA VisitsInterval ==
    ASSUME NEW lo \in Nat, NEW hi \in Nat, lo <= hi, NEW keys
    PROVE  Visited(keys, lo .. hi) = FromTo(keys, lo, hi)
<1> DEFINE C == hi - lo + 1
<1>1. Cardinality(lo .. hi) = C /\ C \in Nat
  BY FS_Interval
<1>2. Visited(keys, lo .. hi) = [n \in 1 .. Cardinality(lo .. hi) |-> keys[(CHOOSE g : IsNth(g, lo .. hi))[n] + 1]]
  BY DEF Visited, IsNth, Above
<1>3. \A n \in 1 .. C : (CHOOSE g : IsNth(g, lo .. hi))[n] + 1 = lo + n
  BY <1>1, NthOfInterval
<1> QED
  BY <1>1, <1>2, <1>3 DEF FromTo
-----------------------------------------------------------------------------
(* The rows of a forward pass over a whole sequence of tokens, layer by    *)
(* layer, as the abstract specification has them.                          *)

\* The first position that position i sees in layer l, if the layers S are sliding.
FirstSeen(S, l, i) == IF l \in S /\ i > WINDOW THEN i - WINDOW + 1 ELSE 1

RowAfter(S, x, l, i) ==
    [res |-> x[i],
     saw |-> [k \in 1 .. i - FirstSeen(S, l, i) + 1 |->
                <<i - (FirstSeen(S, l, i) + k - 1), x[FirstSeen(S, l, i) + k - 1]>>]]

AreRows(row, S, toks) ==
    row = [l \in 0 .. LAYERS |-> IF l = 0 THEN toks
                                 ELSE [i \in DOMAIN toks |-> RowAfter(S, row[l - 1], l, i)]]

RowsOver(S, toks) == CHOOSE row : AreRows(row, S, toks)

\* The rows of a forward pass exist.
LEMMA RowsExist ==
    ASSUME NEW S, NEW toks
    PROVE  AreRows(RowsOver(S, toks), S, toks)
<1> DEFINE After(x, l) == IF l = 0 THEN toks ELSE [i \in DOMAIN toks |-> RowAfter(S, x[l - 1], l, i)]
<1>1. LAYERS \in Nat
  BY EngineAssumption
<1>a. \A x : After(x, 0) = toks
  OBVIOUS
<1>b. \A x, y, l : x[l - 1] = y[l - 1] => After(x, l) = After(y, l)
  OBVIOUS
<1> HIDE DEF After
<1> DEFINE P == {n \in 0 .. LAYERS : \E g : g = [l \in 0 .. n |-> After(g, l)]}
<1>2. 0 \in P
  <2> DEFINE g == [l \in 0 .. 0 |-> toks]
  <2>1. g = [l \in 0 .. 0 |-> After(g, l)]
    BY <1>a
  <2> QED
    BY <1>1, <2>1
<1>3. ASSUME NEW n \in 1 .. LAYERS, n - 1 \in P PROVE n \in P
  <2>1. PICK g : g = [l \in 0 .. n - 1 |-> After(g, l)]
    BY <1>3
  <2> DEFINE h == [l \in 0 .. n |-> IF l = n THEN After(g, n) ELSE g[l]]
  <2>2. ASSUME NEW l \in 0 .. n PROVE After(h, l) = After(g, l)
    BY <1>1, <1>a, <1>b
  <2>3. ASSUME NEW l \in 0 .. n PROVE h[l] = After(h, l)
    <3>1. CASE l = n
      BY <2>2, <3>1
    <3>2. CASE l # n
      <4>1. l \in 0 .. n - 1
        BY <1>1, <3>2
      <4>2. g[l] = After(g, l)
        BY <2>1, <4>1
      <4>3. h[l] = g[l]
        BY <3>2
      <4> QED
        BY <2>2, <4>2, <4>3
    <3> QED
      BY <3>1, <3>2
  <2>4. h = [l \in 0 .. n |-> After(h, l)]
    BY <2>3
  <2> HIDE DEF h
  <2> QED
    BY <1>1, <2>4
<1> HIDE DEF P
<1>4. LAYERS \in P
  BY <1>1, <1>2, <1>3, FromLayerToLayer
<1>5. \E g : AreRows(g, S, toks)
  BY <1>4 DEF P, AreRows, After
<1> QED
  BY <1>5 DEF RowsOver

\* The rows of every layer, from those of the layer below.
LEMMA RowsOf ==
    ASSUME NEW S, NEW toks
    PROVE  /\ RowsOver(S, toks)[0] = toks
           /\ \A l \in Layer : RowsOver(S, toks)[l] = [i \in DOMAIN toks |-> RowAfter(S, RowsOver(S, toks)[l - 1], l, i)]
<1> DEFINE row == RowsOver(S, toks)
<1>1. row = [l \in 0 .. LAYERS |-> IF l = 0 THEN toks ELSE [i \in DOMAIN toks |-> RowAfter(S, row[l - 1], l, i)]]
  BY RowsExist DEF AreRows
<1> HIDE DEF row
<1>2. 0 \in 0 .. LAYERS /\ \A l \in Layer : l \in 0 .. LAYERS /\ l # 0
  BY EngineAssumption DEF Layer
<1>3. row[0] = toks /\ \A l \in Layer : row[l] = [i \in DOMAIN toks |-> RowAfter(S, row[l - 1], l, i)]
  BY <1>1, <1>2
<1> QED
  BY <1>3 DEF row

\* One row of them.
LEMMA RowOfRows ==
    ASSUME NEW S, NEW toks, NEW l \in Layer, NEW i \in DOMAIN toks
    PROVE  RowsOver(S, toks)[l][i] = RowAfter(S, RowsOver(S, toks)[l - 1], l, i)
<1>1. RowsOver(S, toks)[l] = [j \in DOMAIN toks |-> RowAfter(S, RowsOver(S, toks)[l - 1], l, j)]
  BY RowsOf
<1> HIDE DEF RowsOver
<1> QED
  BY <1>1

\* A query sees at least its own position.
LEMMA FirstIsSeen == \A S, l : \A i \in Nat \ {0} : FirstSeen(S, l, i) \in 1 .. i
  BY EngineAssumption DEF FirstSeen

\* A row depends only on the rows up to its own.
LEMMA SameRowAfter ==
    ASSUME NEW S, NEW l, NEW i \in Nat \ {0}, NEW x, NEW y, \A k \in 1 .. i : x[k] = y[k]
    PROVE  RowAfter(S, x, l, i) = RowAfter(S, y, l, i)
<1> DEFINE lo == FirstSeen(S, l, i)
           Saw(z) == [k \in 1 .. i - lo + 1 |-> <<i - (lo + k - 1), z[lo + k - 1]>>]
<1>1. lo \in 1 .. i
  BY FirstIsSeen
<1> HIDE DEF lo
<1>2. \A k \in 1 .. i - lo + 1 : lo + k - 1 \in 1 .. i
  BY <1>1
<1>3. \A k \in 1 .. i - lo + 1 : x[lo + k - 1] = y[lo + k - 1]
  BY <1>2
<1>4. Saw(x) = Saw(y)
  BY <1>3
<1>5. x[i] = y[i]
  OBVIOUS
<1>6. \A z : RowAfter(S, z, l, i) = [res |-> z[i], saw |-> Saw(z)]
  BY DEF RowAfter, lo
<1> HIDE DEF Saw
<1> QED
  BY <1>4, <1>5, <1>6

\* A token does not see the ones after it.
LEMMA RowsOfPrefix ==
    ASSUME NEW S, NEW s, NEW t, NEW n \in Nat, NEW m \in Nat, n <= m, IsList(s, n), IsList(t, m), \A i \in 1 .. n : s[i] = t[i]
    PROVE  \A l \in 0 .. LAYERS, i \in 1 .. n : RowsOver(S, s)[l][i] = RowsOver(S, t)[l][i]
<1> DEFINE R == RowsOver(S, s)
           Q == RowsOver(S, t)
           P == {l \in 0 .. LAYERS : \A i \in 1 .. n : R[l][i] = Q[l][i]}
<1>1. LAYERS \in Nat /\ WINDOW \in Nat \ {0} /\ n \in Nat /\ m \in Nat /\ DOMAIN s = 1 .. n /\ DOMAIN t = 1 .. m
  BY EngineAssumption, ListIsSeq DEF IsList
<1>2. R[0] = s /\ Q[0] = t
  BY RowsOf
<1>3. ASSUME NEW l \in Layer
      PROVE  /\ \A i \in 1 .. n : R[l][i] = RowAfter(S, R[l - 1], l, i)
             /\ \A i \in 1 .. n : Q[l][i] = RowAfter(S, Q[l - 1], l, i)
  <2>1. \A i \in 1 .. n : i \in 1 .. m
    BY <1>1
  <2>2. \A i \in DOMAIN s : R[l][i] = RowAfter(S, R[l - 1], l, i)
    BY RowOfRows
  <2>3. \A i \in DOMAIN t : Q[l][i] = RowAfter(S, Q[l - 1], l, i)
    BY RowOfRows
  <2> QED
    BY <1>1, <2>1, <2>2, <2>3
<1> HIDE DEF R, Q
<1>4. 0 \in P
  BY <1>1, <1>2
<1>5. ASSUME NEW l \in 1 .. LAYERS, l - 1 \in P PROVE l \in P
  <2>1. ASSUME NEW i \in 1 .. n PROVE RowAfter(S, R[l - 1], l, i) = RowAfter(S, Q[l - 1], l, i)
    <3>1. \A k \in 1 .. i : R[l - 1][k] = Q[l - 1][k]
      BY <1>1, <1>5
    <3>2. i \in Nat \ {0}
      BY <1>1
    <3> QED
      BY <3>1, <3>2, SameRowAfter
  <2>2. l \in Layer
    BY DEF Layer
  <2> QED
    BY <1>1, <1>3, <2>1, <2>2
<1> HIDE DEF P
<1>6. 0 .. LAYERS \subseteq P
  BY <1>1, <1>4, <1>5, FromLayerToLayer
<1> QED
  BY <1>6 DEF P, R, Q

\* The layers that slide, in the engine that was selected.
Sliding == IF engine_ = "gemma3" THEN {l \in Layer : l % PATTERN # 0} ELSE {}

\* OneShot of KvCache answers the rows of the last layer.
LEMMA OneShotOf == \A toks : Kv!OneShot(toks) = RowsOver(Sliding, toks)[LAYERS]
  BY DEF Kv!OneShot, Kv!Attended, RowsOver, AreRows, RowAfter, FirstSeen, Sliding
-----------------------------------------------------------------------------
(* One layer.                                                              *)

\* Rows x of positions n onwards, over keys of all rows r so far at their own positions.
RowsAfter(S, x, l, n, m) == [i \in 1 .. m |-> RowAfter(S, x, l, n + i)]

\* m rows after n others attend over the keys of all.
AttendsOver(S, l, n, m, r, x, positions, keys, mask) ==
    /\ IsList(x, m) /\ \A i \in 1 .. m : x[i] = r[n + i]
    /\ \A i \in 1 .. m : positions[i] = n + i - 1
    /\ \A i \in 1 .. n + m : keys[i].pos = i - 1 /\ keys[i].row = r[i]
    /\ \A i \in 1 .. m : mask[i - 1] = FirstSeen(S, l, n + i) - 1 .. n + i - 1

\* Rows that attend over the keys of all before them are those of one pass.
LEMMA AttendsInContext ==
    ASSUME NEW S, NEW l, NEW n \in Nat, NEW m \in Nat, NEW r,
           NEW x, NEW positions, NEW keys, NEW mask, AttendsOver(S, l, n, m, r, x, positions, keys, mask)
    PROVE  AttendTo(x, positions, keys, mask) = RowsAfter(S, r, l, n, m)
<1> USE DEF RowsAfter
<1>l. IsList(x, m)
  BY DEF AttendsOver
<1>x. \A i \in 1 .. m : x[i] = r[n + i]
  BY DEF AttendsOver
<1>p. \A i \in 1 .. m : positions[i] = n + i - 1
  BY DEF AttendsOver
<1>k. \A i \in 1 .. n + m : keys[i].pos = i - 1 /\ keys[i].row = r[i]
  BY DEF AttendsOver
<1>m. \A i \in 1 .. m : mask[i - 1] = FirstSeen(S, l, n + i) - 1 .. n + i - 1
  BY DEF AttendsOver
<1> DEFINE Seen_(i) == Visited(keys, mask[i - 1])
           Row(i) == [res |-> x[i], saw |-> [k \in DOMAIN Seen_(i) |-> <<positions[i] - Seen_(i)[k].pos, Seen_(i)[k].row>>]]
<1>1. DOMAIN x = 1 .. m
  BY <1>l, ListIsSeq
<1>2. AttendTo(x, positions, keys, mask) = [i \in 1 .. m |-> Row(i)]
  BY <1>1 DEF AttendTo
<1>3. ASSUME NEW i \in 1 .. m PROVE Row(i) = RowAfter(S, r, l, n + i)
  <2> DEFINE j == n + i
             lo == FirstSeen(S, l, j)
             C == j - lo + 1
             Saw == [k \in 1 .. C |-> <<j - (lo + k - 1), r[lo + k - 1]>>]
  <2>0. j = n + i /\ j \in Nat \ {0}
    OBVIOUS
  <2> HIDE DEF j
  <2>1. lo \in 1 .. n + i
    BY <2>0, FirstIsSeen
  <2>2. RowAfter(S, r, l, n + i) = [res |-> r[n + i], saw |-> Saw]
    BY <2>0 DEF RowAfter
  <2>a. mask[i - 1] = lo - 1 .. n + i - 1
    BY <1>m, <2>0
  <2> HIDE DEF lo
  <2>3. Seen_(i) = [k \in 1 .. C |-> keys[lo - 1 + k]]
    <3> DEFINE a == lo - 1
               b == j - 1
    <3>1. a \in Nat /\ b \in Nat /\ a <= b /\ b - a + 1 = C
      BY <2>0, <2>1
    <3>2. b = n + i - 1
      BY <2>0
    <3> HIDE DEF a, b, C
    <3>3. Visited(keys, a .. b) = FromTo(keys, a, b)
      BY <3>1, VisitsInterval
    <3>4. mask[i - 1] = a .. b
      BY <2>a, <3>2 DEF a
    <3>5. Seen_(i) = [k \in 1 .. C |-> keys[a + k]]
      BY <3>1, <3>3, <3>4 DEF FromTo
    <3> QED
      BY <3>5 DEF a
  <2>4. ASSUME NEW k \in 1 .. C
        PROVE  <<positions[i] - Seen_(i)[k].pos, Seen_(i)[k].row>> = <<j - (lo + k - 1), r[lo + k - 1]>>
    <3>1. lo - 1 + k \in 1 .. n + m /\ lo - 1 + k = lo + k - 1
      BY <2>0, <2>1
    <3>2. Seen_(i)[k] = keys[lo - 1 + k]
      BY <2>3
    <3> HIDE DEF Seen_
    <3>3. keys[lo - 1 + k].pos = lo - 1 + k - 1 /\ keys[lo - 1 + k].row = r[lo - 1 + k]
      BY <1>k, <2>0, <2>1, <3>1
    <3>4. Seen_(i)[k].pos = lo + k - 2 /\ Seen_(i)[k].row = r[lo + k - 1]
      BY <2>0, <2>1, <3>1, <3>2, <3>3
    <3>5. positions[i] = n + i - 1
      BY <1>p
    <3>6. positions[i] - Seen_(i)[k].pos = j - (lo + k - 1)
      BY <2>0, <2>1, <3>4, <3>5
    <3> HIDE DEF Seen_
    <3> QED
      BY <3>4, <3>6
  <2>5. DOMAIN Seen_(i) = 1 .. C
    BY <2>3
  <2> HIDE DEF Seen_
  <2>6. [k \in DOMAIN Seen_(i) |-> <<positions[i] - Seen_(i)[k].pos, Seen_(i)[k].row>>] = Saw
    BY <2>4, <2>5
  <2> QED
    BY <1>x, <2>2, <2>6
<1> HIDE DEF Row
<1> QED
  BY <1>2, <1>3

\* What the masks show: all rows so far, or a window of them.
LEMMA CausalMaskOf ==
    ASSUME NEW n \in Nat, NEW m \in Nat, NEW i \in 1 .. m
    PROVE  CausalMask(m, n + m)[i - 1] = 0 .. n + i - 1
<1>1. i - 1 \in 0 .. m - 1
  OBVIOUS
<1>2. CausalMask(m, n + m)[i - 1] = {ki \in 0 .. n + m - 1 : ~(ki > i - 1 + (n + m - m))}
  BY <1>1 DEF CausalMask
<1>3. \A ki \in Int : ki \in 0 .. n + m - 1 /\ ~(ki > i - 1 + (n + m - m)) <=> ki \in 0 .. n + i - 1
  OBVIOUS
<1>4. {ki \in 0 .. n + m - 1 : ~(ki > i - 1 + (n + m - m))} = 0 .. n + i - 1
  BY <1>3
<1> QED
  BY <1>2, <1>4

\* What the sliding mask shows of n + m keys to the i-th of m queries.
LEMMA SlidingMaskOf ==
    ASSUME NEW n \in Nat, NEW m \in Nat, NEW i \in 1 .. m, NEW S, NEW l \in S
    PROVE  SlidingCausalMask(m, n + m)[i - 1] = FirstSeen(S, l, n + i) - 1 .. n + i - 1
<1> DEFINE V == {ki \in 0 .. n + m - 1 : ki <= (n + m - m) + (i - 1) /\ ki + WINDOW > (n + m - m) + (i - 1)}
<1>1. i - 1 \in 0 .. m - 1
  OBVIOUS
<1>2. SlidingCausalMask(m, n + m)[i - 1] = V
  BY <1>1 DEF SlidingCausalMask
<1>3. \A ki \in Int : ki \in V <=> ki \in FirstSeen(S, l, n + i) - 1 .. n + i - 1
  BY EngineAssumption DEF FirstSeen
<1>4. FirstSeen(S, l, n + i) \in Int
  BY EngineAssumption DEF FirstSeen
<1>5. V = FirstSeen(S, l, n + i) - 1 .. n + i - 1
  BY <1>3, <1>4
<1> QED
  BY <1>2, <1>5
-----------------------------------------------------------------------------
(* The passes of the engines. Each is a recursive function on the layers,  *)
(* which is shown to exist before anything is shown of it.                 *)
IsLlama(at, c, first, useCache) == at = [l \in 0 .. LAYERS |-> IF l = 0 THEN [x |-> c] ELSE LlamaLayer(at[l - 1].x, slots[l], IF useCache THEN seqLen[l] ELSE 0, Positions(first, Len(c)), useCache)]

LEMMA LlamaExists ==
    ASSUME NEW c, NEW first, NEW useCache
    PROVE  \E at : IsLlama(at, c, first, useCache)
<1> DEFINE Step(v, l) == LlamaLayer(v.x, slots[l], IF useCache THEN seqLen[l] ELSE 0, Positions(first, Len(c)), useCache)
           Upto(g, n) == g = [l \in 0 .. n |-> g[l]] /\ g[0] = [x |-> c] /\ \A l \in 1 .. n : g[l] = Step(g[l - 1], l)
           P == {n \in 0 .. LAYERS : \E g : Upto(g, n)}
<1>1. LAYERS \in Nat
  BY EngineAssumption
<1> HIDE DEF Step
<1>2. 0 \in P
  <2>1. Upto([l \in 0 .. 0 |-> [x |-> c]], 0)
    OBVIOUS
  <2> HIDE DEF Upto
  <2> QED
    BY <1>1, <2>1
<1>3. ASSUME NEW n \in 1 .. LAYERS, n - 1 \in P PROVE n \in P
  <2>1. PICK g : Upto(g, n - 1)
    BY <1>3
  <2> DEFINE h == [l \in 0 .. n |-> IF l = n THEN Step(g[n - 1], n) ELSE g[l]]
  <2>2. h = [l \in 0 .. n |-> h[l]] /\ h[0] = [x |-> c]
    BY <1>1, <2>1
  <2>3. ASSUME NEW l \in 1 .. n PROVE h[l] = Step(h[l - 1], l)
    <3>1. h[l - 1] = g[l - 1] /\ h[l] = IF l = n THEN Step(g[n - 1], n) ELSE g[l]
      BY <1>1
    <3>2. l # n => l \in 1 .. n - 1
      BY <1>1
    <3>3. \A k \in 1 .. n - 1 : g[k] = Step(g[k - 1], k)
      BY <2>1
    <3> QED
      BY <3>1, <3>2, <3>3
  <2>4. Upto(h, n)
    BY <2>2, <2>3
  <2> HIDE DEF Upto
  <2> QED
    BY <1>1, <2>4
<1> HIDE DEF P
<1>4. LAYERS \in P
  BY <1>1, <1>2, <1>3, FromLayerToLayer
<1>5. PICK g : Upto(g, LAYERS)
  BY <1>4 DEF P
<1>6. g = [l \in 0 .. LAYERS |-> IF l = 0 THEN [x |-> c] ELSE Step(g[l - 1], l)]
  <2>1. ASSUME NEW l \in 0 .. LAYERS PROVE g[l] = IF l = 0 THEN [x |-> c] ELSE Step(g[l - 1], l)
    <3>1. CASE l = 0
      BY <1>5, <3>1
    <3>2. CASE l # 0
      <4>1. l \in 1 .. LAYERS
        BY <1>1, <3>2
      <4>2. g[l] = Step(g[l - 1], l)
        BY <1>5, <4>1
      <4> QED
        BY <3>2, <4>2
    <3> QED
      BY <3>1, <3>2
  <2> QED
    BY <1>5, <2>1
<1> QED
  BY <1>6 DEF IsLlama, Step

GemmaKeys(x, drop, positions, l) == (IF drop THEN <<>> ELSE slots[l]) \o Keys(x, positions)

GemmaLayer(x, drop, positions, l) ==
    IF l % PATTERN = 0 THEN Attend(x, positions, GemmaKeys(x, drop, positions, l))
    ELSE AttendTo(x, positions, GemmaKeys(x, drop, positions, l),
                  SlidingCausalMask(Len(x), Len(GemmaKeys(x, drop, positions, l))))
IsGemma(at, c, drop, positions) == at = [l \in 0 .. LAYERS |-> IF l = 0 THEN c ELSE GemmaLayer(at[l - 1], drop, positions, l)]

LEMMA GemmaExists ==
    ASSUME NEW c, NEW drop, NEW positions
    PROVE  \E at : IsGemma(at, c, drop, positions)
<1> DEFINE Step(v, l) == GemmaLayer(v, drop, positions, l)
           Upto(g, n) == g = [l \in 0 .. n |-> g[l]] /\ g[0] = c /\ \A l \in 1 .. n : g[l] = Step(g[l - 1], l)
           P == {n \in 0 .. LAYERS : \E g : Upto(g, n)}
<1>1. LAYERS \in Nat
  BY EngineAssumption
<1> HIDE DEF Step
<1>2. 0 \in P
  <2>1. Upto([l \in 0 .. 0 |-> c], 0)
    OBVIOUS
  <2> HIDE DEF Upto
  <2> QED
    BY <1>1, <2>1
<1>3. ASSUME NEW n \in 1 .. LAYERS, n - 1 \in P PROVE n \in P
  <2>1. PICK g : Upto(g, n - 1)
    BY <1>3
  <2> DEFINE h == [l \in 0 .. n |-> IF l = n THEN Step(g[n - 1], n) ELSE g[l]]
  <2>2. h = [l \in 0 .. n |-> h[l]] /\ h[0] = c
    BY <1>1, <2>1
  <2>3. ASSUME NEW l \in 1 .. n PROVE h[l] = Step(h[l - 1], l)
    <3>1. h[l - 1] = g[l - 1] /\ h[l] = IF l = n THEN Step(g[n - 1], n) ELSE g[l]
      BY <1>1
    <3>2. l # n => l \in 1 .. n - 1
      BY <1>1
    <3>3. \A k \in 1 .. n - 1 : g[k] = Step(g[k - 1], k)
      BY <2>1
    <3> QED
      BY <3>1, <3>2, <3>3
  <2>4. Upto(h, n)
    BY <2>2, <2>3
  <2> HIDE DEF Upto
  <2> QED
    BY <1>1, <2>4
<1> HIDE DEF P
<1>4. LAYERS \in P
  BY <1>1, <1>2, <1>3, FromLayerToLayer
<1>5. PICK g : Upto(g, LAYERS)
  BY <1>4 DEF P
<1>6. g = [l \in 0 .. LAYERS |-> IF l = 0 THEN c ELSE Step(g[l - 1], l)]
  <2>1. ASSUME NEW l \in 0 .. LAYERS PROVE g[l] = IF l = 0 THEN c ELSE Step(g[l - 1], l)
    <3>1. CASE l = 0
      BY <1>5, <3>1
    <3>2. CASE l # 0
      <4>1. l \in 1 .. LAYERS
        BY <1>1, <3>2
      <4>2. g[l] = Step(g[l - 1], l)
        BY <1>5, <4>1
      <4> QED
        BY <3>2, <4>2
    <3> QED
      BY <3>1, <3>2
  <2> QED
    BY <1>5, <2>1
<1> QED
  BY <1>6 DEF IsGemma, Step


IsMlx(at, c, caches, offset, useCache) == at = [l \in 0 .. LAYERS |-> IF l = 0 THEN [x |-> c] ELSE MlxLayer(at[l - 1].x, caches[l], offset, useCache)]

LEMMA MlxExists ==
    ASSUME NEW c, NEW caches, NEW offset, NEW useCache
    PROVE  \E at : IsMlx(at, c, caches, offset, useCache)
<1> DEFINE Step(v, l) == MlxLayer(v.x, caches[l], offset, useCache)
           Upto(g, n) == g = [l \in 0 .. n |-> g[l]] /\ g[0] = [x |-> c] /\ \A l \in 1 .. n : g[l] = Step(g[l - 1], l)
           P == {n \in 0 .. LAYERS : \E g : Upto(g, n)}
<1>1. LAYERS \in Nat
  BY EngineAssumption
<1> HIDE DEF Step
<1>2. 0 \in P
  <2>1. Upto([l \in 0 .. 0 |-> [x |-> c]], 0)
    OBVIOUS
  <2> HIDE DEF Upto
  <2> QED
    BY <1>1, <2>1
<1>3. ASSUME NEW n \in 1 .. LAYERS, n - 1 \in P PROVE n \in P
  <2>1. PICK g : Upto(g, n - 1)
    BY <1>3
  <2> DEFINE h == [l \in 0 .. n |-> IF l = n THEN Step(g[n - 1], n) ELSE g[l]]
  <2>2. h = [l \in 0 .. n |-> h[l]] /\ h[0] = [x |-> c]
    BY <1>1, <2>1
  <2>3. ASSUME NEW l \in 1 .. n PROVE h[l] = Step(h[l - 1], l)
    <3>1. h[l - 1] = g[l - 1] /\ h[l] = IF l = n THEN Step(g[n - 1], n) ELSE g[l]
      BY <1>1
    <3>2. l # n => l \in 1 .. n - 1
      BY <1>1
    <3>3. \A k \in 1 .. n - 1 : g[k] = Step(g[k - 1], k)
      BY <2>1
    <3> QED
      BY <3>1, <3>2, <3>3
  <2>4. Upto(h, n)
    BY <2>2, <2>3
  <2> HIDE DEF Upto
  <2> QED
    BY <1>1, <2>4
<1> HIDE DEF P
<1>4. LAYERS \in P
  BY <1>1, <1>2, <1>3, FromLayerToLayer
<1>5. PICK g : Upto(g, LAYERS)
  BY <1>4 DEF P
<1>6. g = [l \in 0 .. LAYERS |-> IF l = 0 THEN [x |-> c] ELSE Step(g[l - 1], l)]
  <2>1. ASSUME NEW l \in 0 .. LAYERS PROVE g[l] = IF l = 0 THEN [x |-> c] ELSE Step(g[l - 1], l)
    <3>1. CASE l = 0
      BY <1>5, <3>1
    <3>2. CASE l # 0
      <4>1. l \in 1 .. LAYERS
        BY <1>1, <3>2
      <4>2. g[l] = Step(g[l - 1], l)
        BY <1>5, <4>1
      <4> QED
        BY <3>2, <4>2
    <3> QED
      BY <3>1, <3>2
  <2> QED
    BY <1>5, <2>1
<1> QED
  BY <1>6 DEF IsMlx, Step

WgpuOne(s, x, l) ==
    Attend(<<x>>, <<s.cur>>, SubSeq(KvAppendAt(s.slots[l], s.cur, <<[pos |-> s.cur, row |-> x]>>), 1, s.cur + 1))[1]
IsWgpuToken(at, s, tok) == at = [l \in 0 .. LAYERS |-> IF l = 0 THEN tok ELSE WgpuOne(s, at[l - 1], l)]

LEMMA WgpuTokenExists ==
    ASSUME NEW s, NEW tok
    PROVE  \E at : IsWgpuToken(at, s, tok)
<1> DEFINE Step(v, l) == WgpuOne(s, v, l)
           Upto(g, n) == g = [l \in 0 .. n |-> g[l]] /\ g[0] = tok /\ \A l \in 1 .. n : g[l] = Step(g[l - 1], l)
           P == {n \in 0 .. LAYERS : \E g : Upto(g, n)}
<1>1. LAYERS \in Nat
  BY EngineAssumption
<1> HIDE DEF Step
<1>2. 0 \in P
  <2>1. Upto([l \in 0 .. 0 |-> tok], 0)
    OBVIOUS
  <2> HIDE DEF Upto
  <2> QED
    BY <1>1, <2>1
<1>3. ASSUME NEW n \in 1 .. LAYERS, n - 1 \in P PROVE n \in P
  <2>1. PICK g : Upto(g, n - 1)
    BY <1>3
  <2> DEFINE h == [l \in 0 .. n |-> IF l = n THEN Step(g[n - 1], n) ELSE g[l]]
  <2>2. h = [l \in 0 .. n |-> h[l]] /\ h[0] = tok
    BY <1>1, <2>1
  <2>3. ASSUME NEW l \in 1 .. n PROVE h[l] = Step(h[l - 1], l)
    <3>1. h[l - 1] = g[l - 1] /\ h[l] = IF l = n THEN Step(g[n - 1], n) ELSE g[l]
      BY <1>1
    <3>2. l # n => l \in 1 .. n - 1
      BY <1>1
    <3>3. \A k \in 1 .. n - 1 : g[k] = Step(g[k - 1], k)
      BY <2>1
    <3> QED
      BY <3>1, <3>2, <3>3
  <2>4. Upto(h, n)
    BY <2>2, <2>3
  <2> HIDE DEF Upto
  <2> QED
    BY <1>1, <2>4
<1> HIDE DEF P
<1>4. LAYERS \in P
  BY <1>1, <1>2, <1>3, FromLayerToLayer
<1>5. PICK g : Upto(g, LAYERS)
  BY <1>4 DEF P
<1>6. g = [l \in 0 .. LAYERS |-> IF l = 0 THEN tok ELSE Step(g[l - 1], l)]
  <2>1. ASSUME NEW l \in 0 .. LAYERS PROVE g[l] = IF l = 0 THEN tok ELSE Step(g[l - 1], l)
    <3>1. CASE l = 0
      BY <1>5, <3>1
    <3>2. CASE l # 0
      <4>1. l \in 1 .. LAYERS
        BY <1>1, <3>2
      <4>2. g[l] = Step(g[l - 1], l)
        BY <1>5, <4>1
      <4> QED
        BY <3>2, <4>2
    <3> QED
      BY <3>1, <3>2
  <2> QED
    BY <1>5, <2>1
<1> QED
  BY <1>6 DEF IsWgpuToken, Step

WgpuMany(s, c, x, l) ==
    Attend(x, Positions(s.cur, Len(c)),
           SubSeq(KvAppendAt(s.slots[l], s.cur, Keys(x, Positions(s.cur, Len(c)))), 1, s.cur + Len(c)))
IsWgpuChunk(at, s, c) == at = [l \in 0 .. LAYERS |-> IF l = 0 THEN c ELSE WgpuMany(s, c, at[l - 1], l)]

LEMMA WgpuChunkExists ==
    ASSUME NEW s, NEW c
    PROVE  \E at : IsWgpuChunk(at, s, c)
<1> DEFINE Step(v, l) == WgpuMany(s, c, v, l)
           Upto(g, n) == g = [l \in 0 .. n |-> g[l]] /\ g[0] = c /\ \A l \in 1 .. n : g[l] = Step(g[l - 1], l)
           P == {n \in 0 .. LAYERS : \E g : Upto(g, n)}
<1>1. LAYERS \in Nat
  BY EngineAssumption
<1> HIDE DEF Step
<1>2. 0 \in P
  <2>1. Upto([l \in 0 .. 0 |-> c], 0)
    OBVIOUS
  <2> HIDE DEF Upto
  <2> QED
    BY <1>1, <2>1
<1>3. ASSUME NEW n \in 1 .. LAYERS, n - 1 \in P PROVE n \in P
  <2>1. PICK g : Upto(g, n - 1)
    BY <1>3
  <2> DEFINE h == [l \in 0 .. n |-> IF l = n THEN Step(g[n - 1], n) ELSE g[l]]
  <2>2. h = [l \in 0 .. n |-> h[l]] /\ h[0] = c
    BY <1>1, <2>1
  <2>3. ASSUME NEW l \in 1 .. n PROVE h[l] = Step(h[l - 1], l)
    <3>1. h[l - 1] = g[l - 1] /\ h[l] = IF l = n THEN Step(g[n - 1], n) ELSE g[l]
      BY <1>1
    <3>2. l # n => l \in 1 .. n - 1
      BY <1>1
    <3>3. \A k \in 1 .. n - 1 : g[k] = Step(g[k - 1], k)
      BY <2>1
    <3> QED
      BY <3>1, <3>2, <3>3
  <2>4. Upto(h, n)
    BY <2>2, <2>3
  <2> HIDE DEF Upto
  <2> QED
    BY <1>1, <2>4
<1> HIDE DEF P
<1>4. LAYERS \in P
  BY <1>1, <1>2, <1>3, FromLayerToLayer
<1>5. PICK g : Upto(g, LAYERS)
  BY <1>4 DEF P
<1>6. g = [l \in 0 .. LAYERS |-> IF l = 0 THEN c ELSE Step(g[l - 1], l)]
  <2>1. ASSUME NEW l \in 0 .. LAYERS PROVE g[l] = IF l = 0 THEN c ELSE Step(g[l - 1], l)
    <3>1. CASE l = 0
      BY <1>5, <3>1
    <3>2. CASE l # 0
      <4>1. l \in 1 .. LAYERS
        BY <1>1, <3>2
      <4>2. g[l] = Step(g[l - 1], l)
        BY <1>5, <4>1
      <4> QED
        BY <3>2, <4>2
    <3> QED
      BY <3>1, <3>2
  <2> QED
    BY <1>5, <2>1
<1> QED
  BY <1>6 DEF IsWgpuChunk, Step

NumPieces(c, size) == (Len(c) + size - 1) \div size
Piece(c, size, n) == SubSeq(c, (n - 1) * size + 1, Min({n * size, Len(c)}))
Pass(s, p) == IF Len(p) = 1 THEN WgpuToken(s, p[1]) ELSE WgpuChunk(s, p)
AfterPiece(prev, p) ==
    IF ~prev.ok \/ prev.cur + Len(p) > KVCTX THEN [prev EXCEPT !.ok = FALSE]
    ELSE [slots |-> Pass(prev, p).slots, cur |-> Pass(prev, p).cur, rows |-> prev.rows \o Pass(prev, p).rows, ok |-> TRUE]
IsWgpuPasses(at, s0, c, size) == at = [l \in 0 .. NumPieces(c, size) |-> IF l = 0 THEN [slots |-> s0.slots, cur |-> s0.cur, rows |-> <<>>, ok |-> TRUE] ELSE AfterPiece(at[l - 1], Piece(c, size, l))]

LEMMA WgpuPassesExists ==
    ASSUME NEW s0, NEW c, NEW size, NumPieces(c, size) \in Nat
    PROVE  \E at : IsWgpuPasses(at, s0, c, size)
<1> DEFINE Step(v, l) == AfterPiece(v, Piece(c, size, l))
           Upto(g, n) == g = [l \in 0 .. n |-> g[l]] /\ g[0] = [slots |-> s0.slots, cur |-> s0.cur, rows |-> <<>>, ok |-> TRUE] /\ \A l \in 1 .. n : g[l] = Step(g[l - 1], l)
           P == {n \in 0 .. NumPieces(c, size) : \E g : Upto(g, n)}
<1>1. NumPieces(c, size) \in Nat
  OBVIOUS
<1> HIDE DEF Step
<1>2. 0 \in P
  <2>1. Upto([l \in 0 .. 0 |-> [slots |-> s0.slots, cur |-> s0.cur, rows |-> <<>>, ok |-> TRUE]], 0)
    OBVIOUS
  <2> HIDE DEF Upto
  <2> QED
    BY <1>1, <2>1
<1>3. ASSUME NEW n \in 1 .. NumPieces(c, size), n - 1 \in P PROVE n \in P
  <2>1. PICK g : Upto(g, n - 1)
    BY <1>3
  <2> DEFINE h == [l \in 0 .. n |-> IF l = n THEN Step(g[n - 1], n) ELSE g[l]]
  <2>2. h = [l \in 0 .. n |-> h[l]] /\ h[0] = [slots |-> s0.slots, cur |-> s0.cur, rows |-> <<>>, ok |-> TRUE]
    BY <1>1, <2>1
  <2>3. ASSUME NEW l \in 1 .. n PROVE h[l] = Step(h[l - 1], l)
    <3>1. h[l - 1] = g[l - 1] /\ h[l] = IF l = n THEN Step(g[n - 1], n) ELSE g[l]
      BY <1>1
    <3>2. l # n => l \in 1 .. n - 1
      BY <1>1
    <3>3. \A k \in 1 .. n - 1 : g[k] = Step(g[k - 1], k)
      BY <2>1
    <3> QED
      BY <3>1, <3>2, <3>3
  <2>4. Upto(h, n)
    BY <2>2, <2>3
  <2> HIDE DEF Upto
  <2> QED
    BY <1>1, <2>4
<1> HIDE DEF P
<1>4. NumPieces(c, size) \in P
  BY <1>1, <1>2, <1>3, FromLayerToLayer
<1>5. PICK g : Upto(g, NumPieces(c, size))
  BY <1>4 DEF P
<1>6. g = [l \in 0 .. NumPieces(c, size) |-> IF l = 0 THEN [slots |-> s0.slots, cur |-> s0.cur, rows |-> <<>>, ok |-> TRUE] ELSE Step(g[l - 1], l)]
  <2>1. ASSUME NEW l \in 0 .. NumPieces(c, size) PROVE g[l] = IF l = 0 THEN [slots |-> s0.slots, cur |-> s0.cur, rows |-> <<>>, ok |-> TRUE] ELSE Step(g[l - 1], l)
    <3>1. CASE l = 0
      BY <1>5, <3>1
    <3>2. CASE l # 0
      <4>1. l \in 1 .. NumPieces(c, size)
        BY <1>1, <3>2
      <4>2. g[l] = Step(g[l - 1], l)
        BY <1>5, <4>1
      <4> QED
        BY <3>2, <4>2
    <3> QED
      BY <3>1, <3>2
  <2> QED
    BY <1>5, <2>1
<1> QED
  BY <1>6 DEF IsWgpuPasses, Step

\* A layer of PhiForward is one of LlamaForward: they differ in what the MLP reads.
LEMMA PhiLayerIsLlamas ==
    \A x, cache, cur, positions, useCache :
        PhiLayer(x, cache, cur, positions, useCache) = LlamaLayer(x, cache, cur, positions, useCache)
  BY DEF PhiLayer, LlamaLayer

IsPhi(at, c, first, useCache) ==
    at = [l \in 0 .. LAYERS |->
            IF l = 0 THEN [x |-> c]
            ELSE PhiLayer(at[l - 1].x, slots[l], IF useCache THEN seqLen[l] ELSE 0, Positions(first, Len(c)), useCache)]

\* So are its layers in turn.
LEMMA PhiIsLlama == \A at, c, first, useCache : IsPhi(at, c, first, useCache) <=> IsLlama(at, c, first, useCache)
<1> SUFFICES ASSUME NEW at, NEW c, NEW first, NEW useCache
             PROVE  IsPhi(at, c, first, useCache) <=> IsLlama(at, c, first, useCache)
  OBVIOUS
<1> DEFINE L(l) == LlamaLayer(at[l - 1].x, slots[l], IF useCache THEN seqLen[l] ELSE 0, Positions(first, Len(c)), useCache)
           F(l) == PhiLayer(at[l - 1].x, slots[l], IF useCache THEN seqLen[l] ELSE 0, Positions(first, Len(c)), useCache)
<1>1. \A l : L(l) = F(l)
  BY PhiLayerIsLlamas
<1> HIDE DEF L, F
<1>2. [l \in 0 .. LAYERS |-> IF l = 0 THEN [x |-> c] ELSE L(l)] = [l \in 0 .. LAYERS |-> IF l = 0 THEN [x |-> c] ELSE F(l)]
  BY <1>1
<1>3. IsLlama(at, c, first, useCache) <=> at = [l \in 0 .. LAYERS |-> IF l = 0 THEN [x |-> c] ELSE L(l)]
  BY DEF IsLlama, L
<1>4. IsPhi(at, c, first, useCache) <=> at = [l \in 0 .. LAYERS |-> IF l = 0 THEN [x |-> c] ELSE F(l)]
  BY DEF IsPhi, F
<1> QED
  BY <1>2, <1>3, <1>4

LEMMA PhiHiddenIs ==
    ASSUME NEW c, NEW useCache
    PROVE  LET at == CHOOSE at : IsPhi(at, c, IF useCache THEN seqLen[1] ELSE 0, useCache)
           IN  PhiHidden(c, useCache) = [rows |-> at[LAYERS].x, slots |-> [l \in Layer |-> at[l].cache], len |-> [l \in Layer |-> at[l].len]]
  BY DEF PhiHidden, ThroughLayers, IsPhi

LEMMA LlamaHiddenIs ==
    ASSUME NEW c, NEW useCache
    PROVE  LET at == CHOOSE at : IsLlama(at, c, IF useCache THEN seqLen[1] ELSE 0, useCache)
           IN  LlamaHidden(c, useCache) = [rows |-> at[LAYERS].x, slots |-> [l \in Layer |-> at[l].cache], len |-> [l \in Layer |-> at[l].len]]
  BY DEF LlamaHidden, ThroughLayers, IsLlama

GemmaDrops(c, useCache) == ~useCache \/ seqLen[1] + Len(c) > KVCTX
GemmaStart(c, useCache) == IF GemmaDrops(c, useCache) THEN 0 ELSE seqLen[1]

LEMMA GemmaHiddenIs ==
    ASSUME NEW c, NEW useCache
    PROVE  LET drop == GemmaDrops(c, useCache)
               positions == Positions(GemmaStart(c, useCache), Len(c))
               at == CHOOSE at : IsGemma(at, c, drop, positions)
           IN  GemmaHidden(c, useCache) =
                [rows |-> at[LAYERS],
                 slots |-> [l \in Layer |-> IF useCache THEN GemmaKeys(at[l - 1], drop, positions, l) ELSE IF drop THEN <<>> ELSE slots[l]],
                 len |-> [l \in Layer |-> IF useCache THEN GemmaStart(c, useCache) + Len(c) ELSE 0]]
  BY DEF GemmaHidden, IsGemma, GemmaKeys, GemmaLayer, GemmaDrops, GemmaStart

LEMMA MlxPassIs ==
    ASSUME NEW c, NEW caches, NEW offset, NEW useCache
    PROVE  LET at == CHOOSE at : IsMlx(at, c, caches, offset, useCache)
           IN  MlxPass(c, caches, offset, useCache) = [rows |-> at[LAYERS].x, slots |-> [l \in Layer |-> at[l].cache]]
  BY DEF MlxPass, IsMlx

LEMMA WgpuTokenIs ==
    ASSUME NEW s, NEW tok
    PROVE  LET at == CHOOSE at : IsWgpuToken(at, s, tok)
           IN  WgpuToken(s, tok) =
                [rows |-> <<at[LAYERS]>>,
                 slots |-> [l \in Layer |-> KvAppendAt(s.slots[l], s.cur, <<[pos |-> s.cur, row |-> at[l - 1]]>>)],
                 cur |-> s.cur + 1]
  BY DEF WgpuToken, IsWgpuToken, WgpuOne

LEMMA WgpuChunkIs ==
    ASSUME NEW s, NEW c
    PROVE  LET at == CHOOSE at : IsWgpuChunk(at, s, c)
           IN  WgpuChunk(s, c) =
                [rows |-> at[LAYERS],
                 slots |-> [l \in Layer |-> KvAppendAt(s.slots[l], s.cur, Keys(at[l - 1], Positions(s.cur, Len(c))))],
                 cur |-> s.cur + Len(c)]
  BY DEF WgpuChunk, IsWgpuChunk, WgpuMany

LEMMA WgpuPassesIs ==
    ASSUME NEW s0, NEW c, NEW size
    PROVE  WgpuPasses(s0, c, size) = (CHOOSE at : IsWgpuPasses(at, s0, c, size))[NumPieces(c, size)]
  BY DEF WgpuPasses, IsWgpuPasses, NumPieces, AfterPiece, Piece, Pass
-----------------------------------------------------------------------------
(* A pass in the context of the tokens toks: if every layer attends over   *)
(* the keys of toks, and of its own rows after them, the rows of every     *)
(* layer are those of one pass over all.                                   *)

\* The rows of a layer for the m tokens after the first n.
After(rows, n, m, x) == IsList(x, m) /\ \A i \in 1 .. m : x[i] = rows[n + i]

\* The first n keys are of the rows x, at their own positions.
KeysAre(keys, n, x) == \A i \in 1 .. n : keys[i].pos = i - 1 /\ keys[i].row = x[i]

\* The rows of a pass over two lists of tokens.
LEMMA RowsOfBoth ==
    ASSUME NEW S, NEW toks, NEW n \in Nat, IsList(toks, n), NEW c, NEW m \in Nat, IsList(c, m)
    PROVE  /\ \A l \in 0 .. LAYERS, i \in 1 .. n : RowsOver(S, toks \o c)[l][i] = RowsOver(S, toks)[l][i]
           /\ After(RowsOver(S, toks \o c)[0], n, m, c)
           /\ \A l \in Layer, i \in 1 .. n + m :
                  RowsOver(S, toks \o c)[l][i] = RowAfter(S, RowsOver(S, toks \o c)[l - 1], l, i)
           /\ \A l \in Layer : IsList(RowsOver(S, toks \o c)[l], n + m)
           /\ n + m \in Nat
<1>1. IsList(toks \o c, n + m) /\ n \in Nat /\ m \in Nat /\ n <= n + m
  BY Joined DEF IsList, AsJoined
<1>2. \A i \in 1 .. n : (toks \o c)[i] = toks[i]
  BY Joined DEF IsList, AsJoined
<1>3. ASSUME NEW l \in 0 .. LAYERS, NEW i \in 1 .. n PROVE RowsOver(S, toks \o c)[l][i] = RowsOver(S, toks)[l][i]
  <2> DEFINE both == toks \o c
  <2>1. IsList(both, n + m) /\ n + m \in Nat /\ n <= n + m /\ \A k \in 1 .. n : toks[k] = both[k]
    BY <1>1, <1>2 DEF IsList
  <2> HIDE DEF both
  <2>2. RowsOver(S, toks)[l][i] = RowsOver(S, both)[l][i]
    BY <2>1, RowsOfPrefix
  <2> QED
    BY <2>2 DEF both
<1>4. RowsOver(S, toks \o c)[0] = toks \o c /\ DOMAIN (toks \o c) = 1 .. n + m
  BY <1>1, RowsOf, ListIsSeq
<1>5. After(RowsOver(S, toks \o c)[0], n, m, c)
  <2> DEFINE both == toks \o c
             r == RowsOver(S, toks \o c)[0]
  <2>1. AsJoined(both, toks, n, c, m) /\ r = both
    BY <1>4, Joined
  <2> HIDE DEF both, r
  <2>2. After(r, n, m, c)
    BY <2>1 DEF After, AsJoined
  <2> QED
    BY <2>2 DEF r
<1>6. ASSUME NEW l \in Layer, NEW i \in 1 .. n + m
      PROVE  RowsOver(S, toks \o c)[l][i] = RowAfter(S, RowsOver(S, toks \o c)[l - 1], l, i)
  <2>1. i \in DOMAIN (toks \o c)
    BY <1>4
  <2> QED
    BY <2>1, RowOfRows
<1>7. ASSUME NEW l \in Layer PROVE IsList(RowsOver(S, toks \o c)[l], n + m)
  <2>1. RowsOver(S, toks \o c)[l] = [i \in 1 .. n + m |-> RowAfter(S, RowsOver(S, toks \o c)[l - 1], l, i)]
    BY <1>4, RowsOf
  <2> QED
    BY <1>1, <2>1 DEF IsList
<1> QED
  BY <1>1, <1>3, <1>5, <1>6, <1>7

\* What layer l sees with the rows x: the keys of toks, its own keys, and all or a window of them.
InContext(S, toks, n, m, keys, x, mask, l) ==
    /\ KeysAre(keys, n, RowsOver(S, toks)[l - 1])
    /\ \A i \in 1 .. m : keys[n + i].pos = n + i - 1 /\ keys[n + i].row = x[i]
    /\ \A i \in 1 .. m : mask[i - 1] = FirstSeen(S, l, n + i) - 1 .. n + i - 1

\* The positions of a chunk.
LEMMA PositionsAre ==
    ASSUME NEW n \in Nat, NEW m \in Nat
    PROVE  \A i \in 1 .. m : Positions(n, m)[i] = n + i - 1
  BY DEF Positions

\* A pass over the chunk c, from layer to layer, each in the context of toks.
PassOver(S, toks, n, c, m, X, keys, mask) ==
    /\ IsList(toks, n) /\ IsList(c, m) /\ X[0] = c
    /\ \A l \in Layer : X[l] = AttendTo(X[l - 1], Positions(n, m), keys[l], mask[l])
    /\ \A l \in Layer : IsList(X[l - 1], m) => InContext(S, toks, n, m, keys[l], X[l - 1], mask[l], l)

\* A pass over a chunk in the context of toks gives the rows one pass over both gives.
LEMMA PassInContext ==
    ASSUME NEW S, NEW toks, NEW n \in Nat, NEW c, NEW m \in Nat, NEW X, NEW keys, NEW mask,
           PassOver(S, toks, n, c, m, X, keys, mask)
    PROVE  /\ \A l \in 0 .. LAYERS : After(RowsOver(S, toks \o c)[l], n, m, X[l])
           /\ \A l \in Layer : KeysAre(keys[l], n + m, RowsOver(S, toks \o c)[l - 1])
<1> DEFINE positions == Positions(n, m)
<1>p. \A i \in 1 .. m : positions[i] = n + i - 1
  BY PositionsAre
<1>l. IsList(toks, n) /\ IsList(c, m)
  BY DEF PassOver
<1>c. X[0] = c
  BY DEF PassOver
<1>x. \A l \in Layer : X[l] = AttendTo(X[l - 1], positions, keys[l], mask[l])
  BY DEF PassOver
<1>k. \A l \in Layer : IsList(X[l - 1], m) => InContext(S, toks, n, m, keys[l], X[l - 1], mask[l], l)
  BY DEF PassOver
<1> HIDE DEF positions
<1> DEFINE R == RowsOver(S, toks \o c)
           P == {l \in 0 .. LAYERS : After(R[l], n, m, X[l])}
<1>r. \A k \in Layer, i \in 1 .. n + m : R[k][i] = RowAfter(S, R[k - 1], k, i)
  <2>1. /\ \A l \in 0 .. LAYERS, i \in 1 .. n : RowsOver(S, toks \o c)[l][i] = RowsOver(S, toks)[l][i]
        /\ After(RowsOver(S, toks \o c)[0], n, m, c)
        /\ \A l \in Layer, i \in 1 .. n + m :
               RowsOver(S, toks \o c)[l][i] = RowAfter(S, RowsOver(S, toks \o c)[l - 1], l, i)
        /\ \A l \in Layer : IsList(RowsOver(S, toks \o c)[l], n + m)
        /\ n + m \in Nat
    BY ONLY <1>l, RowsOfBoth, n \in Nat, m \in Nat, EngineAssumption
  <2> QED
    BY <2>1
<1>1. LAYERS \in Nat /\ n \in Nat /\ m \in Nat
  BY EngineAssumption DEF IsList
<1>2. 0 \in P
  <2>1. After(R[0], n, m, c)
    BY <1>l, RowsOfBoth
  <2> HIDE DEF R
  <2> QED
    BY <1>1, <1>c, <2>1
<1>3. ASSUME NEW l \in 1 .. LAYERS, l - 1 \in P
      PROVE  l \in P /\ KeysAre(keys[l], n + m, R[l - 1])
  <2> DEFINE r == R[l - 1]
  <2>1. l \in Layer /\ l - 1 \in 0 .. LAYERS
    BY <1>1 DEF Layer
  <2>2. IsList(X[l - 1], m) /\ \A i \in 1 .. m : X[l - 1][i] = r[n + i]
    BY <1>3 DEF After
  <2>3. KeysAre(keys[l], n, RowsOver(S, toks)[l - 1])
        /\ \A i \in 1 .. m : keys[l][n + i].pos = n + i - 1 /\ keys[l][n + i].row = X[l - 1][i]
    BY <1>k, <2>1, <2>2 DEF InContext
  <2>4. \A i \in 1 .. n : r[i] = RowsOver(S, toks)[l - 1][i]
    BY <1>l, <2>1, RowsOfBoth
  <2>r. \A i \in 1 .. n + m : R[l][i] = RowAfter(S, r, l, i)
    <3> HIDE DEF R
    <3> QED
      BY <2>1, <1>r
  <2> HIDE DEF P, R
  <2> HIDE DEF r
  <2>5. ASSUME NEW i \in 1 .. n + m PROVE keys[l][i].pos = i - 1 /\ keys[l][i].row = r[i]
    <3>1. CASE i <= n
      BY <1>1, <2>3, <2>4, <3>1 DEF KeysAre
    <3>2. CASE i > n
      <4>1. i - n \in 1 .. m /\ n + (i - n) = i
        BY <1>1, <3>2
      <4>2. keys[l][n + (i - n)].pos = n + (i - n) - 1 /\ keys[l][n + (i - n)].row = X[l - 1][i - n]
        BY <2>3, <4>1
      <4>3. X[l - 1][i - n] = r[n + (i - n)]
        BY <2>2, <4>1
      <4> QED
        BY <4>1, <4>2, <4>3
    <3> QED
      BY <1>1, <3>1, <3>2
  <2>6. \A i \in 1 .. m : mask[l][i - 1] = FirstSeen(S, l, n + i) - 1 .. n + i - 1
    BY <1>k, <2>1, <2>2 DEF InContext
  <2>7. AttendTo(X[l - 1], positions, keys[l], mask[l]) = RowsAfter(S, r, l, n, m)
    <3> DEFINE x == X[l - 1]
               ks == keys[l]
               ms == mask[l]
    <3>1. IsList(x, m) /\ \A i \in 1 .. m : x[i] = r[n + i]
      BY <2>2
    <3>2. \A i \in 1 .. n + m : ks[i].pos = i - 1 /\ ks[i].row = r[i]
      BY <2>5
    <3>3. \A i \in 1 .. m : ms[i - 1] = FirstSeen(S, l, n + i) - 1 .. n + i - 1
      BY <2>6
    <3> HIDE DEF x, ks, ms
    <3>4. AttendTo(x, positions, ks, ms) = RowsAfter(S, r, l, n, m)
      <4>1. AttendsOver(S, l, n, m, r, x, positions, ks, ms)
        BY <1>p, <3>1, <3>2, <3>3 DEF AttendsOver
      <4> QED
        BY <1>1, <4>1, AttendsInContext
    <3> QED
      BY <3>4 DEF x, ks, ms
  <2>8. X[l] = [i \in 1 .. m |-> RowAfter(S, r, l, n + i)]
    BY <1>x, <2>1, <2>7 DEF RowsAfter
  <2>9. IsList(X[l], m)
    BY <1>1, <2>8 DEF IsList
  <2>10. ASSUME NEW i \in 1 .. m PROVE X[l][i] = R[l][n + i]
    <3>1. X[l][i] = RowAfter(S, r, l, n + i)
      BY <2>8
    <3>2. n + i \in 1 .. n + m
      BY <1>1
    <3> QED
      BY <2>r, <3>1, <3>2
  <2>11. l \in P
    BY <1>1, <2>9, <2>10 DEF P, After
  <2>12. KeysAre(keys[l], n + m, R[l - 1])
    BY <2>5 DEF r, KeysAre
  <2> QED
    BY <2>11, <2>12
<1> HIDE DEF P
<1>4. 0 .. LAYERS \subseteq P
  <2>1. \A l \in 1 .. LAYERS : l - 1 \in P => l \in P
    BY <1>3
  <2> QED
    BY <1>1, <1>2, <2>1, FromLayerToLayer
<1>5. ASSUME NEW l \in Layer PROVE KeysAre(keys[l], n + m, R[l - 1])
  <2>1. l \in 1 .. LAYERS /\ l - 1 \in 0 .. LAYERS
    BY <1>1 DEF Layer
  <2> QED
    BY <1>3, <1>4, <2>1
<1> QED
  BY <1>4, <1>5 DEF P

-----------------------------------------------------------------------------
(* What a cache holds.                                                     *)

TokensOf(sl, n) == [i \in 1 .. n |-> sl[1][i].row]

\* The first n slots of every layer are what one pass over toks leaves there.
HoldsRows(S, sl, n, toks) ==
    IsList(toks, n) /\ \A l \in Layer : KeysAre(sl[l], n, RowsOver(S, toks)[l - 1])

\* Such a cache holds the tokens of its first layer, at their own positions.
LEMMA HoldsTokens ==
    ASSUME NEW S, NEW sl, NEW n \in Nat, NEW toks, HoldsRows(S, sl, n, toks)
    PROVE  TokensOf(sl, n) = toks /\ \A i \in 1 .. n : sl[1][i].pos = i - 1
<1>1. 1 \in Layer
  BY EngineAssumption DEF Layer
<1>2. IsList(toks, n)
  BY DEF HoldsRows
<1>3. KeysAre(sl[1], n, RowsOver(S, toks)[1 - 1])
  BY <1>1 DEF HoldsRows
<1>4. RowsOver(S, toks)[0] = toks
  BY RowsOf
<1>5. \A i \in 1 .. n : sl[1][i].pos = i - 1 /\ sl[1][i].row = toks[i]
  BY <1>3, <1>4 DEF KeysAre
<1>6. IsList(TokensOf(sl, n), n)
  BY DEF IsList, TokensOf
<1>7. \A i \in 1 .. n : TokensOf(sl, n)[i] = toks[i]
  BY <1>5 DEF TokensOf
<1> QED
  BY <1>2, <1>5, <1>6, <1>7, ListsEqual

\* The rows after the first n are the last m.
LEMMA LastAre ==
    ASSUME NEW s, NEW n \in Nat, NEW m \in Nat, IsList(s, n + m), NEW x, After(s, n, m, x)
    PROVE  x = Kv!LastOf(s, m)
<1>1. n + m \in Nat /\ Len(s) = n + m
  BY ListIsSeq
<1>2. Kv!LastOf(s, m) = SubSeq(s, n + 1, n + m)
  BY <1>1 DEF Kv!LastOf
<1>3. IsList(SubSeq(s, n + 1, n + m), m) /\ \A i \in 1 .. m : SubSeq(s, n + 1, n + m)[i] = s[n + i]
  <2>1. IsList(SubSeq(s, n + 1, n + m), n + m - (n + 1) + 1)
        /\ \A i \in 1 .. n + m - (n + 1) + 1 : SubSeq(s, n + 1, n + m)[i] = s[n + 1 + i - 1]
    BY PartOf
  <2>2. n + m - (n + 1) + 1 = m /\ \A i \in Nat : n + 1 + i - 1 = n + i
    OBVIOUS
  <2> QED
    BY <2>1, <2>2
<1>4. IsList(x, m) /\ \A i \in 1 .. m : x[i] = s[n + i]
  BY DEF After
<1> QED
  BY <1>2, <1>3, <1>4, ListsEqual

\* The rows a pass in the context of toks leaves for the chunk c.
LEMMA AnswerIs ==
    ASSUME NEW S, NEW toks, NEW n \in Nat, IsList(toks, n), NEW c, NEW m \in Nat, IsList(c, m),
           NEW rows, After(RowsOver(S, toks \o c)[LAYERS], n, m, rows)
    PROVE  rows = Kv!LastOf(RowsOver(S, toks \o c)[LAYERS], Len(c))
<1>1. LAYERS \in Layer
  BY EngineAssumption DEF Layer
<1>2. IsList(RowsOver(S, toks \o c)[LAYERS], n + m)
  BY ONLY <1>1, RowsOfBoth, n \in Nat, m \in Nat, IsList(toks, n), IsList(c, m), EngineAssumption
<1>3. Len(c) = m
  BY ListIsSeq
<1> QED
  BY <1>2, <1>3, LastAre

\* A chunk in the context of nothing is answered on its own.
LEMMA AloneIs ==
    ASSUME NEW S, NEW c, NEW m \in Nat, IsList(c, m),
           NEW rows, After(RowsOver(S, << >> \o c)[LAYERS], 0, m, rows)
    PROVE  rows = RowsOver(S, c)[LAYERS] /\ << >> \o c = c /\ IsList(<< >>, 0)
<1>1. IsList(<< >>, 0) /\ 0 \in Nat
  BY DEF IsList
<1>2. IsList(<< >> \o c, 0 + m) /\ \A i \in 1 .. m : (<< >> \o c)[0 + i] = c[i]
  BY <1>1, Joined
<1>3. 0 + m = m /\ \A i \in 1 .. m : 0 + i = i
  OBVIOUS
<1>4. << >> \o c = c
  BY <1>2, <1>3, ListsEqual
<1>5. LAYERS \in Layer
  BY EngineAssumption DEF Layer
<1>6. IsList(RowsOver(S, << >> \o c)[LAYERS], 0 + m)
  BY ONLY <1>1, <1>5, RowsOfBoth, m \in Nat, IsList(c, m), EngineAssumption
<1>7. IsList(rows, m) /\ \A i \in 1 .. m : rows[i] = RowsOver(S, << >> \o c)[LAYERS][i]
  BY <1>3 DEF After
<1>8. rows = RowsOver(S, << >> \o c)[LAYERS]
  BY <1>3, <1>6, <1>7, ListsEqual
<1> QED
  BY <1>1, <1>4, <1>8

\* The keys of a chunk.
LEMMA LiteralKeysAre ==
    ASSUME NEW x, NEW m \in Nat, IsList(x, m), NEW positions
    PROVE  IsList(Keys(x, positions), m)
           /\ \A i \in 1 .. m : Keys(x, positions)[i].pos = positions[i] /\ Keys(x, positions)[i].row = x[i]
<1>1. DOMAIN x = 1 .. m
  BY ListIsSeq
<1>2. Keys(x, positions) = [i \in 1 .. m |-> [pos |-> positions[i], row |-> x[i]]]
  BY <1>1 DEF Keys
<1> DEFINE key(i) == [pos |-> positions[i], row |-> x[i]]
<1>3. \A i : key(i).pos = positions[i] /\ key(i).row = x[i]
  OBVIOUS
<1>4. Keys(x, positions) = [i \in 1 .. m |-> key(i)]
  BY <1>2
<1> HIDE DEF key
<1>5. \A i \in 1 .. m : Keys(x, positions)[i] = key(i)
  BY <1>4
<1>6. IsList(Keys(x, positions), m)
  BY <1>4 DEF IsList
<1> QED
  BY <1>3, <1>5, <1>6

\* The tokens that stay when m more come.
KeptOf(cur, m) == cur - Max({0, cur + m - KVCTX})

\* How many tokens stay, and how many there are afterwards.
LEMMA KeptIs ==
    ASSUME NEW cur \in Nat, cur <= KVCTX, NEW m \in Nat, m <= KVCTX
    PROVE  /\ cur + m <= KVCTX => KeptOf(cur, m) = cur
           /\ cur + m > KVCTX => KeptOf(cur, m) = KVCTX - m
           /\ KeptOf(cur, m) \in 0 .. cur
           /\ Min({cur + m, KVCTX}) = KeptOf(cur, m) + m
<1>1. KVCTX \in Nat /\ cur + m \in Int /\ cur + m - KVCTX \in Int
  BY EngineAssumption
<1>2. Max({0, cur + m - KVCTX}) = (IF 0 <= cur + m - KVCTX THEN cur + m - KVCTX ELSE 0)
  BY <1>1, MinAndMax
<1>3. Min({cur + m, KVCTX}) = (IF cur + m <= KVCTX THEN cur + m ELSE KVCTX)
  BY <1>1, MinAndMax
<1> QED
  BY <1>1, <1>2, <1>3 DEF KeptOf

\* An updated cache: what is kept of the old keys, then the new ones.
Updated(upd, cache, cur, new, m) ==
    /\ IsList(upd.cache, KVCTX)
    /\ upd.total = KeptOf(cur, m) + m
    /\ \A i \in 1 .. KeptOf(cur, m) : upd.cache[i] = cache[i + (cur - KeptOf(cur, m))]
    /\ \A i \in 1 .. m : upd.cache[KeptOf(cur, m) + i] = new[i]

\* update_kv_cache keeps the last of the old keys and appends the new ones.
LEMMA UpdateIs ==
    ASSUME NEW cache, NEW cur \in Nat, cur <= KVCTX, NEW new, NEW m \in Nat, IsList(new, m), m <= KVCTX
    PROVE  Updated(UpdateKvCache(cache, cur, new), cache, cur, new, m)
<1> DEFINE keep == KeptOf(cur, m)
           shift == Max({0, cur + m - KVCTX})
           upd == UpdateKvCache(cache, cur, new)
           slot(i) == IF i <= keep THEN cache[i + shift] ELSE IF i <= keep + m THEN new[i - keep] ELSE cache[i]
<1>1. KVCTX \in Nat /\ Len(new) = m
  BY EngineAssumption, ListIsSeq
<1>2. /\ cur + m <= KVCTX => keep = cur
      /\ cur + m > KVCTX => keep = KVCTX - m
      /\ keep \in 0 .. cur
      /\ Min({cur + m, KVCTX}) = keep + m
  BY KeptIs
<1>3. keep = cur - shift
  BY DEF KeptOf
<1>4. upd = [cache |-> [i \in 1 .. KVCTX |-> slot(i)], total |-> Min({cur + m, KVCTX})]
  BY <1>1, <1>3 DEF UpdateKvCache
<1>5. shift \in Int
  <2>0. cur + m - KVCTX \in Int
    BY <1>1
  <2>1. shift = (IF 0 <= cur + m - KVCTX THEN cur + m - KVCTX ELSE 0)
    <3> DEFINE d == cur + m - KVCTX
    <3> HIDE DEF d
    <3>1. Max({0, d}) = (IF 0 <= d THEN d ELSE 0)
      <4>1. d \in Int
        BY <2>0 DEF d
      <4> QED
        BY <4>1, MinAndMax
    <3> QED
      BY <3>1 DEF d
  <2> QED
    BY <1>1, <2>1
<1> HIDE DEF keep, shift, upd
<1>6. shift = cur - keep
  BY <1>2, <1>3, <1>5
<1>7. upd.cache = [i \in 1 .. KVCTX |-> slot(i)] /\ upd.total = keep + m
  BY <1>2, <1>4
<1>a. \A i \in 1 .. keep : i \in 1 .. KVCTX /\ slot(i) = cache[i + (cur - keep)]
  BY <1>1, <1>2, <1>6
<1>b. ASSUME NEW i \in 1 .. m PROVE keep + i \in 1 .. KVCTX /\ slot(keep + i) = new[i]
  <2>1. keep + i \in 1 .. KVCTX /\ ~(keep + i <= keep) /\ keep + i <= keep + m /\ keep + i - keep = i
    BY <1>1, <1>2
  <2> QED
    BY <1>2, <2>1
<1> HIDE DEF slot
<1>8. \A i \in 1 .. keep : upd.cache[i] = cache[i + (cur - keep)]
  BY <1>7, <1>a
<1>9. \A i \in 1 .. m : upd.cache[keep + i] = new[i]
  BY <1>7, <1>b
<1>10. IsList(upd.cache, KVCTX)
  BY <1>1, <1>7 DEF IsList
<1> QED
  BY <1>7, <1>8, <1>9, <1>10 DEF keep, upd, Updated

\* The mask of causal attention over n + m keys shows each of the m rows all keys up to its own.
LEMMA CausalInContext ==
    ASSUME NEW S, NEW l, l \notin S, NEW n \in Nat, NEW m \in Nat
    PROVE  \A i \in 1 .. m : CausalMask(m, n + m)[i - 1] = FirstSeen(S, l, n + i) - 1 .. n + i - 1
<1>1. ASSUME NEW i \in 1 .. m PROVE CausalMask(m, n + m)[i - 1] = FirstSeen(S, l, n + i) - 1 .. n + i - 1
  <2>1. CausalMask(m, n + m)[i - 1] = 0 .. n + i - 1
    BY CausalMaskOf
  <2>2. FirstSeen(S, l, n + i) = 1
    BY DEF FirstSeen
  <2> QED
    BY <2>1, <2>2
<1> QED
  BY <1>1

\* Attention gives as many rows as it takes, and each remembers the one it came from.
LEMMA AttendToLists ==
    ASSUME NEW x, NEW m \in Nat, IsList(x, m), NEW positions, NEW keys, NEW mask
    PROVE  /\ IsList(AttendTo(x, positions, keys, mask), m)
           /\ \A i \in 1 .. m : AttendTo(x, positions, keys, mask)[i].res = x[i]
<1> DEFINE seen(i) == Visited(keys, mask[i - 1])
           row(i) == [res |-> x[i], saw |-> [k \in DOMAIN seen(i) |-> <<positions[i] - seen(i)[k].pos, seen(i)[k].row>>]]
<1>1. DOMAIN x = 1 .. m
  BY ListIsSeq
<1>2. AttendTo(x, positions, keys, mask) = [i \in 1 .. m |-> row(i)]
  BY <1>1 DEF AttendTo
<1>3. \A i : row(i).res = x[i]
  OBVIOUS
<1> HIDE DEF row
<1> QED
  BY <1>2, <1>3 DEF IsList

\* Rows taken through the layers by attention are m rows on every layer, and each
\* row remembers the one it came from.
AttentionTakes(X, m, positions, keys, mask) ==
    IsList(X[0], m) /\ \A l \in Layer : X[l] = AttendTo(X[l - 1], positions, keys[l], mask[l])

LEMMA RowsThroughLayers ==
    ASSUME NEW m \in Nat, NEW X, NEW positions, NEW keys, NEW mask, AttentionTakes(X, m, positions, keys, mask)
    PROVE  /\ \A l \in 0 .. LAYERS : IsList(X[l], m)
           /\ \A l \in Layer, i \in 1 .. m : X[l][i].res = X[l - 1][i]
<1> DEFINE P == {l \in 0 .. LAYERS : IsList(X[l], m)}
<1>1. LAYERS \in Nat
  BY EngineAssumption
<1>0. IsList(X[0], m) /\ \A l \in Layer : X[l] = AttendTo(X[l - 1], positions, keys[l], mask[l])
  BY DEF AttentionTakes
<1>2. 0 \in P
  BY <1>0, <1>1
<1>3. ASSUME NEW l \in 1 .. LAYERS, l - 1 \in P PROVE l \in P
  <2>1. l \in Layer /\ IsList(X[l - 1], m)
    BY <1>3 DEF Layer
  <2>2. IsList(AttendTo(X[l - 1], positions, keys[l], mask[l]), m)
    BY <2>1, AttendToLists
  <2> QED
    BY <1>0, <2>1, <2>2 DEF Layer
<1> HIDE DEF P
<1>4. 0 .. LAYERS \subseteq P
  BY <1>1, <1>2, <1>3, FromLayerToLayer
<1>5. ASSUME NEW l \in Layer, NEW i \in 1 .. m PROVE X[l][i].res = X[l - 1][i]
  <2>1. l - 1 \in 0 .. LAYERS
    BY <1>1 DEF Layer
  <2>2. IsList(X[l - 1], m)
    BY <1>4, <2>1 DEF P
  <2>3. AttendTo(X[l - 1], positions, keys[l], mask[l])[i].res = X[l - 1][i]
    BY <2>2, AttendToLists
  <2> QED
    BY <1>0, <2>3
<1> QED
  BY <1>4, <1>5 DEF P

\* What a pass of the CPU engines does to every layer's cache, whether it slides or not.
LlamaPass(h, X, keys, c, n, m) ==
    /\ X[0] = c /\ h.rows = X[LAYERS]
    /\ h.len = [l \in Layer |-> KeptOf(n, m) + m]
    /\ h.slots = [l \in Layer |-> h.slots[l]]
    /\ \A l \in Layer :
           /\ X[l] = AttendTo(X[l - 1], Positions(n, m), keys[l], CausalMask(m, KeptOf(n, m) + m))
           /\ IsList(h.slots[l], KVCTX) /\ IsList(keys[l], KeptOf(n, m) + m)
           /\ \A i \in 1 .. KeptOf(n, m) + m : keys[l][i] = h.slots[l][i]
           /\ \A i \in 1 .. KeptOf(n, m) : h.slots[l][i] = slots[l][i + (n - KeptOf(n, m))]
           /\ \A i \in 1 .. m : /\ h.slots[l][KeptOf(n, m) + i].pos = n + i - 1
                                /\ h.slots[l][KeptOf(n, m) + i].row = X[l - 1][i]

CachedLayer(x, cache, cur, positions) == LlamaLayer(x, cache, cur, positions, TRUE)

\* One cached layer.
LEMMA LlamaLayerIs ==
    ASSUME NEW x, NEW cache, NEW cur, NEW positions, NEW u, u = UpdateKvCache(cache, cur, Keys(x, positions)),
           NEW y, y = CachedLayer(x, cache, cur, positions)
    PROVE  /\ y.x = Attend(x, positions, SubSeq(u.cache, 1, u.total))
           /\ y.cache = u.cache /\ y.len = Min({cur + Len(x), KVCTX})
<1> DEFINE A == Attend(x, positions, SubSeq(u.cache, 1, u.total))
           C == u.cache
           L == Min({cur + Len(x), KVCTX})
<1>1. y = [x |-> A, cache |-> C, len |-> L]
  BY DEF LlamaLayer, CachedLayer
<1> HIDE DEF A, C, L
<1>2. y.x = A /\ y.cache = C /\ y.len = L
  BY ONLY <1>1
<1> QED
  BY <1>2 DEF A, C, L

\* Every layer of a cached pass of the CPU engines.
LEMMA LlamaPasses ==
    ASSUME NEW n \in Nat, n <= KVCTX, seqLen = [l \in Layer |-> n],
           NEW c, NEW m \in Nat, m <= KVCTX, IsList(c, m)
    PROVE  \E X, keys : LlamaPass(LlamaHidden(c, TRUE), X, keys, c, n, m)
<1> DEFINE at == CHOOSE at : IsLlama(at, c, IF TRUE THEN seqLen[1] ELSE 0, TRUE)
           h == LlamaHidden(c, TRUE)
           pos == Positions(n, m)
           upd(l) == UpdateKvCache(slots[l], n, Keys(at[l - 1].x, pos))
           X == [l \in 0 .. LAYERS |-> at[l].x]
           keys == [l \in Layer |-> SubSeq(upd(l).cache, 1, upd(l).total)]
           keep == KeptOf(n, m)
<1>1. LAYERS \in Nat /\ 1 \in Layer /\ LAYERS \in Layer /\ KVCTX \in Nat /\ \A l \in Layer : l \in 0 .. LAYERS /\ l - 1 \in 0 .. LAYERS /\ l # 0
  BY EngineAssumption DEF Layer
<1>2. seqLen[1] = n /\ Len(c) = m /\ \A l \in Layer : seqLen[l] = n
  BY <1>1, ListIsSeq
<1>3. h = [rows |-> at[LAYERS].x, slots |-> [l \in Layer |-> at[l].cache], len |-> [l \in Layer |-> at[l].len]]
  BY LlamaHiddenIs
<1>4. IsLlama(at, c, n, TRUE)
  <2>1. IsLlama(at, c, IF TRUE THEN seqLen[1] ELSE 0, TRUE)
    BY LlamaExists
  <2> HIDE DEF at
  <2> QED
    BY <1>2, <2>1
<1> HIDE DEF at, h
<1>5. at[0] = [x |-> c]
  BY <1>1, <1>4 DEF IsLlama
<1>6. ASSUME NEW l \in Layer PROVE at[l] = LlamaLayer(at[l - 1].x, slots[l], n, pos, TRUE)
  BY <1>1, <1>2, <1>4 DEF IsLlama
<1>7. ASSUME NEW l \in Layer
      PROVE  /\ at[l].x = Attend(at[l - 1].x, pos, SubSeq(upd(l).cache, 1, upd(l).total))
             /\ at[l].cache = upd(l).cache
             /\ at[l].len = Min({n + Len(at[l - 1].x), KVCTX})
  <2> DEFINE x == at[l - 1].x
             u == UpdateKvCache(slots[l], n, Keys(x, pos))
             y == at[l]
  <2>1. y = CachedLayer(x, slots[l], n, pos) /\ u = UpdateKvCache(slots[l], n, Keys(x, pos))
    BY <1>6 DEF CachedLayer
  <2> HIDE DEF x, u, y
  <2>2. /\ y.x = Attend(x, pos, SubSeq(u.cache, 1, u.total))
        /\ y.cache = u.cache /\ y.len = Min({n + Len(x), KVCTX})
    BY ONLY <2>1, LlamaLayerIs
  <2> QED
    BY <2>2 DEF x, u, y
<1>8. keep \in 0 .. n /\ Min({n + m, KVCTX}) = keep + m
  BY KeptIs
<1> HIDE DEF pos, keep
<1>9. X[0] = c /\ h.rows = X[LAYERS]
  BY <1>1, <1>3, <1>5
<1>10. ASSUME NEW l \in Layer
       PROVE  X[l] = AttendTo(X[l - 1], pos, keys[l], CausalMask(Len(X[l - 1]), Len(keys[l])))
  <2>1. X[l] = at[l].x /\ X[l - 1] = at[l - 1].x /\ keys[l] = SubSeq(upd(l).cache, 1, upd(l).total)
    BY <1>1
  <2>2. at[l].x = Attend(at[l - 1].x, pos, SubSeq(upd(l).cache, 1, upd(l).total))
    BY <1>7
  <2> DEFINE a == X[l - 1]
             k == keys[l]
  <2>3. X[l] = Attend(a, pos, k)
    BY <2>1, <2>2
  <2> HIDE DEF a, k
  <2>4. X[l] = AttendTo(a, pos, k, CausalMask(Len(a), Len(k)))
    BY <2>3 DEF Attend
  <2> QED
    BY <2>4 DEF a, k
<1>11. \A l \in 0 .. LAYERS : IsList(X[l], m)
  <2> DEFINE mask == [l \in Layer |-> CausalMask(Len(X[l - 1]), Len(keys[l]))]
  <2>1. \A l \in Layer : X[l] = AttendTo(X[l - 1], pos, keys[l], mask[l])
    <3>1. \A l \in Layer : mask[l] = CausalMask(Len(X[l - 1]), Len(keys[l]))
      OBVIOUS
    <3> HIDE DEF mask, X, keys
    <3> QED
      BY <1>10, <3>1
  <2> HIDE DEF mask, X, keys
  <2>2. AttentionTakes(X, m, pos, keys, mask)
    BY <1>9, <2>1 DEF AttentionTakes
  <2> QED
    BY <2>2, RowsThroughLayers
<1>12. ASSUME NEW l \in Layer
       PROVE  /\ IsList(at[l - 1].x, m) /\ Len(at[l - 1].x) = m
              /\ IsList(Keys(at[l - 1].x, pos), m)
              /\ \A i \in 1 .. m : Keys(at[l - 1].x, pos)[i].pos = n + i - 1 /\ Keys(at[l - 1].x, pos)[i].row = at[l - 1].x[i]
  <2>1. IsList(at[l - 1].x, m)
    BY <1>1, <1>11
  <2>2. \A i \in 1 .. m : pos[i] = n + i - 1
    BY PositionsAre DEF pos
  <2> DEFINE x == at[l - 1].x
  <2> HIDE DEF x
  <2>3. IsList(x, m)
    BY <2>1 DEF x
  <2>4. IsList(Keys(x, pos), m) /\ \A i \in 1 .. m : Keys(x, pos)[i].pos = pos[i] /\ Keys(x, pos)[i].row = x[i]
    BY <2>3, LiteralKeysAre
  <2>5. Len(x) = m
    BY <2>3, ListIsSeq
  <2> QED
    BY <2>2, <2>3, <2>4, <2>5 DEF x
<1>13. ASSUME NEW l \in Layer
       PROVE  /\ IsList(upd(l).cache, KVCTX)
              /\ upd(l).total = keep + m
              /\ \A i \in 1 .. keep : upd(l).cache[i] = slots[l][i + (n - keep)]
              /\ \A i \in 1 .. m : upd(l).cache[keep + i] = Keys(at[l - 1].x, pos)[i]
  <2> DEFINE new == Keys(at[l - 1].x, pos)
             cache == slots[l]
  <2>1. IsList(new, m)
    BY <1>12
  <2> HIDE DEF new, cache
  <2>2. Updated(UpdateKvCache(cache, n, new), cache, n, new, m)
    BY <2>1, UpdateIs
  <2> QED
    BY <2>2 DEF new, cache, keep, Updated
<1>14. ASSUME NEW l \in Layer
       PROVE  h.slots[l] = upd(l).cache /\ X[l - 1] = at[l - 1].x /\ keys[l] = SubSeq(upd(l).cache, 1, keep + m)
  BY <1>1, <1>3, <1>7, <1>13
<1>15. h.len = [l \in Layer |-> keep + m] /\ h.slots = [l \in Layer |-> h.slots[l]]
  <2>1. \A l \in Layer : at[l].len = keep + m
    BY <1>7, <1>8, <1>12
  <2> QED
    BY <1>3, <2>1
<1> HIDE DEF upd, X, keys
<1>16. ASSUME NEW l \in Layer
       PROVE  /\ IsList(keys[l], keep + m) /\ Len(keys[l]) = keep + m
              /\ \A i \in 1 .. keep + m : keys[l][i] = h.slots[l][i]
  <2> DEFINE s == upd(l).cache
             t == keep + m
  <2>1. t \in Nat /\ keys[l] = SubSeq(s, 1, t) /\ h.slots[l] = s
    BY <1>8, <1>14
  <2> HIDE DEF s, t
  <2>2. IsList(SubSeq(s, 1, t), t - 1 + 1) /\ \A i \in 1 .. t - 1 + 1 : SubSeq(s, 1, t)[i] = s[1 + i - 1]
    BY <2>1, PartOf
  <2>3. t - 1 + 1 = t /\ \A i \in 1 .. t : 1 + i - 1 = i
    BY <2>1
  <2>4. IsList(keys[l], t) /\ \A i \in 1 .. t : keys[l][i] = h.slots[l][i]
    BY <2>1, <2>2, <2>3
  <2> QED
    BY <2>4, ListIsSeq DEF t
<1>17. ASSUME NEW l \in Layer
       PROVE  /\ X[l] = AttendTo(X[l - 1], pos, keys[l], CausalMask(m, keep + m))
              /\ IsList(h.slots[l], KVCTX)
              /\ \A i \in 1 .. keep : h.slots[l][i] = slots[l][i + (n - keep)]
              /\ \A i \in 1 .. m : h.slots[l][keep + i].pos = n + i - 1 /\ h.slots[l][keep + i].row = X[l - 1][i]
  <2>1. X[l] = AttendTo(X[l - 1], pos, keys[l], CausalMask(m, keep + m))
    <3>1. Len(X[l - 1]) = m /\ Len(keys[l]) = keep + m
      BY <1>12, <1>14, <1>16
    <3> QED
      BY <1>10, <3>1
  <2>2. h.slots[l] = upd(l).cache /\ X[l - 1] = at[l - 1].x
    BY <1>14
  <2>3. /\ IsList(h.slots[l], KVCTX)
        /\ \A i \in 1 .. keep : h.slots[l][i] = slots[l][i + (n - keep)]
        /\ \A i \in 1 .. m : h.slots[l][keep + i] = Keys(X[l - 1], pos)[i]
    BY <1>13, <2>2
  <2>4. \A i \in 1 .. m : Keys(X[l - 1], pos)[i].pos = n + i - 1 /\ Keys(X[l - 1], pos)[i].row = X[l - 1][i]
    BY <1>12, <2>2
  <2> QED
    BY <2>1, <2>3, <2>4
<1>18. LlamaPass(h, X, keys, c, n, m)
  BY <1>9, <1>15, <1>16, <1>17 DEF LlamaPass, pos, keep
<1> QED
  BY <1>18 DEF h

\* After the chunk c in the context of toks: what is held, and what is answered.
Extended(S, sl, rows, toks, n, c, m) ==
    HoldsRows(S, sl, n + m, toks \o c) /\ After(RowsOver(S, toks \o c)[LAYERS], n, m, rows)

\* Attention in the context of toks on every layer extends what is held.
LEMMA AttentionExtends ==
    ASSUME NEW S, NEW toks, NEW n \in Nat, NEW c, NEW m \in Nat, NEW X, NEW keys, NEW mask,
           PassOver(S, toks, n, c, m, X, keys, mask),
           NEW sl, \A l \in Layer : \A i \in 1 .. n + m : sl[l][i] = keys[l][i]
    PROVE  Extended(S, sl, X[LAYERS], toks, n, c, m)
<1>2. /\ \A l \in 0 .. LAYERS : After(RowsOver(S, toks \o c)[l], n, m, X[l])
      /\ \A l \in Layer : KeysAre(keys[l], n + m, RowsOver(S, toks \o c)[l - 1])
  BY PassInContext
<1>3. LAYERS \in 0 .. LAYERS
  BY EngineAssumption
<1>4. IsList(toks \o c, n + m)
  BY Joined DEF PassOver, AsJoined
<1>5. ASSUME NEW l \in Layer PROVE KeysAre(sl[l], n + m, RowsOver(S, toks \o c)[l - 1])
  BY <1>2 DEF KeysAre
<1> QED
  BY <1>2, <1>3, <1>4, <1>5 DEF Extended, HoldsRows

\* A chunk that fits is appended and answered in the context of what is held.
LEMMA LlamaExtends ==
    ASSUME NEW n \in Nat, seqLen = [l \in Layer |-> n], NEW toks, HoldsRows({}, slots, n, toks),
           NEW c, NEW m \in Nat, IsList(c, m), n + m <= KVCTX
    PROVE  LET h == LlamaHidden(c, TRUE)
           IN  /\ h.len = [l \in Layer |-> n + m]
               /\ h.slots = [l \in Layer |-> h.slots[l]] /\ \A l \in Layer : IsList(h.slots[l], KVCTX)
               /\ Extended({}, h.slots, h.rows, toks, n, c, m)
<1> DEFINE h == LlamaHidden(c, TRUE)
           mask == [l \in Layer |-> CausalMask(m, n + m)]
<1>0. n <= KVCTX /\ m <= KVCTX /\ KVCTX \in Nat
  BY EngineAssumption
<1>1. n <= KVCTX /\ m <= KVCTX /\ KVCTX \in Nat /\ KeptOf(n, m) = n
  BY <1>0, KeptIs
<1>2. PICK X, keys : LlamaPass(h, X, keys, c, n, m)
  BY <1>1, LlamaPasses
<1> HIDE DEF h
<1>3. ASSUME NEW l \in Layer, IsList(X[l - 1], m)
      PROVE  InContext({}, toks, n, m, keys[l], X[l - 1], mask[l], l)
  <2>1. KeysAre(keys[l], n, RowsOver({}, toks)[l - 1])
    <3>1. KeysAre(slots[l], n, RowsOver({}, toks)[l - 1])
      BY DEF HoldsRows
    <3>2. ASSUME NEW i \in 1 .. n PROVE keys[l][i] = slots[l][i]
      <4>1. i \in 1 .. n + m /\ i + (n - n) = i
        OBVIOUS
      <4>2. keys[l][i] = h.slots[l][i] /\ h.slots[l][i] = slots[l][i + (n - n)]
        BY <1>1, <1>2, <4>1 DEF LlamaPass
      <4> QED
        BY <4>1, <4>2
    <3> QED
      BY <3>1, <3>2 DEF KeysAre
  <2>2. ASSUME NEW i \in 1 .. m PROVE keys[l][n + i].pos = n + i - 1 /\ keys[l][n + i].row = X[l - 1][i]
    <3>1. n + i \in 1 .. n + m
      OBVIOUS
    <3> QED
      BY <1>1, <1>2, <3>1 DEF LlamaPass
  <2>3. \A i \in 1 .. m : mask[l][i - 1] = FirstSeen({}, l, n + i) - 1 .. n + i - 1
    <3> DEFINE S == {}
    <3>1. l \notin S /\ mask[l] = CausalMask(m, n + m)
      OBVIOUS
    <3> HIDE DEF S, mask
    <3>2. \A i \in 1 .. m : CausalMask(m, n + m)[i - 1] = FirstSeen(S, l, n + i) - 1 .. n + i - 1
      BY ONLY <3>1, n \in Nat, m \in Nat, CausalInContext
    <3> QED
      BY <3>1, <3>2 DEF S
  <2> QED
    BY <2>1, <2>2, <2>3 DEF InContext
<1>4. X[0] = c /\ h.rows = X[LAYERS]
      /\ \A l \in Layer : X[l] = AttendTo(X[l - 1], Positions(n, m), keys[l], mask[l])
  BY <1>1, <1>2 DEF LlamaPass
<1>5. \A l \in Layer : \A i \in 1 .. n + m : h.slots[l][i] = keys[l][i]
  BY <1>1, <1>2 DEF LlamaPass
<1>6. IsList(toks, n)
  BY DEF HoldsRows
<1> HIDE DEF mask
<1>9. PassOver({}, toks, n, c, m, X, keys, mask)
  BY <1>3, <1>4, <1>6 DEF PassOver
<1>7. Extended({}, h.slots, X[LAYERS], toks, n, c, m)
  BY <1>5, <1>9, AttentionExtends
<1>8. /\ h.len = [l \in Layer |-> n + m]
      /\ h.slots = [l \in Layer |-> h.slots[l]] /\ \A l \in Layer : IsList(h.slots[l], KVCTX)
  BY <1>1, <1>2 DEF LlamaPass
<1> QED
  BY <1>4, <1>7, <1>8 DEF h

\* Without the cache nothing is written, and the chunk is all there is to see.
UncachedLayer(x, cache, cur, positions) == LlamaLayer(x, cache, cur, positions, FALSE)

\* One layer without the cache.
LEMMA UncachedLayerIs ==
    ASSUME NEW x, NEW cache, NEW cur, NEW positions, NEW y, y = UncachedLayer(x, cache, cur, positions)
    PROVE  y.x = Attend(x, positions, Keys(x, positions)) /\ y.cache = cache /\ y.len = cur
<1> DEFINE A == Attend(x, positions, Keys(x, positions))
<1>1. y = [x |-> A, cache |-> cache, len |-> cur]
  BY DEF LlamaLayer, UncachedLayer
<1> HIDE DEF A
<1>2. y.x = A /\ y.cache = cache /\ y.len = cur
  BY ONLY <1>1
<1> QED
  BY <1>2 DEF A

\* The first layer that sees nothing but the chunk.
LEMMA AloneInContext ==
    ASSUME NEW S, NEW l, NEW m \in Nat, NEW keys, NEW x, NEW mask,
           \A i \in 1 .. m : keys[i].pos = i - 1 /\ keys[i].row = x[i],
           \A i \in 1 .. m : mask[i - 1] = FirstSeen(S, l, 0 + i) - 1 .. 0 + i - 1
    PROVE  InContext(S, << >>, 0, m, keys, x, mask, l)
<1>1. KeysAre(keys, 0, RowsOver(S, << >>)[l - 1])
  BY DEF KeysAre
<1>2. \A i \in 1 .. m : keys[0 + i].pos = 0 + i - 1 /\ keys[0 + i].row = x[i]
  <2>1. \A i \in 1 .. m : 0 + i = i
    OBVIOUS
  <2> QED
    BY <2>1
<1> QED
  BY <1>1, <1>2 DEF InContext

\* Without the cache, a chunk is answered on its own and nothing is held.
LEMMA LlamaAlone ==
    ASSUME NEW c, NEW m \in Nat, IsList(c, m), slots = [l \in Layer |-> slots[l]]
    PROVE  LET h == LlamaHidden(c, FALSE)
           IN  /\ h.len = [l \in Layer |-> 0] /\ h.slots = slots
               /\ After(RowsOver({}, << >> \o c)[LAYERS], 0, m, h.rows)
<1> DEFINE at == CHOOSE at : IsLlama(at, c, IF FALSE THEN seqLen[1] ELSE 0, FALSE)
           h == LlamaHidden(c, FALSE)
           pos == Positions(0, m)
           X == [l \in 0 .. LAYERS |-> at[l].x]
           keys == [l \in Layer |-> Keys(at[l - 1].x, pos)]
           mask == [l \in Layer |-> CausalMask(Len(at[l - 1].x), Len(keys[l]))]
<1>1. LAYERS \in Nat /\ 1 \in Layer /\ LAYERS \in Layer /\ \A l \in Layer : l \in 0 .. LAYERS /\ l - 1 \in 0 .. LAYERS /\ l # 0
  BY EngineAssumption DEF Layer
<1>2. Len(c) = m
  BY ListIsSeq
<1>3. h = [rows |-> at[LAYERS].x, slots |-> [l \in Layer |-> at[l].cache], len |-> [l \in Layer |-> at[l].len]]
  BY LlamaHiddenIs
<1>4. IsLlama(at, c, 0, FALSE)
  <2>1. IsLlama(at, c, IF FALSE THEN seqLen[1] ELSE 0, FALSE)
    BY LlamaExists
  <2> HIDE DEF at
  <2> QED
    BY <2>1
<1> HIDE DEF at, h
<1>5. at[0] = [x |-> c]
  BY <1>1, <1>4 DEF IsLlama
<1>6. ASSUME NEW l \in Layer PROVE at[l] = UncachedLayer(at[l - 1].x, slots[l], 0, pos)
  BY <1>1, <1>2, <1>4 DEF IsLlama, UncachedLayer
<1> HIDE DEF pos
<1>7. ASSUME NEW l \in Layer
      PROVE  at[l].x = Attend(at[l - 1].x, pos, Keys(at[l - 1].x, pos)) /\ at[l].cache = slots[l] /\ at[l].len = 0
  BY <1>6, UncachedLayerIs
<1>8. X[0] = c /\ h.rows = X[LAYERS] /\ \A l \in Layer : X[l - 1] = at[l - 1].x
  BY <1>1, <1>3, <1>5
<1>9. ASSUME NEW l \in Layer PROVE X[l] = AttendTo(X[l - 1], pos, keys[l], mask[l])
  <2> DEFINE a == at[l - 1].x
             k == Keys(at[l - 1].x, pos)
  <2>1. X[l] = Attend(a, pos, k) /\ X[l - 1] = a /\ keys[l] = k /\ mask[l] = CausalMask(Len(a), Len(k))
    BY <1>1, <1>7
  <2> HIDE DEF a, k, X, keys, mask
  <2> QED
    BY <2>1 DEF Attend
<1>10. ASSUME NEW l \in Layer PROVE keys[l] = Keys(X[l - 1], pos) /\ mask[l] = CausalMask(Len(X[l - 1]), Len(keys[l]))
  BY <1>8
<1> HIDE DEF X, keys, mask
<1>11. ASSUME NEW l \in Layer, IsList(X[l - 1], m)
       PROVE  InContext({}, << >>, 0, m, keys[l], X[l - 1], mask[l], l)
  <2> DEFINE x == X[l - 1]
  <2>0. IsList(x, m)
    BY <1>11
  <2> HIDE DEF x
  <2>1. IsList(Keys(x, pos), m)
        /\ \A i \in 1 .. m : Keys(x, pos)[i].pos = pos[i] /\ Keys(x, pos)[i].row = x[i]
    BY <2>0, LiteralKeysAre
  <2>2. \A i \in 1 .. m : pos[i] = i - 1
    <3>1. \A i \in 1 .. m : Positions(0, m)[i] = 0 + i - 1
      BY PositionsAre
    <3> QED
      BY <3>1 DEF pos
  <2>3. Len(x) = m /\ Len(Keys(x, pos)) = 0 + m
    BY <2>0, <2>1, ListIsSeq
  <2>4. keys[l] = Keys(x, pos) /\ mask[l] = CausalMask(m, 0 + m)
    BY <1>10, <2>3 DEF x
  <2>5. \A i \in 1 .. m : mask[l][i - 1] = FirstSeen({}, l, 0 + i) - 1 .. 0 + i - 1
    <3>1. 0 \in Nat
      OBVIOUS
    <3>2. \A i \in 1 .. m : CausalMask(m, 0 + m)[i - 1] = FirstSeen({}, l, 0 + i) - 1 .. 0 + i - 1
      <4> DEFINE n == 0
                 S == {}
      <4>1. n \in Nat /\ l \notin S
        OBVIOUS
      <4> HIDE DEF n, S
      <4>2. \A i \in 1 .. m : CausalMask(m, n + m)[i - 1] = FirstSeen(S, l, n + i) - 1 .. n + i - 1
        BY <4>1, CausalInContext
      <4> QED
        BY <4>2 DEF n, S
    <3> QED
      BY <2>4, <3>2, Zenon
  <2>6. \A i \in 1 .. m : keys[l][i].pos = i - 1 /\ keys[l][i].row = x[i]
    BY <2>1, <2>2, <2>4
  <2>7. InContext({}, << >>, 0, m, keys[l], x, mask[l], l)
    BY <2>5, <2>6, AloneInContext
  <2> QED
    BY <2>7 DEF x
<1>12. IsList(<< >>, 0)
  BY DEF IsList
<1>13. PassOver({}, << >>, 0, c, m, X, keys, mask)
  BY <1>8, <1>9, <1>11, <1>12 DEF PassOver, pos
<1>14. After(RowsOver({}, << >> \o c)[LAYERS], 0, m, X[LAYERS])
  BY <1>1, <1>13, PassInContext
<1>15. h.len = [l \in Layer |-> 0] /\ h.slots = slots
  BY <1>3, <1>7
<1> QED
  BY <1>8, <1>14, <1>15 DEF h

\* PhiForward makes the same passes.
LEMMA PhiHiddenIsLlamas == \A c, useCache : PhiHidden(c, useCache) = LlamaHidden(c, useCache)
<1> SUFFICES ASSUME NEW c, NEW useCache PROVE PhiHidden(c, useCache) = LlamaHidden(c, useCache)
  OBVIOUS
<1> DEFINE first == IF useCache THEN seqLen[1] ELSE 0
           F(at) == IsPhi(at, c, first, useCache)
           L(at) == IsLlama(at, c, first, useCache)
           Of(at) == [rows |-> at[LAYERS].x, slots |-> [l \in Layer |-> at[l].cache], len |-> [l \in Layer |-> at[l].len]]
<1>1. \A at : F(at) <=> L(at)
  BY PhiIsLlama
<1>2. PhiHidden(c, useCache) = Of(CHOOSE at : F(at))
  BY PhiHiddenIs
<1>3. LlamaHidden(c, useCache) = Of(CHOOSE at : L(at))
  BY LlamaHiddenIs
<1> HIDE DEF F, L, Of
<1>4. (CHOOSE at : F(at)) = (CHOOSE at : L(at))
  BY <1>1
<1> QED
  BY <1>2, <1>3, <1>4

-----------------------------------------------------------------------------
(* A row of layer l comes from a token if undoing l residuals leads to it. *)

Undone(b, r, l) == b = [k \in 0 .. l |-> IF k = 0 THEN r ELSE b[k - 1].res]
Comes(r, l, t) == \E b : Undone(b, r, l) /\ b[l] = t

\* A token comes from itself.
LEMMA TokenComes == \A t : Comes(t, 0, t)
<1> SUFFICES ASSUME NEW t PROVE Comes(t, 0, t)
  OBVIOUS
<1> DEFINE b == [k \in 0 .. 0 |-> t]
<1>1. b = [k \in 0 .. 0 |-> IF k = 0 THEN t ELSE b[k - 1].res] /\ b[0] = t
  OBVIOUS
<1> QED
  BY <1>1 DEF Comes, Undone

\* What a layer makes of a row comes from the same token.
LEMMA ComesOneLayerOn ==
    ASSUME NEW l \in Nat \ {0}, NEW r, NEW q, NEW t, q.res = r, Comes(r, l - 1, t)
    PROVE  Comes(q, l, t)
<1>1. PICK b : Undone(b, r, l - 1) /\ b[l - 1] = t
  BY DEF Comes
<1>2. b = [k \in 0 .. l - 1 |-> IF k = 0 THEN r ELSE b[k - 1].res]
  BY <1>1 DEF Undone
<1> DEFINE g == [k \in 0 .. l |-> IF k = 0 THEN q ELSE b[k - 1]]
<1>3. b[0] = r /\ \A k \in 1 .. l - 1 : b[k] = b[k - 1].res
  BY <1>2
<1>4. g[0] = q /\ \A k \in 1 .. l : g[k] = b[k - 1]
  OBVIOUS
<1>5. ASSUME NEW k \in 1 .. l PROVE g[k] = g[k - 1].res
  <2>1. CASE k = 1
    BY <1>3, <1>4, <2>1
  <2>2. CASE k # 1
    <3>1. k - 1 \in 1 .. l /\ k - 1 \in 1 .. l - 1
      BY <2>2
    <3> HIDE DEF g
    <3>2. g[k] = b[k - 1] /\ g[k - 1] = b[k - 1 - 1] /\ b[k - 1] = b[k - 1 - 1].res
      BY <1>3, <1>4, <3>1
    <3> QED
      BY <3>2
  <2> QED
    BY <2>1, <2>2
<1>6. g = [k \in 0 .. l |-> IF k = 0 THEN q ELSE g[k - 1].res]
  <2>1. g = [k \in 0 .. l |-> g[k]]
    OBVIOUS
  <2> HIDE DEF g
  <2>2. \A k \in 0 .. l : g[k] = IF k = 0 THEN q ELSE g[k - 1].res
    BY <1>4, <1>5
  <2> QED
    BY <2>1, <2>2
<1>7. g[l] = t
  BY <1>1
<1> HIDE DEF g
<1> QED
  BY <1>6, <1>7 DEF Comes, Undone

\* It leads to one token only.
LEMMA ComesFromOne ==
    ASSUME NEW l \in Nat, NEW r, NEW b, NEW g, Undone(b, r, l), Undone(g, r, l)
    PROVE  b = g
<1> DEFINE P == {k \in 0 .. l : b[k] = g[k]}
<1>1. /\ b = [k \in 0 .. l |-> IF k = 0 THEN r ELSE b[k - 1].res]
      /\ g = [k \in 0 .. l |-> IF k = 0 THEN r ELSE g[k - 1].res]
  BY DEF Undone
<1>2. b[0] = r /\ g[0] = r /\ \A k \in 1 .. l : b[k] = b[k - 1].res /\ g[k] = g[k - 1].res
  BY <1>1
<1>3. 0 \in P
  BY <1>2
<1>4. \A k \in 1 .. l : k - 1 \in P => k \in P
  BY <1>2
<1> HIDE DEF P
<1>5. 0 .. l \subseteq P
  BY <1>3, <1>4, FromLayerToLayer
<1>6. \A k \in 0 .. l : b[k] = g[k]
  BY <1>5 DEF P
<1> QED
  BY <1>1, <1>6

\* BaseBelow of KvCache finds the token of a key of the last layer.
LEMMA BaseBelowIs ==
    ASSUME NEW r, NEW t, Comes(r, LAYERS - 1, t)
    PROVE  Kv!BaseBelow(r) = t
<1>1. LAYERS - 1 \in Nat
  BY EngineAssumption
<1>2. PICK g : Undone(g, r, LAYERS - 1) /\ g[LAYERS - 1] = t
  BY DEF Comes
<1>3. Kv!BaseBelow(r) = (CHOOSE b : Undone(b, r, LAYERS - 1))[LAYERS - 1]
  BY DEF Kv!BaseBelow, Undone
<1>4. Undone(CHOOSE b : Undone(b, r, LAYERS - 1), r, LAYERS - 1)
  BY <1>2
<1>5. (CHOOSE b : Undone(b, r, LAYERS - 1)) = g
  BY <1>1, <1>2, <1>4, ComesFromOne
<1> QED
  BY <1>2, <1>3, <1>5

\* Every live slot holds a row that comes from the token of the first layer's slot.
Traced(sl, n) == \A l \in Layer, i \in 1 .. n : Comes(sl[l][i].row, l - 1, sl[1][i].row)

\* The rows of one pass come from its tokens.
LEMMA HoldsTraced ==
    ASSUME NEW S, NEW sl, NEW n \in Nat, NEW toks, HoldsRows(S, sl, n, toks)
    PROVE  Traced(sl, n)
<1> DEFINE R == RowsOver(S, toks)
<1>1. LAYERS \in Nat /\ IsList(toks, n) /\ R[0] = toks
  BY EngineAssumption, RowsOf DEF HoldsRows
<1>2. ASSUME NEW l \in Layer, NEW i \in 1 .. n PROVE R[l][i].res = R[l - 1][i]
  <2>1. i \in DOMAIN toks
    BY <1>1, ListIsSeq
  <2>2. R[l][i] = RowAfter(S, R[l - 1], l, i)
    BY <2>1, RowOfRows
  <2> HIDE DEF R
  <2> QED
    BY <2>2 DEF RowAfter
<1> HIDE DEF R
<1>3. ASSUME NEW i \in 1 .. n PROVE \A l \in 0 .. LAYERS : Comes(R[l][i], l, toks[i])
  <2> DEFINE P == {l \in 0 .. LAYERS : Comes(R[l][i], l, toks[i])}
  <2>1. 0 \in P
    BY <1>1, TokenComes
  <2>2. ASSUME NEW l \in 1 .. LAYERS, l - 1 \in P PROVE l \in P
    <3>1. l \in Layer /\ l \in Nat \ {0}
      BY DEF Layer
    <3>2. R[l][i].res = R[l - 1][i] /\ Comes(R[l - 1][i], l - 1, toks[i])
      BY <1>2, <2>2, <3>1
    <3>3. Comes(R[l][i], l, toks[i])
      BY <3>1, <3>2, ComesOneLayerOn
    <3> QED
      BY <3>3
  <2> HIDE DEF P
  <2>3. 0 .. LAYERS \subseteq P
    BY <1>1, <2>1, <2>2, FromLayerToLayer
  <2> QED
    BY <2>3 DEF P
<1>4. TokensOf(sl, n) = toks
  BY HoldsTokens
<1>5. ASSUME NEW l \in Layer, NEW i \in 1 .. n PROVE Comes(sl[l][i].row, l - 1, sl[1][i].row)
  <2>1. sl[l][i].row = R[l - 1][i]
    BY DEF HoldsRows, KeysAre, R
  <2>2. sl[1][i].row = toks[i]
    BY <1>4 DEF TokensOf
  <2>3. l - 1 \in 0 .. LAYERS
    BY <1>1 DEF Layer
  <2> QED
    BY <1>3, <2>1, <2>2, <2>3
<1> QED
  BY <1>5 DEF Traced

\* What a query that sees the first n keys remembers of them.
LastSeesAll(x, m, positions, keys, n, mask, y) ==
    IsList(x, m) /\ mask[m - 1] = 0 .. n - 1 /\ y = AttendTo(x, positions, keys, mask)

LastSaw(y, m, keys, n) == DOMAIN y[m].saw = 1 .. n /\ \A k \in 1 .. n : y[m].saw[k][2] = keys[k].row

\* The last row saw all keys.
LEMMA LastRowSaw ==
    ASSUME NEW x, NEW m \in Nat \ {0}, NEW positions, NEW keys, NEW n \in Nat \ {0},
           NEW mask, NEW y, LastSeesAll(x, m, positions, keys, n, mask, y)
    PROVE  LastSaw(y, m, keys, n)
<1> DEFINE seen(i) == Visited(keys, mask[i - 1])
           sees(i) == [k \in DOMAIN seen(i) |-> <<positions[i] - seen(i)[k].pos, seen(i)[k].row>>]
           row(i) == [res |-> x[i], saw |-> sees(i)]
<1>1. DOMAIN x = 1 .. m
  BY ListIsSeq DEF LastSeesAll
<1>2. y = [i \in 1 .. m |-> row(i)]
  BY <1>1 DEF AttendTo, LastSeesAll
<1>3. row(m).saw = sees(m)
  OBVIOUS
<1> HIDE DEF row
<1>4. y[m].saw = sees(m)
  BY <1>2, <1>3
<1>5. seen(m) = FromTo(keys, 0, n - 1)
  BY VisitsInterval DEF LastSeesAll
<1>6. DOMAIN seen(m) = 1 .. n /\ \A k \in 1 .. n : seen(m)[k] = keys[k]
  BY <1>5 DEF FromTo
<1> HIDE DEF seen
<1>7. DOMAIN sees(m) = 1 .. n /\ \A k \in 1 .. n : sees(m)[k] = <<positions[m] - seen(m)[k].pos, seen(m)[k].row>>
  BY <1>6
<1> HIDE DEF sees
<1>8. ASSUME NEW k \in 1 .. n PROVE sees(m)[k][2] = keys[k].row
  BY <1>6, <1>7
<1> QED
  BY <1>4, <1>7, <1>8 DEF LastSaw

\* The CPU engines on a cache that is full, or has been: what the last row saw are the tokens held
\* then, the newest KVCTX ones.
SlidBy(h, n, c, m) ==
    LET keep == KeptOf(n, m)
        last == h.rows[m]
    IN  /\ h.len = [l \in Layer |-> keep + m]
        /\ h.slots = [l \in Layer |-> h.slots[l]] /\ \A l \in Layer : IsList(h.slots[l], KVCTX)
        /\ Traced(h.slots, keep + m)
        /\ \A i \in 1 .. keep : h.slots[1][i] = slots[1][i + (n - keep)]
        /\ \A i \in 1 .. m : h.slots[1][keep + i].pos = n + i - 1 /\ h.slots[1][keep + i].row = c[i]
        /\ IsList(h.rows, m)
        /\ DOMAIN last.saw = 1 .. keep + m
        /\ \A k \in 1 .. keep + m : Kv!BaseBelow(last.saw[k][2]) = h.slots[1][k].row

\* A cached pass that slides keeps the last tokens, and its last row sees them all.
LEMMA LlamaSlides ==
    ASSUME NEW n \in Nat, n <= KVCTX, seqLen = [l \in Layer |-> n], Traced(slots, n),
           NEW c, NEW m \in Nat \ {0}, m <= KVCTX, IsList(c, m)
    PROVE  SlidBy(LlamaHidden(c, TRUE), n, c, m)
<1> DEFINE h == LlamaHidden(c, TRUE)
           keep == KeptOf(n, m)
<1>1. LAYERS \in Nat /\ 1 \in Layer /\ LAYERS \in Layer /\ keep \in 0 .. n /\ keep + m \in Nat \ {0}
      /\ \A l \in Layer : l \in Nat \ {0} /\ l - 1 \in 0 .. LAYERS /\ l \in 0 .. LAYERS
  <2>1. KVCTX \in Nat /\ m \in Nat
    BY EngineAssumption
  <2>2. keep \in 0 .. n
    BY <2>1, KeptIs
  <2> HIDE DEF keep
  <2> QED
    BY <2>2, EngineAssumption DEF Layer
<1>2. PICK X, keys : LlamaPass(h, X, keys, c, n, m)
  BY LlamaPasses
<1> HIDE DEF h
<1>3. /\ X[0] = c /\ h.rows = X[LAYERS]
      /\ h.len = [l \in Layer |-> keep + m]
      /\ h.slots = [l \in Layer |-> h.slots[l]]
  BY <1>2 DEF LlamaPass
<1>4. ASSUME NEW l \in Layer
      PROVE  /\ X[l] = AttendTo(X[l - 1], Positions(n, m), keys[l], CausalMask(m, keep + m))
             /\ IsList(h.slots[l], KVCTX) /\ IsList(keys[l], keep + m)
             /\ \A i \in 1 .. keep + m : keys[l][i] = h.slots[l][i]
             /\ \A i \in 1 .. keep : h.slots[l][i] = slots[l][i + (n - keep)]
             /\ \A i \in 1 .. m : h.slots[l][keep + i].pos = n + i - 1 /\ h.slots[l][keep + i].row = X[l - 1][i]
  BY <1>2 DEF LlamaPass
<1> HIDE DEF keep
<1>5. /\ \A l \in 0 .. LAYERS : IsList(X[l], m)
      /\ \A l \in Layer, i \in 1 .. m : X[l][i].res = X[l - 1][i]
  <2> DEFINE mask == [l \in Layer |-> CausalMask(m, keep + m)]
             pos == Positions(n, m)
  <2>1. \A l \in Layer : X[l] = AttendTo(X[l - 1], pos, keys[l], mask[l])
    BY <1>4
  <2>2. IsList(X[0], m)
    BY <1>3
  <2> HIDE DEF mask, pos
  <2>3. m \in Nat /\ AttentionTakes(X, m, pos, keys, mask)
    BY <2>1, <2>2 DEF AttentionTakes
  <2> QED
    BY <2>3, RowsThroughLayers
<1>6. ASSUME NEW i \in 1 .. m PROVE \A l \in 0 .. LAYERS : Comes(X[l][i], l, c[i])
  <2> DEFINE P == {l \in 0 .. LAYERS : Comes(X[l][i], l, c[i])}
  <2>1. 0 \in P
    BY <1>1, <1>3, TokenComes
  <2>2. ASSUME NEW l \in 1 .. LAYERS, l - 1 \in P PROVE l \in P
    <3>1. l \in Layer /\ l \in Nat \ {0}
      BY DEF Layer
    <3>2. X[l][i].res = X[l - 1][i] /\ Comes(X[l - 1][i], l - 1, c[i])
      BY <1>5, <2>2, <3>1
    <3>3. Comes(X[l][i], l, c[i])
      BY <3>1, <3>2, ComesOneLayerOn
    <3> QED
      BY <3>3
  <2> HIDE DEF P
  <2>3. 0 .. LAYERS \subseteq P
    BY <1>1, <2>1, <2>2, FromLayerToLayer
  <2> QED
    BY <2>3 DEF P
<1>7. \A i \in 1 .. m : h.slots[1][keep + i].pos = n + i - 1 /\ h.slots[1][keep + i].row = c[i]
  BY <1>1, <1>3, <1>4
<1>8. ASSUME NEW l \in Layer, NEW i \in 1 .. keep + m PROVE Comes(h.slots[l][i].row, l - 1, h.slots[1][i].row)
  <2>1. CASE i <= keep
    <3>1. i \in 1 .. keep /\ i + (n - keep) \in 1 .. n
      BY <1>1, <2>1
    <3>2. h.slots[l][i] = slots[l][i + (n - keep)] /\ h.slots[1][i] = slots[1][i + (n - keep)]
      BY <1>1, <1>4, <3>1
    <3> QED
      BY <3>1, <3>2 DEF Traced
  <2>2. CASE ~(i <= keep)
    <3>1. i - keep \in 1 .. m /\ keep + (i - keep) = i
      BY <1>1, <2>2
    <3>2. h.slots[l][keep + (i - keep)].row = X[l - 1][i - keep]
      BY <1>4, <3>1
    <3>3. h.slots[1][keep + (i - keep)].row = c[i - keep]
      BY <1>7, <3>1
    <3>4. Comes(X[l - 1][i - keep], l - 1, c[i - keep])
      BY <1>1, <1>6, <3>1
    <3> QED
      BY <3>1, <3>2, <3>3, <3>4
  <2> QED
    BY <2>1, <2>2
<1>9. Traced(h.slots, keep + m)
  BY <1>8 DEF Traced
<1>10. DOMAIN h.rows[m].saw = 1 .. keep + m /\ \A k \in 1 .. keep + m : h.rows[m].saw[k][2] = keys[LAYERS][k].row
  <2> DEFINE x == X[LAYERS - 1]
             ks == keys[LAYERS]
             y == X[LAYERS]
             mask == CausalMask(m, keep + m)
             pos == Positions(n, m)
             t == keep + m
  <2>0. h.rows = y
    BY <1>3
  <2>1. IsList(x, m) /\ y = AttendTo(x, pos, ks, mask)
    BY <1>1, <1>3, <1>4, <1>5
  <2>2. mask[m - 1] = 0 .. keep + m - 1
    <3>1. keep \in Nat /\ m \in Nat /\ m \in 1 .. m
      BY <1>1
    <3> QED
      BY ONLY <3>1, CausalMaskOf
  <2>3. t \in Nat \ {0} /\ LastSeesAll(x, m, pos, ks, t, mask, y)
    BY <1>1, <2>1, <2>2 DEF LastSeesAll
  <2> HIDE DEF x, ks, y, mask, pos, t
  <2>4. DOMAIN y[m].saw = 1 .. t /\ \A k \in 1 .. t : y[m].saw[k][2] = ks[k].row
    <3>1. LastSaw(y, m, ks, t)
      BY <2>3, LastRowSaw
    <3> QED
      BY <3>1 DEF LastSaw
  <2> QED
    BY <2>0, <2>4 DEF ks, t
<1>11. ASSUME NEW k \in 1 .. keep + m PROVE Kv!BaseBelow(h.rows[m].saw[k][2]) = h.slots[1][k].row
  <2>1. h.rows[m].saw[k][2] = h.slots[LAYERS][k].row
    BY <1>1, <1>4, <1>10
  <2>2. Comes(h.slots[LAYERS][k].row, LAYERS - 1, h.slots[1][k].row)
    BY <1>1, <1>8
  <2> QED
    BY <2>1, <2>2, BaseBelowIs
<1>12. IsList(h.rows, m)
  BY <1>1, <1>3, <1>5
<1>13. \A i \in 1 .. keep : h.slots[1][i] = slots[1][i + (n - keep)]
  BY <1>1, <1>4
<1>14. \A l \in Layer : IsList(h.slots[l], KVCTX)
  BY <1>4
<1>15. SlidBy(h, n, c, m)
  BY <1>3, <1>7, <1>9, <1>10, <1>11, <1>12, <1>13, <1>14 DEF SlidBy, keep
<1> QED
  BY <1>15 DEF h

-----------------------------------------------------------------------------
(* Gemma 3.                                                                *)

GemmaSliding == {l \in Layer : l % PATTERN # 0}
GemmaOld(drop) == [l \in Layer |-> IF drop THEN << >> ELSE slots[l]]
GemmaMask(l, q, k) == IF l % PATTERN = 0 THEN CausalMask(q, k) ELSE SlidingCausalMask(q, k)

\* Every layer of Gemma 3 sees what one pass over all would.
LEMMA GemmaMaskInContext ==
    ASSUME NEW l \in Layer, NEW n \in Nat, NEW m \in Nat, NEW i \in 1 .. m
    PROVE  GemmaMask(l, m, n + m)[i - 1] = FirstSeen(GemmaSliding, l, n + i) - 1 .. n + i - 1
<1>1. CASE l % PATTERN = 0
  <2>1. l \notin GemmaSliding
    BY <1>1 DEF GemmaSliding
  <2>2. GemmaMask(l, m, n + m) = CausalMask(m, n + m)
    BY <1>1 DEF GemmaMask
  <2>3. CausalMask(m, n + m)[i - 1] = FirstSeen(GemmaSliding, l, n + i) - 1 .. n + i - 1
    BY <2>1, CausalInContext
  <2> QED
    BY <2>2, <2>3
<1>2. CASE ~(l % PATTERN = 0)
  <2>1. l \in GemmaSliding
    BY <1>2 DEF GemmaSliding
  <2>2. GemmaMask(l, m, n + m) = SlidingCausalMask(m, n + m)
    BY <1>2 DEF GemmaMask
  <2>3. SlidingCausalMask(m, n + m)[i - 1] = FirstSeen(GemmaSliding, l, n + i) - 1 .. n + i - 1
    BY <2>1, SlidingMaskOf
  <2> QED
    BY <2>2, <2>3
<1> QED
  BY <1>1, <1>2

\* One layer of Gemma 3.
LEMMA GemmaLayerIs ==
    ASSUME NEW x, NEW drop, NEW positions, NEW l, NEW k, k = GemmaKeys(x, drop, positions, l)
    PROVE  GemmaLayer(x, drop, positions, l) = AttendTo(x, positions, k, GemmaMask(l, Len(x), Len(k)))
  BY DEF GemmaLayer, GemmaMask, Attend

GemmaPass(h, X, keys, c, drop, n, m, useCache) ==
    /\ X[0] = c /\ h.rows = X[LAYERS]
    /\ h.len = [l \in Layer |-> IF useCache THEN n + m ELSE 0]
    /\ h.slots = [l \in Layer |-> IF useCache THEN keys[l] ELSE GemmaOld(drop)[l]]
    /\ \A l \in Layer :
           /\ keys[l] = GemmaOld(drop)[l] \o Keys(X[l - 1], Positions(n, m))
           /\ X[l] = AttendTo(X[l - 1], Positions(n, m), keys[l], GemmaMask(l, Len(X[l - 1]), Len(keys[l])))

\* Every layer of a pass of Gemma 3.
LEMMA GemmaPasses ==
    ASSUME NEW c, NEW useCache, NEW m, Len(c) = m
    PROVE  \E X, keys : GemmaPass(GemmaHidden(c, useCache), X, keys, c, GemmaDrops(c, useCache), GemmaStart(c, useCache), m, useCache)
<1> DEFINE drop == GemmaDrops(c, useCache)
           n == GemmaStart(c, useCache)
           pos == Positions(n, Len(c))
           at == CHOOSE at : IsGemma(at, c, drop, pos)
           h == GemmaHidden(c, useCache)
           keys == [l \in Layer |-> GemmaKeys(at[l - 1], drop, pos, l)]
<1>1. LAYERS \in Nat /\ \A l \in Layer : l \in 0 .. LAYERS /\ l # 0
  BY EngineAssumption DEF Layer
<1>2. h = [rows |-> at[LAYERS],
           slots |-> [l \in Layer |-> IF useCache THEN GemmaKeys(at[l - 1], drop, pos, l) ELSE IF drop THEN <<>> ELSE slots[l]],
           len |-> [l \in Layer |-> IF useCache THEN n + Len(c) ELSE 0]]
  BY GemmaHiddenIs
<1>3. IsGemma(at, c, drop, pos)
  BY GemmaExists
<1> HIDE DEF at, h, pos, n, drop
<1>4. at[0] = c /\ \A l \in Layer : at[l] = GemmaLayer(at[l - 1], drop, pos, l)
  BY <1>1, <1>3 DEF IsGemma
<1>5. \A l \in Layer : keys[l] = GemmaOld(drop)[l] \o Keys(at[l - 1], pos)
  BY DEF GemmaKeys, GemmaOld
<1>6. ASSUME NEW l \in Layer PROVE at[l] = AttendTo(at[l - 1], pos, keys[l], GemmaMask(l, Len(at[l - 1]), Len(keys[l])))
  <2> DEFINE k == keys[l]
  <2>1. k = GemmaKeys(at[l - 1], drop, pos, l)
    OBVIOUS
  <2> HIDE DEF k
  <2>2. at[l] = AttendTo(at[l - 1], pos, k, GemmaMask(l, Len(at[l - 1]), Len(k)))
    BY <1>4, <2>1, GemmaLayerIs
  <2> QED
    BY <2>2 DEF k
<1>7. h.slots = [l \in Layer |-> IF useCache THEN keys[l] ELSE GemmaOld(drop)[l]]
  BY <1>2 DEF GemmaOld
<1>8. h.rows = at[LAYERS] /\ h.len = [l \in Layer |-> IF useCache THEN n + m ELSE 0]
  BY <1>2
<1> HIDE DEF keys
<1>9. GemmaPass(h, at, keys, c, drop, n, m, useCache)
  BY <1>4, <1>5, <1>6, <1>7, <1>8 DEF GemmaPass, pos
<1> QED
  BY <1>9 DEF h, drop, n

\* Keys appended to the keys of toks.
LEMMA AppendedInContext ==
    ASSUME NEW S, NEW toks, NEW n \in Nat, NEW l \in Layer, NEW old, IsList(old, n),
           KeysAre(old, n, RowsOver(S, toks)[l - 1]),
           NEW m \in Nat, NEW x, IsList(x, m), NEW keys, keys = old \o Keys(x, Positions(n, m)),
           NEW mask, \A i \in 1 .. m : mask[i - 1] = FirstSeen(S, l, n + i) - 1 .. n + i - 1
    PROVE  InContext(S, toks, n, m, keys, x, mask, l) /\ IsList(keys, n + m)
<1> DEFINE new == Keys(x, Positions(n, m))
<1>1. \A i \in 1 .. m : Positions(n, m)[i] = n + i - 1
  BY PositionsAre
<1>2. IsList(new, m) /\ \A i \in 1 .. m : new[i].pos = n + i - 1 /\ new[i].row = x[i]
  BY <1>1, LiteralKeysAre
<1> HIDE DEF new
<1>3. AsJoined(keys, old, n, new, m)
  <2>1. IsList(new, m) /\ keys = old \o new
    BY <1>2 DEF new
  <2> QED
    BY <2>1, Joined
<1>4. /\ IsList(keys, n + m)
      /\ \A i \in 1 .. n : keys[i] = old[i]
      /\ \A i \in 1 .. m : keys[n + i] = new[i]
  BY <1>3 DEF AsJoined
<1>5. KeysAre(keys, n, RowsOver(S, toks)[l - 1])
  BY <1>4 DEF KeysAre
<1>6. \A i \in 1 .. m : keys[n + i].pos = n + i - 1 /\ keys[n + i].row = x[i]
  BY <1>2, <1>4
<1> QED
  BY <1>4, <1>5, <1>6 DEF InContext

\* What a pass needs of the caches, and what it gives.
GemmaReady(c, useCache, n, toks) ==
    /\ n = GemmaStart(c, useCache)
    /\ HoldsRows(GemmaSliding, GemmaOld(GemmaDrops(c, useCache)), n, toks)
    /\ \A l \in Layer : IsList(GemmaOld(GemmaDrops(c, useCache))[l], n)

GemmaGives(h, c, useCache, n, m, toks) ==
    /\ h.len = [l \in Layer |-> IF useCache THEN n + m ELSE 0]
    /\ h.slots = [l \in Layer |-> h.slots[l]]
    /\ After(RowsOver(GemmaSliding, toks \o c)[LAYERS], n, m, h.rows)
    /\ useCache => /\ \A l \in Layer : IsList(h.slots[l], n + m)
                   /\ HoldsRows(GemmaSliding, h.slots, n + m, toks \o c)
    /\ ~useCache => h.slots = GemmaOld(GemmaDrops(c, useCache))

\* Gemma 3 answers in the context of what it kept.
LEMMA GemmaExtends ==
    ASSUME NEW c, NEW useCache, NEW n \in Nat, NEW m \in Nat, IsList(c, m), NEW toks, GemmaReady(c, useCache, n, toks)
    PROVE  GemmaGives(GemmaHidden(c, useCache), c, useCache, n, m, toks)
<1> DEFINE h == GemmaHidden(c, useCache)
           drop == GemmaDrops(c, useCache)
           old == GemmaOld(drop)
           pos == Positions(n, m)
           S == GemmaSliding
<1>1. Len(c) = m /\ n = GemmaStart(c, useCache)
  BY ListIsSeq DEF GemmaReady
<1>2. PICK X, keys : GemmaPass(h, X, keys, c, drop, n, m, useCache)
  BY <1>1, GemmaPasses
<1> DEFINE mask == [l \in Layer |-> GemmaMask(l, Len(X[l - 1]), Len(keys[l]))]
<1> HIDE DEF h, drop
<1>3. /\ X[0] = c /\ h.rows = X[LAYERS]
      /\ h.len = [l \in Layer |-> IF useCache THEN n + m ELSE 0]
      /\ h.slots = [l \in Layer |-> IF useCache THEN keys[l] ELSE old[l]]
  BY <1>2 DEF GemmaPass
<1>4. ASSUME NEW l \in Layer
      PROVE  keys[l] = old[l] \o Keys(X[l - 1], pos) /\ X[l] = AttendTo(X[l - 1], pos, keys[l], mask[l])
  BY <1>2 DEF GemmaPass
<1>o. old = [l \in Layer |-> old[l]]
  BY DEF GemmaOld
<1>h. IsList(toks, n) /\ \A l \in Layer : IsList(old[l], n) /\ KeysAre(old[l], n, RowsOver(S, toks)[l - 1])
  BY DEF GemmaReady, HoldsRows, drop
<1> HIDE DEF pos, old, S
<1>5. ASSUME NEW l \in Layer, IsList(X[l - 1], m)
      PROVE  InContext(S, toks, n, m, keys[l], X[l - 1], mask[l], l) /\ IsList(keys[l], n + m)
  <2> DEFINE x == X[l - 1]
             o == old[l]
             k == keys[l]
             q == mask[l]
  <2>1. IsList(x, m) /\ IsList(o, n) /\ KeysAre(o, n, RowsOver(S, toks)[l - 1])
    BY <1>5, <1>h
  <2>2. k = o \o Keys(x, pos) /\ q = GemmaMask(l, Len(x), Len(k))
    BY <1>4
  <2> HIDE DEF x, o, k, q
  <2>3. IsList(Keys(x, pos), m)
    BY <2>1, LiteralKeysAre
  <2>4. IsList(k, n + m)
    BY <2>1, <2>2, <2>3, Joined DEF AsJoined
  <2>5. Len(x) = m /\ Len(k) = n + m
    BY <2>1, <2>4, ListIsSeq
  <2>6. \A i \in 1 .. m : q[i - 1] = FirstSeen(S, l, n + i) - 1 .. n + i - 1
    BY <2>2, <2>5, GemmaMaskInContext, SMTT(30) DEF S
  <2>7. InContext(S, toks, n, m, k, x, q, l)
    BY <2>1, <2>2, <2>6, AppendedInContext DEF pos
  <2> QED
    BY <2>4, <2>7 DEF k, x, q
<1>6. IsList(c, m) /\ IsList(X[0], m)
  BY <1>3
<1>7. PassOver(S, toks, n, c, m, X, keys, mask)
  <2>1. \A l \in Layer : X[l] = AttendTo(X[l - 1], pos, keys[l], mask[l])
    BY <1>4
  <2>2. \A l \in Layer : IsList(X[l - 1], m) => InContext(S, toks, n, m, keys[l], X[l - 1], mask[l], l)
    BY <1>5
  <2> HIDE DEF mask
  <2> QED
    BY <1>3, <1>6, <1>h, <2>1, <2>2 DEF PassOver, pos
<1> HIDE DEF mask
<1>8. \A l \in 0 .. LAYERS : IsList(X[l], m)
  <2>1. \A l \in Layer : X[l] = AttendTo(X[l - 1], pos, keys[l], mask[l])
    BY <1>4
  <2>2. AttentionTakes(X, m, pos, keys, mask)
    BY <1>6, <2>1 DEF AttentionTakes
  <2> QED
    BY <2>2, RowsThroughLayers
<1>9. \A l \in Layer : IsList(keys[l], n + m)
  <2>1. \A l \in Layer : l - 1 \in 0 .. LAYERS
    BY EngineAssumption DEF Layer
  <2> QED
    BY <1>5, <1>8, <2>1
<1>10. Extended(S, keys, X[LAYERS], toks, n, c, m)
  <2>1. \A l \in Layer : \A i \in 1 .. n + m : keys[l][i] = keys[l][i]
    OBVIOUS
  <2> QED
    BY <1>7, <2>1, AttentionExtends
<1>11. h.slots = [l \in Layer |-> h.slots[l]]
  BY <1>3
<1>12. After(RowsOver(S, toks \o c)[LAYERS], n, m, h.rows)
  BY <1>3, <1>10 DEF Extended
<1>13. ASSUME useCache
       PROVE  /\ \A l \in Layer : IsList(h.slots[l], n + m)
              /\ HoldsRows(S, h.slots, n + m, toks \o c)
  <2>1. \A l \in Layer : h.slots[l] = keys[l]
    BY <1>3, <1>13
  <2> QED
    BY <1>9, <1>10, <2>1 DEF Extended, HoldsRows
<1>14. ASSUME ~useCache PROVE h.slots = old
  BY <1>3, <1>14, <1>o
<1> QED
  BY <1>3, <1>11, <1>12, <1>13, <1>14 DEF GemmaGives, h, drop, old, S

-----------------------------------------------------------------------------
(* The Metal graph.                                                        *)

MlxOld(caches, useCache) == [l \in Layer |-> IF useCache THEN caches[l] ELSE << >>]
MlxExt(x, cache, offset, useCache) ==
    IF useCache THEN cache \o Keys(x, Positions(offset, Len(x))) ELSE Keys(x, Positions(offset, Len(x)))
MlxMask(q, k) == IF q > 1 THEN CausalMask(q, k) ELSE [qi \in {0} |-> 0 .. k - 1]

\* Nothing joined with a list is the list.
LEMMA EmptyJoined ==
    ASSUME NEW c, NEW m \in Nat, IsList(c, m)
    PROVE  << >> \o c = c
<1> DEFINE e == << >>
           u == e \o c
<1>1. IsList(e, 0) /\ 0 \in Nat
  BY DEF IsList
<1> HIDE DEF e
<1>2. AsJoined(u, e, 0, c, m)
  BY <1>1, Joined
<1> HIDE DEF u
<1>3. 0 + m = m /\ \A i \in 1 .. m : 0 + i = i
  OBVIOUS
<1>4. IsList(u, m) /\ \A i \in 1 .. m : u[i] = c[i]
  BY <1>2, <1>3 DEF AsJoined
<1>5. u = c
  BY <1>4, ListsEqual
<1> QED
  BY <1>5 DEF u, e

\* Every layer of the Metal graph sees all keys up to its own.
LEMMA MlxMaskInContext ==
    ASSUME NEW l, NEW n \in Nat, NEW m \in Nat \ {0}, NEW i \in 1 .. m
    PROVE  MlxMask(m, n + m)[i - 1] = FirstSeen({}, l, n + i) - 1 .. n + i - 1
<1>1. CASE m > 1
  <2>1. MlxMask(m, n + m) = CausalMask(m, n + m)
    BY <1>1 DEF MlxMask
  <2> DEFINE S == {}
  <2>2. l \notin S /\ m \in Nat
    OBVIOUS
  <2> HIDE DEF S
  <2>3. \A k \in 1 .. m : CausalMask(m, n + m)[k - 1] = FirstSeen(S, l, n + k) - 1 .. n + k - 1
    BY ONLY <2>2, n \in Nat, CausalInContext
  <2> QED
    BY <2>1, <2>3 DEF S
<1>2. CASE ~(m > 1)
  <2>1. m = 1 /\ i = 1
    BY <1>2
  <2>2. MlxMask(m, n + m) = [qi \in {0} |-> 0 .. n + m - 1]
    BY <1>2 DEF MlxMask
  <2>3. MlxMask(m, n + m)[i - 1] = 0 .. n + i - 1
    BY <2>1, <2>2
  <2>4. FirstSeen({}, l, n + i) = 1
    BY DEF FirstSeen
  <2> QED
    BY <2>3, <2>4
<1> QED
  BY <1>1, <1>2

\* One layer of the Metal graph.
LEMMA MlxLayerIs ==
    ASSUME NEW x, NEW cache, NEW offset, NEW useCache, NEW e, e = MlxExt(x, cache, offset, useCache),
           NEW y, y = MlxLayer(x, cache, offset, useCache)
    PROVE  /\ y.x = AttendTo(x, Positions(offset, Len(x)), e, MlxMask(Len(x), Len(e)))
           /\ y.cache = IF useCache THEN e ELSE cache
<1> DEFINE A == AttendTo(x, Positions(offset, Len(x)), e, MlxMask(Len(x), Len(e)))
           C == IF useCache THEN e ELSE cache
<1>1. y = [x |-> A, cache |-> C]
  BY DEF MlxLayer, MlxExt, MlxMask
<1> HIDE DEF A, C
<1>2. y.x = A /\ y.cache = C
  BY ONLY <1>1
<1> QED
  BY <1>2 DEF A, C

MlxPassed(h, X, exts, c, caches, offset, useCache) ==
    /\ X[0] = c /\ h.rows = X[LAYERS]
    /\ h.slots = [l \in Layer |-> IF useCache THEN exts[l] ELSE caches[l]]
    /\ \A l \in Layer :
           /\ exts[l] = MlxExt(X[l - 1], caches[l], offset, useCache)
           /\ X[l] = AttendTo(X[l - 1], Positions(offset, Len(X[l - 1])), exts[l], MlxMask(Len(X[l - 1]), Len(exts[l])))

\* Every layer of a pass of the Metal graph.
LEMMA MlxPasses ==
    ASSUME NEW c, NEW caches, NEW offset, NEW useCache
    PROVE  \E X, exts : MlxPassed(MlxPass(c, caches, offset, useCache), X, exts, c, caches, offset, useCache)
<1> DEFINE at == CHOOSE at : IsMlx(at, c, caches, offset, useCache)
           h == MlxPass(c, caches, offset, useCache)
           X == [l \in 0 .. LAYERS |-> at[l].x]
           exts == [l \in Layer |-> MlxExt(at[l - 1].x, caches[l], offset, useCache)]
<1>1. LAYERS \in 0 .. LAYERS /\ 0 \in 0 .. LAYERS /\ \A l \in Layer : l \in 0 .. LAYERS /\ l - 1 \in 0 .. LAYERS /\ l # 0
  BY EngineAssumption DEF Layer
<1>2. h = [rows |-> at[LAYERS].x, slots |-> [l \in Layer |-> at[l].cache]]
  BY MlxPassIs
<1>3. IsMlx(at, c, caches, offset, useCache)
  BY MlxExists
<1> HIDE DEF at, h
<1>4. at[0] = [x |-> c] /\ \A l \in Layer : at[l] = MlxLayer(at[l - 1].x, caches[l], offset, useCache)
  BY <1>1, <1>3 DEF IsMlx
<1>5. ASSUME NEW l \in Layer
      PROVE  /\ exts[l] = MlxExt(X[l - 1], caches[l], offset, useCache)
             /\ X[l] = AttendTo(X[l - 1], Positions(offset, Len(X[l - 1])), exts[l], MlxMask(Len(X[l - 1]), Len(exts[l])))
             /\ at[l].cache = IF useCache THEN exts[l] ELSE caches[l]
  <2> DEFINE x == at[l - 1].x
             e == exts[l]
             y == at[l]
             k == caches[l]
  <2>1. e = MlxExt(x, k, offset, useCache) /\ y = MlxLayer(x, k, offset, useCache)
    BY <1>4
  <2>2. X[l - 1] = x /\ X[l] = y.x
    BY <1>1
  <2> HIDE DEF x, e, y, X, exts, k
  <2>3. /\ y.x = AttendTo(x, Positions(offset, Len(x)), e, MlxMask(Len(x), Len(e)))
        /\ y.cache = IF useCache THEN e ELSE k
    BY <2>1, MlxLayerIs
  <2> QED
    BY <2>1, <2>2, <2>3 DEF e, y, k
<1>6. X[0] = c /\ h.rows = X[LAYERS]
  BY <1>1, <1>2, <1>4
<1> HIDE DEF X, exts
<1>7. h.slots = [l \in Layer |-> IF useCache THEN exts[l] ELSE caches[l]]
  BY <1>2, <1>5
<1>8. MlxPassed(h, X, exts, c, caches, offset, useCache)
  BY <1>5, <1>6, <1>7 DEF MlxPassed
<1> QED
  BY <1>8 DEF h

\* Rows that keep their number on every layer have it on all.
LEMMA ListsThroughLayers ==
    ASSUME NEW m \in Nat, NEW X, IsList(X[0], m), \A l \in Layer : IsList(X[l - 1], m) => IsList(X[l], m)
    PROVE  \A l \in 0 .. LAYERS : IsList(X[l], m)
<1> DEFINE P == {l \in 0 .. LAYERS : IsList(X[l], m)}
<1>1. LAYERS \in Nat /\ 0 \in P
  BY EngineAssumption
<1>2. ASSUME NEW l \in 1 .. LAYERS, l - 1 \in P PROVE l \in P
  BY <1>2 DEF Layer
<1> HIDE DEF P
<1>3. 0 .. LAYERS \subseteq P
  BY <1>1, <1>2, FromLayerToLayer
<1> QED
  BY <1>3 DEF P

\* What a pass needs of the caches, and what it gives.
MlxReady(caches, useCache, n, toks) ==
    /\ HoldsRows({}, MlxOld(caches, useCache), n, toks)
    /\ \A l \in Layer : IsList(MlxOld(caches, useCache)[l], n)

MlxGives(h, c, caches, useCache, n, m, toks) ==
    /\ h.slots = [l \in Layer |-> h.slots[l]]
    /\ After(RowsOver({}, toks \o c)[LAYERS], n, m, h.rows)
    /\ useCache => /\ \A l \in Layer : IsList(h.slots[l], n + m)
                   /\ HoldsRows({}, h.slots, n + m, toks \o c)
    /\ ~useCache => \A l \in Layer : h.slots[l] = caches[l]

\* The Metal graph answers in the context of the caches it is given.
LEMMA MlxExtends ==
    ASSUME NEW c, NEW caches, NEW useCache, NEW n \in Nat, NEW m \in Nat \ {0}, IsList(c, m),
           NEW toks, MlxReady(caches, useCache, n, toks)
    PROVE  MlxGives(MlxPass(c, caches, n, useCache), c, caches, useCache, n, m, toks)
<1> DEFINE h == MlxPass(c, caches, n, useCache)
           old == MlxOld(caches, useCache)
           pos == Positions(n, m)
           S == {}
<1>1. PICK X, keys : MlxPassed(h, X, keys, c, caches, n, useCache)
  BY MlxPasses
<1> DEFINE mask == [l \in Layer |-> MlxMask(Len(X[l - 1]), Len(keys[l]))]
<1> HIDE DEF h
<1>2. /\ X[0] = c /\ h.rows = X[LAYERS]
      /\ h.slots = [l \in Layer |-> IF useCache THEN keys[l] ELSE caches[l]]
  BY <1>1 DEF MlxPassed
<1>3. ASSUME NEW l \in Layer
      PROVE  /\ keys[l] = MlxExt(X[l - 1], caches[l], n, useCache)
             /\ X[l] = AttendTo(X[l - 1], Positions(n, Len(X[l - 1])), keys[l], mask[l])
  BY <1>1 DEF MlxPassed
<1>o. \A l \in Layer : old[l] = IF useCache THEN caches[l] ELSE << >>
  BY DEF MlxOld
<1>h. IsList(toks, n) /\ \A l \in Layer : IsList(old[l], n) /\ KeysAre(old[l], n, RowsOver(S, toks)[l - 1])
  BY DEF MlxReady, HoldsRows
<1>m. m \in Nat
  OBVIOUS
<1> HIDE DEF pos, old, S
<1>4. ASSUME NEW l \in Layer, IsList(X[l - 1], m)
      PROVE  /\ InContext(S, toks, n, m, keys[l], X[l - 1], mask[l], l) /\ IsList(keys[l], n + m)
             /\ X[l] = AttendTo(X[l - 1], pos, keys[l], mask[l]) /\ IsList(X[l], m)
  <2> DEFINE x == X[l - 1]
             o == old[l]
             k == keys[l]
             q == mask[l]
             new == Keys(x, pos)
  <2>1. IsList(x, m) /\ IsList(o, n) /\ KeysAre(o, n, RowsOver(S, toks)[l - 1])
    BY <1>4, <1>h
  <2>2. k = MlxExt(x, caches[l], n, useCache) /\ q = MlxMask(Len(x), Len(k)) /\ X[l] = AttendTo(x, Positions(n, Len(x)), k, q)
    BY <1>3
  <2> HIDE DEF x, k, q
  <2>3. Len(x) = m
    BY <2>1, ListIsSeq
  <2>4. IsList(new, m)
    BY <1>m, <2>1, LiteralKeysAre
  <2>5. k = o \o new
    <3>1. CASE useCache
      BY <1>o, <2>2, <2>3, <3>1 DEF MlxExt, pos
    <3>2. CASE ~useCache
      <4>1. k = new /\ o = << >>
        BY <1>o, <2>2, <2>3, <3>2 DEF MlxExt, pos
      <4>2. << >> \o new = new
        BY <1>m, <2>4, EmptyJoined
      <4> QED
        BY <4>1, <4>2
    <3> QED
      BY <3>1, <3>2
  <2> HIDE DEF o
  <2>6. IsList(k, n + m)
    <3> HIDE DEF new
    <3> QED
      BY <1>m, <2>1, <2>4, <2>5, Joined DEF AsJoined
  <2>7. Len(k) = n + m
    BY <2>6, ListIsSeq
  <2>8. \A i \in 1 .. m : q[i - 1] = FirstSeen(S, l, n + i) - 1 .. n + i - 1
    <3>1. q = MlxMask(m, n + m)
      BY <2>2, <2>3, <2>7
    <3>2. ASSUME NEW i \in 1 .. m PROVE MlxMask(m, n + m)[i - 1] = FirstSeen({}, l, n + i) - 1 .. n + i - 1
      BY MlxMaskInContext
    <3> QED
      BY <3>1, <3>2 DEF S
  <2>9. InContext(S, toks, n, m, k, x, q, l)
    BY <1>m, <2>1, <2>5, <2>8, AppendedInContext DEF pos
  <2>10. X[l] = AttendTo(x, pos, k, q)
    BY <2>2, <2>3 DEF pos
  <2>11. IsList(X[l], m)
    BY <1>m, <2>1, <2>10, AttendToLists
  <2> QED
    BY <2>6, <2>9, <2>10, <2>11 DEF k, x, q
<1> HIDE DEF mask
<1>5. \A l \in 0 .. LAYERS : IsList(X[l], m)
  <2>1. IsList(X[0], m) /\ \A l \in Layer : IsList(X[l - 1], m) => IsList(X[l], m)
    BY <1>2, <1>4
  <2> QED
    BY <1>m, <2>1, ListsThroughLayers
<1>6. \A l \in Layer : IsList(X[l - 1], m)
  <2>1. \A l \in Layer : l - 1 \in 0 .. LAYERS
    BY EngineAssumption DEF Layer
  <2> QED
    BY <1>5, <2>1
<1>7. PassOver(S, toks, n, c, m, X, keys, mask)
  <2>1. \A l \in Layer : X[l] = AttendTo(X[l - 1], pos, keys[l], mask[l])
    BY <1>4, <1>6
  <2>2. \A l \in Layer : IsList(X[l - 1], m) => InContext(S, toks, n, m, keys[l], X[l - 1], mask[l], l)
    BY <1>4
  <2> QED
    BY <1>2, <1>h, <2>1, <2>2 DEF PassOver, pos
<1>8. \A l \in Layer : IsList(keys[l], n + m)
  BY <1>4, <1>6
<1>9. Extended(S, keys, X[LAYERS], toks, n, c, m)
  <2>1. \A l \in Layer : \A i \in 1 .. n + m : keys[l][i] = keys[l][i]
    OBVIOUS
  <2> QED
    BY <1>m, <1>7, <2>1, AttentionExtends
<1>10. h.slots = [l \in Layer |-> h.slots[l]]
  BY <1>2
<1>11. After(RowsOver(S, toks \o c)[LAYERS], n, m, h.rows)
  BY <1>2, <1>9 DEF Extended
<1>12. ASSUME useCache
       PROVE  /\ \A l \in Layer : IsList(h.slots[l], n + m)
              /\ HoldsRows(S, h.slots, n + m, toks \o c)
  <2>1. \A l \in Layer : h.slots[l] = keys[l]
    BY <1>2, <1>12
  <2> QED
    BY <1>8, <1>9, <2>1 DEF Extended, HoldsRows
<1>13. ASSUME ~useCache PROVE \A l \in Layer : h.slots[l] = caches[l]
  BY <1>2, <1>13
<1> QED
  BY <1>10, <1>11, <1>12, <1>13 DEF MlxGives, h, S

-----------------------------------------------------------------------------
(* The GPU engine.                                                         *)

\* One element is a list.
LEMMA OneIsList == \A x : IsList(<<x>>, 1) /\ <<x>>[1] = x
  BY DEF IsList

\* A list of one element is that element.
LEMMA ListOfOne ==
    ASSUME NEW s, IsList(s, 1)
    PROVE  s = <<s[1]>>
<1>1. IsList(<<s[1]>>, 1) /\ \A i \in 1 .. 1 : <<s[1]>>[i] = s[i]
  BY OneIsList
<1> QED
  BY <1>1, ListsEqual

\* The one key of a one-token pass.
LEMMA OneKey ==
    ASSUME NEW x, NEW n \in Nat
    PROVE  Positions(n, 1) = <<n>> /\ Keys(<<x>>, Positions(n, 1)) = <<[pos |-> n, row |-> x]>>
<1>1. Positions(n, 1) = <<n>>
  <2>1. IsList(Positions(n, 1), 1)
    BY DEF Positions, IsList
  <2>2. Positions(n, 1)[1] = n
    BY DEF Positions
  <2> QED
    BY <2>1, <2>2, ListOfOne
<1>2. DOMAIN <<x>> = 1 .. 1 /\ <<x>>[1] = x
  OBVIOUS
<1>3. Keys(<<x>>, Positions(n, 1)) = [i \in 1 .. 1 |-> [pos |-> Positions(n, 1)[i], row |-> <<x>>[i]]]
  BY <1>2 DEF Keys
<1> DEFINE ks == Keys(<<x>>, Positions(n, 1))
           k == [pos |-> n, row |-> x]
<1>4. ks[1] = k
  BY <1>1, <1>2, <1>3
<1>5. IsList(ks, 1)
  <2> DEFINE f(i) == [pos |-> Positions(n, 1)[i], row |-> <<x>>[i]]
  <2>1. ks = [i \in 1 .. 1 |-> f(i)]
    BY <1>3
  <2> HIDE DEF f, ks
  <2> QED
    BY <2>1 DEF IsList
<1> HIDE DEF ks, k
<1>6. ks = <<k>>
  BY <1>4, <1>5, ListOfOne
<1> QED
  BY <1>1, <1>6 DEF ks, k

\* Written at a position, the rest as it was.
AppendedAt(u, cache, cur, new, m) ==
    /\ IsList(u, KVCTX)
    /\ \A i \in 1 .. cur : u[i] = cache[i]
    /\ \A i \in 1 .. m : u[cur + i] = new[i]

\* kv_append leaves what is before the position and writes what follows.
LEMMA AppendAtIs ==
    ASSUME NEW cache, NEW cur \in Nat, NEW new, NEW m \in Nat, IsList(new, m), cur + m <= KVCTX
    PROVE  AppendedAt(KvAppendAt(cache, cur, new), cache, cur, new, m)
<1> DEFINE u == KvAppendAt(cache, cur, new)
           slot(i) == IF i > cur /\ i <= cur + m THEN new[i - cur] ELSE cache[i]
<1>1. KVCTX \in Nat /\ Len(new) = m
  BY EngineAssumption, ListIsSeq
<1>2. u = [i \in 1 .. KVCTX |-> slot(i)]
  BY <1>1 DEF KvAppendAt
<1>3. \A i \in 1 .. cur : i \in 1 .. KVCTX /\ slot(i) = cache[i]
  BY <1>1
<1>4. \A i \in 1 .. m : cur + i \in 1 .. KVCTX /\ slot(cur + i) = new[i]
  BY <1>1
<1> HIDE DEF slot, u
<1>5. IsList(u, KVCTX)
  BY <1>1, <1>2 DEF IsList
<1>6. AppendedAt(u, cache, cur, new, m)
  BY <1>2, <1>3, <1>4, <1>5 DEF AppendedAt
<1> QED
  BY <1>6 DEF u

\* Where the keys of layer l are when its rows are x.
WgpuPut(s, p, x, l) == KvAppendAt(s.slots[l], s.cur, Keys(x, Positions(s.cur, Len(p))))

WgpuPassed(w, X, s, p) ==
    /\ X[0] = p /\ w.rows = X[LAYERS] /\ w.cur = s.cur + Len(p)
    /\ \A l \in Layer : X[l] = WgpuMany(s, p, X[l - 1], l)
    /\ w.slots = [l \in Layer |-> WgpuPut(s, p, X[l - 1], l)]

\* Every layer of forward_chunk.
LEMMA ChunkPasses ==
    ASSUME NEW s, NEW p
    PROVE  \E X : WgpuPassed(WgpuChunk(s, p), X, s, p)
<1> DEFINE at == CHOOSE at : IsWgpuChunk(at, s, p)
           w == WgpuChunk(s, p)
<1>1. LAYERS \in 0 .. LAYERS /\ 0 \in 0 .. LAYERS /\ \A l \in Layer : l \in 0 .. LAYERS /\ l # 0
  BY EngineAssumption DEF Layer
<1>2. w = [rows |-> at[LAYERS],
           slots |-> [l \in Layer |-> KvAppendAt(s.slots[l], s.cur, Keys(at[l - 1], Positions(s.cur, Len(p))))],
           cur |-> s.cur + Len(p)]
  BY WgpuChunkIs
<1>3. IsWgpuChunk(at, s, p)
  BY WgpuChunkExists
<1> HIDE DEF at, w
<1>4. at[0] = p /\ \A l \in Layer : at[l] = WgpuMany(s, p, at[l - 1], l)
  BY <1>1, <1>3 DEF IsWgpuChunk
<1>5. w.rows = at[LAYERS] /\ w.cur = s.cur + Len(p) /\ w.slots = [l \in Layer |-> WgpuPut(s, p, at[l - 1], l)]
  BY <1>2 DEF WgpuPut
<1>6. WgpuPassed(w, at, s, p)
  BY <1>4, <1>5 DEF WgpuPassed
<1> QED
  BY <1>6 DEF w

\* A layer of forward_token is one of forward_chunk with one row.
LEMMA OneOfMany ==
    ASSUME NEW s, s.cur \in Nat, NEW p, Len(p) = 1, NEW x, NEW l
    PROVE  /\ WgpuMany(s, p, <<x>>, l) = <<WgpuOne(s, x, l)>>
           /\ KvAppendAt(s.slots[l], s.cur, <<[pos |-> s.cur, row |-> x]>>) = WgpuPut(s, p, <<x>>, l)
<1> DEFINE n == s.cur
           keys == SubSeq(KvAppendAt(s.slots[l], n, <<[pos |-> n, row |-> x]>>), 1, n + 1)
           many == WgpuMany(s, p, <<x>>, l)
<1>1. Positions(n, 1) = <<n>> /\ Keys(<<x>>, Positions(n, 1)) = <<[pos |-> n, row |-> x]>>
  BY OneKey
<1>2. many = Attend(<<x>>, <<n>>, keys)
  BY <1>1 DEF WgpuMany
<1>3. WgpuOne(s, x, l) = Attend(<<x>>, <<n>>, keys)[1]
  BY DEF WgpuOne
<1>4. KvAppendAt(s.slots[l], n, <<[pos |-> n, row |-> x]>>) = WgpuPut(s, p, <<x>>, l)
  BY <1>1 DEF WgpuPut
<1> HIDE DEF many, keys, n
<1>5. IsList(Attend(<<x>>, <<n>>, keys), 1)
  BY OneIsList, AttendToLists DEF Attend
<1>6. many = <<WgpuOne(s, x, l)>>
  BY <1>2, <1>3, <1>5, ListOfOne
<1> QED
  BY <1>4, <1>6 DEF many, n

\* Every layer of forward_token.
LEMMA TokenPasses ==
    ASSUME NEW s, s.cur \in Nat, NEW p, IsList(p, 1)
    PROVE  \E X : WgpuPassed(WgpuToken(s, p[1]), X, s, p)
<1> DEFINE tok == p[1]
           at == CHOOSE at : IsWgpuToken(at, s, tok)
           w == WgpuToken(s, tok)
           X == [l \in 0 .. LAYERS |-> <<at[l]>>]
<1>1. LAYERS \in 0 .. LAYERS /\ 0 \in 0 .. LAYERS /\ \A l \in Layer : l \in 0 .. LAYERS /\ l - 1 \in 0 .. LAYERS /\ l # 0
  BY EngineAssumption DEF Layer
<1>2. w = [rows |-> <<at[LAYERS]>>,
           slots |-> [l \in Layer |-> KvAppendAt(s.slots[l], s.cur, <<[pos |-> s.cur, row |-> at[l - 1]]>>)],
           cur |-> s.cur + 1]
  BY WgpuTokenIs
<1>3. IsWgpuToken(at, s, tok)
  BY WgpuTokenExists
<1>p. Len(p) = 1 /\ p = <<tok>>
  BY ListIsSeq, ListOfOne
<1> HIDE DEF at, w, tok
<1>4. at[0] = tok /\ \A l \in Layer : at[l] = WgpuOne(s, at[l - 1], l)
  BY <1>1, <1>3 DEF IsWgpuToken
<1>5. X[0] = p /\ \A l \in Layer : X[l] = <<at[l]>> /\ X[l - 1] = <<at[l - 1]>>
  BY <1>1, <1>4, <1>p
<1>6. w.rows = X[LAYERS] /\ w.cur = s.cur + Len(p)
  BY <1>1, <1>2, <1>p
<1> HIDE DEF X
<1>7. ASSUME NEW l \in Layer
      PROVE  /\ X[l] = WgpuMany(s, p, X[l - 1], l)
             /\ KvAppendAt(s.slots[l], s.cur, <<[pos |-> s.cur, row |-> at[l - 1]]>>) = WgpuPut(s, p, X[l - 1], l)
  <2> DEFINE x == at[l - 1]
  <2>1. /\ WgpuMany(s, p, <<x>>, l) = <<WgpuOne(s, x, l)>>
        /\ KvAppendAt(s.slots[l], s.cur, <<[pos |-> s.cur, row |-> x]>>) = WgpuPut(s, p, <<x>>, l)
    BY <1>p, OneOfMany
  <2> QED
    BY <1>4, <1>5, <2>1
<1>8. w.slots = [l \in Layer |-> WgpuPut(s, p, X[l - 1], l)]
  BY <1>2, <1>7
<1>9. WgpuPassed(w, X, s, p)
  BY <1>5, <1>6, <1>7, <1>8 DEF WgpuPassed
<1> QED
  BY <1>9 DEF w, tok

\* What a state of the GPU engine holds, and the rows it has answered so far: those of the first t
\* tokens of the chunk c, in the context of toks.
WgpuHolds(v, toks, n, c, t) ==
    /\ v.cur = n + t /\ n + t <= KVCTX
    /\ v.slots = [l \in Layer |-> v.slots[l]]
    /\ \A l \in Layer : IsList(v.slots[l], KVCTX)
    /\ Extended({}, v.slots, v.rows, toks, n, c, t)

\* One pass over the piece p.
LEMMA PieceExtends ==
    ASSUME NEW n \in Nat, NEW s, s.cur = n, NEW toks, HoldsRows({}, s.slots, n, toks),
           NEW m \in Nat \ {0}, NEW p, IsList(p, m), n + m <= KVCTX, \A l \in Layer : IsList(s.slots[l], KVCTX)
    PROVE  WgpuHolds(Pass(s, p), toks, n, p, m)
<1> DEFINE w == Pass(s, p)
           pos == Positions(n, m)
           S == {}
<1>1. Len(p) = m /\ m \in Nat
  BY ListIsSeq
<1>2. PICK X : WgpuPassed(w, X, s, p)
  <2>1. CASE m = 1
    <3>1. w = WgpuToken(s, p[1]) /\ IsList(p, 1) /\ s.cur \in Nat
      BY <1>1, <2>1 DEF Pass
    <3> QED
      BY <3>1, TokenPasses
  <2>2. CASE m # 1
    <3>1. w = WgpuChunk(s, p)
      BY <1>1, <2>2 DEF Pass
    <3> QED
      BY <3>1, ChunkPasses
  <2> QED
    BY <2>1, <2>2
<1> DEFINE keys == [l \in Layer |-> SubSeq(WgpuPut(s, p, X[l - 1], l), 1, n + m)]
           mask == [l \in Layer |-> CausalMask(Len(X[l - 1]), Len(keys[l]))]
<1> HIDE DEF w
<1>3. X[0] = p /\ w.rows = X[LAYERS] /\ w.cur = n + m /\ w.slots = [l \in Layer |-> WgpuPut(s, p, X[l - 1], l)]
  BY <1>1, <1>2 DEF WgpuPassed
<1>4. ASSUME NEW l \in Layer PROVE X[l] = AttendTo(X[l - 1], pos, keys[l], mask[l])
  <2> DEFINE x == X[l - 1]
             k == SubSeq(WgpuPut(s, p, x, l), 1, n + m)
  <2>1. X[l] = WgpuMany(s, p, x, l)
    BY <1>2 DEF WgpuPassed
  <2>2. WgpuMany(s, p, x, l) = Attend(x, pos, k)
    BY <1>1 DEF WgpuMany, WgpuPut
  <2>3. k = keys[l] /\ mask[l] = CausalMask(Len(x), Len(k))
    OBVIOUS
  <2> HIDE DEF x, k, keys, mask
  <2>4. X[l] = AttendTo(x, pos, k, CausalMask(Len(x), Len(k)))
    BY <2>1, <2>2 DEF Attend
  <2> QED
    BY <2>3, <2>4 DEF x
<1>h. IsList(toks, n) /\ \A l \in Layer : KeysAre(s.slots[l], n, RowsOver(S, toks)[l - 1])
  BY DEF HoldsRows
<1> HIDE DEF pos, S
<1>5. ASSUME NEW l \in Layer, IsList(X[l - 1], m)
      PROVE  /\ InContext(S, toks, n, m, keys[l], X[l - 1], mask[l], l)
             /\ IsList(w.slots[l], KVCTX)
             /\ \A i \in 1 .. n + m : w.slots[l][i] = keys[l][i]
  <2> DEFINE x == X[l - 1]
             u == WgpuPut(s, p, x, l)
             k == keys[l]
             q == mask[l]
             new == Keys(x, pos)
             o == s.slots[l]
  <2>1. IsList(x, m) /\ KeysAre(o, n, RowsOver(S, toks)[l - 1])
    BY <1>5, <1>h
  <2>2. k = SubSeq(u, 1, n + m) /\ q = CausalMask(Len(x), Len(k)) /\ w.slots[l] = u /\ u = KvAppendAt(o, n, new)
    BY <1>1, <1>3 DEF WgpuPut, pos
  <2> HIDE DEF x, u, k, q, o
  <2>3. IsList(new, m) /\ \A i \in 1 .. m : new[i].pos = pos[i] /\ new[i].row = x[i]
    BY <1>1, <2>1, LiteralKeysAre
  <2>4. \A i \in 1 .. m : pos[i] = n + i - 1
    BY <1>1, PositionsAre DEF pos
  <2> HIDE DEF new
  <2>5. AppendedAt(u, o, n, new, m)
    BY <1>1, <2>2, <2>3, AppendAtIs
  <2>6. IsList(k, n + m) /\ \A i \in 1 .. n + m : k[i] = u[i]
    <3>1. IsList(SubSeq(u, 1, n + m), n + m - 1 + 1) /\ \A i \in 1 .. n + m - 1 + 1 : SubSeq(u, 1, n + m)[i] = u[1 + i - 1]
      BY <1>1, PartOf
    <3>2. n + m - 1 + 1 = n + m /\ \A i \in 1 .. n + m : 1 + i - 1 = i
      BY <1>1
    <3> QED
      BY <2>2, <3>1, <3>2
  <2>7. Len(x) = m /\ Len(k) = n + m
    BY <2>1, <2>6, ListIsSeq
  <2>8. \A i \in 1 .. m : q[i - 1] = FirstSeen(S, l, n + i) - 1 .. n + i - 1
    <3>1. q = CausalMask(m, n + m) /\ l \notin S
      BY <2>2, <2>7 DEF S
    <3>2. \A i \in 1 .. m : CausalMask(m, n + m)[i - 1] = FirstSeen(S, l, n + i) - 1 .. n + i - 1
      BY <1>1, <3>1, CausalInContext
    <3> QED
      BY <3>1, <3>2
  <2>9. KeysAre(k, n, RowsOver(S, toks)[l - 1])
    <3>1. ASSUME NEW i \in 1 .. n PROVE k[i] = o[i]
      BY <1>1, <2>5, <2>6 DEF AppendedAt
    <3> QED
      BY <2>1, <3>1 DEF KeysAre
  <2>10. \A i \in 1 .. m : k[n + i].pos = n + i - 1 /\ k[n + i].row = x[i]
    <3>1. ASSUME NEW i \in 1 .. m PROVE k[n + i] = new[i]
      <4>1. n + i \in 1 .. n + m
        BY <1>1
      <4> QED
        BY <2>5, <2>6, <4>1 DEF AppendedAt
    <3> QED
      BY <2>3, <2>4, <3>1
  <2>11. InContext(S, toks, n, m, k, x, q, l)
    BY <2>8, <2>9, <2>10 DEF InContext
  <2>12. IsList(u, KVCTX)
    BY <2>5 DEF AppendedAt
  <2> QED
    BY <2>2, <2>6, <2>11, <2>12 DEF k, x, q
<1> HIDE DEF mask, keys
<1>6. \A l \in 0 .. LAYERS : IsList(X[l], m)
  <2>1. IsList(X[0], m)
    BY <1>3
  <2>2. ASSUME NEW l \in Layer, IsList(X[l - 1], m) PROVE IsList(X[l], m)
    BY <1>1, <1>4, <2>2, AttendToLists
  <2> QED
    BY <1>1, <2>1, <2>2, ListsThroughLayers
<1>7. \A l \in Layer : IsList(X[l - 1], m)
  <2>1. \A l \in Layer : l - 1 \in 0 .. LAYERS
    BY EngineAssumption DEF Layer
  <2> QED
    BY <1>6, <2>1
<1>8. PassOver(S, toks, n, p, m, X, keys, mask)
  <2>1. IsList(p, m)
    OBVIOUS
  <2> QED
    BY <1>3, <1>4, <1>5, <1>h, <2>1 DEF PassOver, pos
<1>9. Extended(S, w.slots, X[LAYERS], toks, n, p, m)
  <2>1. \A l \in Layer : \A i \in 1 .. n + m : w.slots[l][i] = keys[l][i]
    BY <1>5, <1>7
  <2> QED
    BY <1>1, <1>8, <2>1, AttentionExtends
<1>10. w.slots = [l \in Layer |-> w.slots[l]] /\ \A l \in Layer : IsList(w.slots[l], KVCTX)
  BY <1>3, <1>5, <1>7
<1>11. WgpuHolds(w, toks, n, p, m)
  BY <1>3, <1>9, <1>10 DEF WgpuHolds, S
<1> QED
  BY <1>11 DEF w

\* Joining is associative.
LEMMA JoinedTwice ==
    ASSUME NEW r, NEW n \in Nat, IsList(r, n), NEW s, NEW t \in Nat, IsList(s, t), NEW u, NEW m \in Nat, IsList(u, m)
    PROVE  (r \o s) \o u = r \o (s \o u)
<1> DEFINE A == r \o s
           B == A \o u
           D == s \o u
           E == r \o D
<1>1. n + t \in Nat /\ t + m \in Nat
  OBVIOUS
<1>2. AsJoined(A, r, n, s, t) /\ AsJoined(D, s, t, u, m)
  BY Joined
<1> HIDE DEF A, D
<1>3. AsJoined(B, A, n + t, u, m)
  <2>1. IsList(A, n + t)
    BY <1>2 DEF AsJoined
  <2> QED
    BY <1>1, <2>1, Joined
<1>4. AsJoined(E, r, n, D, t + m)
  <2>1. IsList(D, t + m)
    BY <1>2 DEF AsJoined
  <2> QED
    BY <1>1, <2>1, Joined
<1> HIDE DEF B, E
<1>5. IsList(B, n + t + m) /\ IsList(E, n + t + m)
  BY <1>3, <1>4 DEF AsJoined
<1>6. ASSUME NEW i \in 1 .. n + t + m PROVE B[i] = E[i]
  <2>1. CASE i <= n
    <3>1. i \in 1 .. n /\ i \in 1 .. n + t
      BY <2>1
    <3>2. B[i] = A[i] /\ A[i] = r[i] /\ E[i] = r[i]
      BY <1>2, <1>3, <1>4, <3>1 DEF AsJoined
    <3> QED
      BY <3>2
  <2>2. CASE i > n /\ i <= n + t
    <3>1. i - n \in 1 .. t /\ n + (i - n) = i /\ i \in 1 .. n + t /\ i - n \in 1 .. t + m
      BY <2>2
    <3>2. B[i] = A[i]
      BY <1>3, <3>1 DEF AsJoined
    <3>3. A[n + (i - n)] = s[i - n]
      BY <1>2, <3>1 DEF AsJoined
    <3>4. E[n + (i - n)] = D[i - n] /\ D[i - n] = s[i - n]
      BY <1>2, <1>4, <3>1 DEF AsJoined
    <3> QED
      BY <3>1, <3>2, <3>3, <3>4
  <2>3. CASE i > n + t
    <3>1. i - n - t \in 1 .. m /\ n + t + (i - n - t) = i /\ i - n \in 1 .. t + m /\ n + (i - n) = i /\ t + (i - n - t) = i - n
      BY <2>3
    <3>2. B[n + t + (i - n - t)] = u[i - n - t]
      BY <1>3, <3>1 DEF AsJoined
    <3>3. E[n + (i - n)] = D[i - n]
      BY <1>4, <3>1 DEF AsJoined
    <3>4. D[t + (i - n - t)] = u[i - n - t]
      BY <1>2, <3>1 DEF AsJoined
    <3> QED
      BY <3>1, <3>2, <3>3, <3>4
  <2> QED
    BY <2>1, <2>2, <2>3
<1>7. B = E
  <2>1. n + t + m \in Nat
    OBVIOUS
  <2> QED
    BY <1>5, <1>6, <2>1, ListsEqual
<1> QED
  BY <1>7 DEF A, B, D, E

\* A part and the part after it.
LEMMA PartsJoin ==
    ASSUME NEW c, NEW t \in Nat, NEW m \in Nat
    PROVE  SubSeq(c, 1, t) \o SubSeq(c, t + 1, t + m) = SubSeq(c, 1, t + m)
<1> DEFINE s == SubSeq(c, 1, t)
           u == SubSeq(c, t + 1, t + m)
           w == SubSeq(c, 1, t + m)
           v == s \o u
<1>1. IsList(s, t) /\ \A i \in 1 .. t : s[i] = c[i]
  <2>1. IsList(s, t - 1 + 1) /\ \A i \in 1 .. t - 1 + 1 : s[i] = c[1 + i - 1]
    BY PartOf
  <2>2. t - 1 + 1 = t /\ \A i \in 1 .. t : 1 + i - 1 = i
    OBVIOUS
  <2> HIDE DEF s
  <2> QED
    BY <2>1, <2>2
<1>2. IsList(u, m) /\ \A i \in 1 .. m : u[i] = c[t + i]
  <2>1. IsList(u, t + m - (t + 1) + 1) /\ \A i \in 1 .. t + m - (t + 1) + 1 : u[i] = c[t + 1 + i - 1]
    BY PartOf
  <2>2. t + m - (t + 1) + 1 = m /\ \A i \in 1 .. m : t + 1 + i - 1 = t + i
    OBVIOUS
  <2> HIDE DEF u
  <2> QED
    BY <2>1, <2>2
<1>3. IsList(w, t + m) /\ \A i \in 1 .. t + m : w[i] = c[i]
  <2>1. IsList(w, t + m - 1 + 1) /\ \A i \in 1 .. t + m - 1 + 1 : w[i] = c[1 + i - 1]
    BY PartOf
  <2>2. t + m - 1 + 1 = t + m /\ \A i \in 1 .. t + m : 1 + i - 1 = i
    OBVIOUS
  <2> HIDE DEF w
  <2> QED
    BY <2>1, <2>2
<1> HIDE DEF s, u, w
<1>4. AsJoined(v, s, t, u, m)
  BY <1>1, <1>2, Joined
<1> HIDE DEF v
<1>5. ASSUME NEW i \in 1 .. t + m PROVE v[i] = w[i]
  <2>1. CASE i <= t
    BY <1>1, <1>3, <1>4, <2>1 DEF AsJoined
  <2>2. CASE i > t
    <3>1. i - t \in 1 .. m /\ t + (i - t) = i
      BY <2>2
    <3>2. v[t + (i - t)] = u[i - t] /\ u[i - t] = c[t + (i - t)]
      BY <1>2, <1>4, <3>1 DEF AsJoined
    <3> QED
      BY <1>3, <3>1, <3>2
  <2> QED
    BY <2>1, <2>2
<1>6. v = w
  <2>1. IsList(v, t + m) /\ t + m \in Nat
    BY <1>4 DEF AsJoined
  <2> QED
    BY <1>3, <1>5, <2>1, ListsEqual
<1> QED
  BY <1>6 DEF v, s, u, w

\* One chunk after another is one longer chunk.
LEMMA ExtendedTwice ==
    ASSUME NEW S, NEW toks, NEW n \in Nat, IsList(toks, n), NEW c, NEW t \in Nat, IsList(c, t),
           NEW d, NEW m \in Nat, IsList(d, m), NEW rows, After(RowsOver(S, toks \o c)[LAYERS], n, t, rows),
           NEW sl, NEW more, Extended(S, sl, more, toks \o c, n + t, d, m)
    PROVE  Extended(S, sl, rows \o more, toks, n, c \o d, t + m)
<1> DEFINE A == toks \o c
           B == A \o d
           W == rows \o more
           ra == RowsOver(S, A)[LAYERS]
           rb == RowsOver(S, B)[LAYERS]
<1>1. B = toks \o (c \o d)
  BY JoinedTwice, SMTT(30)
<1>2. IsList(A, n + t) /\ n + t \in Nat /\ n + t + m = n + (t + m)
  BY Joined DEF AsJoined
<1> HIDE DEF A
<1>3. \A i \in 1 .. n + t : rb[i] = ra[i]
  <2>1. LAYERS \in 0 .. LAYERS
    BY EngineAssumption
  <2>2. \A l \in 0 .. LAYERS, i \in 1 .. n + t : RowsOver(S, A \o d)[l][i] = RowsOver(S, A)[l][i]
    BY ONLY <1>2, RowsOfBoth, n + t \in Nat, m \in Nat, IsList(d, m), EngineAssumption
  <2> QED
    BY <2>1, <2>2
<1>4. /\ IsList(rows, t) /\ \A i \in 1 .. t : rows[i] = ra[n + i]
      /\ IsList(more, m) /\ \A i \in 1 .. m : more[i] = rb[n + t + i]
  BY DEF After, Extended, A
<1>5. AsJoined(W, rows, t, more, m)
  BY <1>4, Joined
<1> HIDE DEF W, ra, rb
<1>6. ASSUME NEW i \in 1 .. t + m PROVE W[i] = rb[n + i]
  <2>1. CASE i <= t
    <3>1. i \in 1 .. t /\ n + i \in 1 .. n + t
      BY <2>1
    <3> QED
      BY <1>3, <1>4, <1>5, <3>1 DEF AsJoined
  <2>2. CASE i > t
    <3>1. i - t \in 1 .. m /\ t + (i - t) = i /\ n + t + (i - t) = n + i
      BY <2>2
    <3>2. W[t + (i - t)] = more[i - t] /\ more[i - t] = rb[n + t + (i - t)]
      BY <1>4, <1>5, <3>1 DEF AsJoined
    <3> QED
      BY <3>1, <3>2
  <2> QED
    BY <2>1, <2>2
<1>7. After(rb, n, t + m, W)
  BY <1>5, <1>6 DEF After, AsJoined
<1>8. HoldsRows(S, sl, n + t + m, B)
  BY DEF Extended, A
<1> HIDE DEF B
<1> QED
  BY <1>1, <1>2, <1>7, <1>8 DEF Extended, W, rb

\* The m elements after the first a are a list.
LEMMA PartIs ==
    ASSUME NEW c, NEW a \in Nat, NEW m \in Nat
    PROVE  IsList(SubSeq(c, a + 1, a + m), m)
<1>1. IsList(SubSeq(c, a + 1, a + m), a + m - (a + 1) + 1)
  BY PartOf
<1>2. a + m - (a + 1) + 1 = m
  OBVIOUS
<1> QED
  BY <1>1, <1>2

\* The first zero elements are none.
LEMMA NoneIs ==
    ASSUME NEW c
    PROVE  SubSeq(c, 1, 0) = << >> /\ IsList(<< >>, 0)
<1>1. IsList(SubSeq(c, 0 + 1, 0 + 0), 0)
  BY PartIs
<1>2. IsList(<< >>, 0)
  BY DEF IsList
<1>3. SubSeq(c, 1, 0) = << >>
  BY <1>1, <1>2, ListsEqual
<1> QED
  BY <1>2, <1>3

\* The first m elements of a list of m are all.
LEMMA AllIs ==
    ASSUME NEW c, NEW m \in Nat, IsList(c, m)
    PROVE  SubSeq(c, 1, m) = c
<1>1. IsList(SubSeq(c, 1, m), m - 1 + 1) /\ \A i \in 1 .. m - 1 + 1 : SubSeq(c, 1, m)[i] = c[1 + i - 1]
  BY PartOf
<1>2. m - 1 + 1 = m /\ \A i \in 1 .. m : 1 + i - 1 = i
  OBVIOUS
<1> QED
  BY <1>1, <1>2, ListsEqual

\* A list joined with nothing is the list.
LEMMA JoinedNothing ==
    ASSUME NEW s, NEW n \in Nat, IsList(s, n)
    PROVE  s \o << >> = s
<1> DEFINE e == << >>
           u == s \o e
<1>1. IsList(e, 0) /\ 0 \in Nat
  BY DEF IsList
<1> HIDE DEF e
<1>2. AsJoined(u, s, n, e, 0)
  BY <1>1, Joined
<1> HIDE DEF u
<1>3. IsList(u, n) /\ \A i \in 1 .. n : u[i] = s[i]
  BY <1>2 DEF AsJoined
<1>4. u = s
  BY <1>3, ListsEqual
<1> QED
  BY <1>4 DEF u, e

\* A larger factor gives no smaller product.
LEMMA ProductGrows ==
    ASSUME NEW k \in Nat, NEW n \in Nat, k <= n, NEW s \in Nat
    PROVE  k * s <= n * s
  OBVIOUS

\* The elements after the first t, up to the r-th.
Part(c, t, r) == SubSeq(c, t + 1, r)

\* The k-th piece of c starts after the t elements of those before it and ends at the r-th.
PieceFromTo(c, m, size, k, t, r) == Len(c) = m /\ t = Min({(k - 1) * size, m}) /\ r = Min({k * size, m})

LEMMA PieceIs ==
    ASSUME NEW c, NEW m \in Nat, NEW size \in Nat \ {0}, NEW k \in 1 .. NumPieces(c, size), NEW t, NEW r,
           PieceFromTo(c, m, size, k, t, r)
    PROVE  /\ t \in 0 .. m /\ r \in 0 .. m /\ t < r
           /\ Piece(c, size, k) = Part(c, t, r)
<1> DEFINE N == NumPieces(c, size)
           a == (k - 1) * size
           b == k * size
<1>1. N = (m + size - 1) \div size
  BY DEF NumPieces, PieceFromTo
<1>2. N \in Nat /\ (N - 1) * size <= m - 1
  <2>1. (m + size - 1) \div size \in Nat /\ ((m + size - 1) \div size - 1) * size <= m - 1
    OBVIOUS
  <2> QED
    BY <1>1, <2>1
<1>3. k \in Nat \ {0} /\ k - 1 \in Nat /\ N - 1 \in Nat /\ k - 1 <= N - 1
  BY <1>2
<1>4. (k - 1) * size <= (N - 1) * size
  BY <1>3, ProductGrows
<1>5. b = a + size /\ a \in Nat /\ b \in Nat
  BY <1>3
<1>6. a <= m - 1
  <2>1. (N - 1) * size \in Int
    BY <1>3
  <2> QED
    BY <1>2, <1>4, <1>5, <2>1
<1>7. Piece(c, size, k) = SubSeq(c, a + 1, r)
  BY DEF Piece, PieceFromTo
<1> HIDE DEF a, b
<1>8. t = a
  <2>1. Min({a, m}) = (IF a <= m THEN a ELSE m)
    BY <1>5, MinAndMax
  <2> QED
    BY <1>5, <1>6, <2>1 DEF a, PieceFromTo
<1>9. r = (IF b <= m THEN b ELSE m)
  <2>1. Min({b, m}) = (IF b <= m THEN b ELSE m)
    BY <1>5, MinAndMax
  <2> QED
    BY <2>1 DEF b, PieceFromTo
<1>10. t \in 0 .. m /\ r \in 0 .. m /\ t < r
  BY <1>5, <1>6, <1>8, <1>9
<1>11. Piece(c, size, k) = Part(c, t, r)
  BY ONLY <1>7, <1>8 DEF Part
<1> QED
  BY <1>10, <1>11

\* After k pieces of the chunk c: the rows of those that fit.
Progress(v, k, toks, n, c, m, size) ==
    /\ v = [slots |-> v.slots, cur |-> v.cur, rows |-> v.rows, ok |-> v.ok]
    /\ \E t \in 0 .. m : /\ WgpuHolds(v, toks, n, SubSeq(c, 1, t), t)
                         /\ v.ok => t = Min({k * size, m})

\* Before the first piece.
LEMMA ProgressStarts ==
    ASSUME NEW n \in Nat, n <= KVCTX, NEW sl, sl = [l \in Layer |-> sl[l]], \A l \in Layer : IsList(sl[l], KVCTX),
           NEW toks, HoldsRows({}, sl, n, toks), NEW c, NEW m \in Nat, NEW size \in Nat,
           NEW v, v = [slots |-> sl, cur |-> n, rows |-> << >>, ok |-> TRUE]
    PROVE  Progress(v, 0, toks, n, c, m, size)
<1>1. v.slots = sl /\ v.cur = n /\ v.rows = << >>
  OBVIOUS
<1>2. v = [slots |-> v.slots, cur |-> v.cur, rows |-> v.rows, ok |-> v.ok]
  OBVIOUS
<1>3. SubSeq(c, 1, 0) = << >> /\ IsList(<< >>, 0)
  BY NoneIs
<1>4. IsList(toks, n) /\ toks \o << >> = toks
  BY JoinedNothing DEF HoldsRows
<1>5. n + 0 = n /\ 0 \in 0 .. m /\ 0 * size = 0 /\ Min({0, m}) = 0
  BY MinAndMax
<1>6. After(RowsOver({}, toks)[LAYERS], n, 0, << >>)
  BY <1>3 DEF After
<1> DEFINE e == << >>
<1>7. Extended({}, sl, e, toks, n, e, 0)
  BY <1>4, <1>5, <1>6 DEF Extended
<1>8. WgpuHolds(v, toks, n, SubSeq(c, 1, 0), 0)
  <2>1. v.cur = n + 0 /\ n + 0 <= KVCTX
    BY <1>1, <1>5
  <2>2. v.slots = [l \in Layer |-> v.slots[l]] /\ \A l \in Layer : IsList(v.slots[l], KVCTX)
    BY <1>1
  <2>3. Extended({}, v.slots, v.rows, toks, n, SubSeq(c, 1, 0), 0)
    BY <1>1, <1>3, <1>7
  <2> QED
    BY <2>1, <2>2, <2>3 DEF WgpuHolds
<1> QED
  BY <1>2, <1>5, <1>8 DEF Progress

\* A piece that does not fit changes only the flag.
LEMMA PassStops ==
    ASSUME NEW v, v = [slots |-> v.slots, cur |-> v.cur, rows |-> v.rows, ok |-> v.ok],
           NEW w, w = [v EXCEPT !.ok = FALSE]
    PROVE  w.slots = v.slots /\ w.cur = v.cur /\ w.rows = v.rows /\ w.ok = FALSE
           /\ w = [slots |-> w.slots, cur |-> w.cur, rows |-> w.rows, ok |-> w.ok]
<1> DEFINE a == v.slots
           b == v.cur
           d == v.rows
           o == v.ok
<1>1. v = [slots |-> a, cur |-> b, rows |-> d, ok |-> o]
  OBVIOUS
<1> HIDE DEF a, b, d, o
<1>2. w = [slots |-> a, cur |-> b, rows |-> d, ok |-> FALSE]
  BY <1>1
<1>3. w.slots = a /\ w.cur = b /\ w.rows = d /\ w.ok = FALSE
  BY ONLY <1>2
<1>4. w = [slots |-> w.slots, cur |-> w.cur, rows |-> w.rows, ok |-> w.ok]
  BY <1>2, <1>3
<1> QED
  BY <1>3, <1>4 DEF a, b, d

\* One piece further.
LEMMA ProgressGoesOn ==
    ASSUME NEW n \in Nat, NEW toks, IsList(toks, n), NEW c, NEW m \in Nat, IsList(c, m), NEW size \in Nat \ {0},
           NEW k \in 1 .. NumPieces(c, size), NEW v, Progress(v, k - 1, toks, n, c, m, size),
           NEW w, w = AfterPiece(v, Piece(c, size, k))
    PROVE  Progress(w, k, toks, n, c, m, size)
<1> DEFINE p == Piece(c, size, k)
           stops == ~v.ok \/ v.cur + Len(p) > KVCTX
           held(t) == SubSeq(c, 1, t)
<1>1. v = [slots |-> v.slots, cur |-> v.cur, rows |-> v.rows, ok |-> v.ok]
  BY DEF Progress
<1>2. PICK t \in 0 .. m : WgpuHolds(v, toks, n, held(t), t) /\ (v.ok => t = Min({(k - 1) * size, m}))
  BY DEF Progress
<1>3. CASE stops
  <2>1. w = [v EXCEPT !.ok = FALSE]
    BY <1>3 DEF AfterPiece
  <2>2. /\ w.slots = v.slots /\ w.cur = v.cur /\ w.rows = v.rows /\ w.ok = FALSE
        /\ w = [slots |-> w.slots, cur |-> w.cur, rows |-> w.rows, ok |-> w.ok]
    BY <1>1, <2>1, PassStops
  <2>3. WgpuHolds(w, toks, n, held(t), t)
    BY <1>2, <2>2 DEF WgpuHolds
  <2> QED
    BY <2>2, <2>3 DEF Progress
<1>4. CASE ~stops
  <2> DEFINE r == Min({k * size, m})
             d == r - t
             x == Pass(v, p)
  <2>0. Len(c) = m
    BY ListIsSeq
  <2>1. /\ t \in 0 .. m /\ r \in 0 .. m /\ t < r
        /\ p = SubSeq(c, t + 1, r)
    <3>1. t = Min({(k - 1) * size, m})
      BY <1>2, <1>4
    <3>2. r = Min({k * size, m}) /\ p = Piece(c, size, k)
      OBVIOUS
    <3> HIDE DEF r, p
    <3>3. t \in 0 .. m /\ r \in 0 .. m /\ t < r /\ Piece(c, size, k) = Part(c, t, r)
      <4>1. PieceFromTo(c, m, size, k, t, r)
        BY <2>0, <3>1, <3>2 DEF PieceFromTo
      <4> QED
        BY <4>1, PieceIs
    <3> QED
      BY <3>2, <3>3 DEF Part
  <2> HIDE DEF r, p
  <2>2. t \in Nat /\ d \in Nat \ {0} /\ d \in Nat /\ t + d = r
    BY <2>1
  <2> HIDE DEF d
  <2>3. IsList(p, d) /\ p = SubSeq(c, t + 1, t + d)
    BY <2>1, <2>2, PartIs
  <2>4. v.cur = n + t /\ n + t \in Nat /\ n + t + d <= KVCTX
    <3>1. Len(p) = d /\ v.cur = n + t
      BY <1>2, <2>3, ListIsSeq DEF WgpuHolds
    <3>2. ~(v.cur + Len(p) > KVCTX)
      BY <1>4
    <3> QED
      BY <2>2, <3>1, <3>2, EngineAssumption
  <2>5. IsList(held(t), t)
    <3>1. IsList(SubSeq(c, 0 + 1, 0 + t), t)
      BY <2>2, PartIs
    <3> QED
      BY <2>2, <3>1
  <2> DEFINE both == toks \o held(t)
  <2>6. IsList(both, n + t)
    BY <2>2, <2>5, Joined DEF AsJoined
  <2>7. /\ HoldsRows({}, v.slots, n + t, both) /\ \A l \in Layer : IsList(v.slots[l], KVCTX)
        /\ After(RowsOver({}, both)[LAYERS], n, t, v.rows)
    BY <1>2 DEF WgpuHolds, Extended
  <2>8. WgpuHolds(x, both, n + t, p, d)
    <3> HIDE DEF both, x
    <3>1. WgpuHolds(Pass(v, p), both, n + t, p, d)
      BY <2>2, <2>3, <2>4, <2>7, PieceExtends
    <3> QED
      BY <3>1 DEF x
  <2>9. /\ x.cur = n + r /\ n + r <= KVCTX
        /\ x.slots = [l \in Layer |-> x.slots[l]] /\ \A l \in Layer : IsList(x.slots[l], KVCTX)
        /\ Extended({}, x.slots, x.rows, both, n + t, p, d)
    BY <2>1, <2>2, <2>8 DEF WgpuHolds
  <2> HIDE DEF x
  <2>10. Extended({}, x.slots, v.rows \o x.rows, toks, n, held(t) \o p, t + d)
    <3> DEFINE h == held(t)
               S == {}
               sl == x.slots
               more == x.rows
               rows == v.rows
    <3>1. IsList(h, t) /\ After(RowsOver(S, toks \o h)[LAYERS], n, t, rows) /\ Extended(S, sl, more, toks \o h, n + t, p, d)
      BY <2>5, <2>7, <2>9
    <3> HIDE DEF h, S, sl, more, rows
    <3>2. Extended(S, sl, rows \o more, toks, n, h \o p, t + d)
      BY <2>2, <2>3, <3>1, ExtendedTwice
    <3> QED
      BY <3>2 DEF h, S, sl, more, rows
  <2>11. held(t) \o p = held(r)
    BY <2>2, <2>3, PartsJoin
  <2>12. w = [slots |-> x.slots, cur |-> x.cur, rows |-> v.rows \o x.rows, ok |-> TRUE]
    BY <1>4 DEF AfterPiece, p, x
  <2>13. w.slots = x.slots /\ w.cur = x.cur /\ w.rows = v.rows \o x.rows
    BY ONLY <2>12
  <2>14. w = [slots |-> w.slots, cur |-> w.cur, rows |-> w.rows, ok |-> w.ok]
    BY ONLY <2>12
  <2>15. WgpuHolds(w, toks, n, held(r), r)
    <3>1. Extended({}, w.slots, w.rows, toks, n, held(r), r)
      BY <2>2, <2>10, <2>11, <2>13
    <3> QED
      BY <2>9, <2>13, <3>1 DEF WgpuHolds
  <2> QED
    BY <2>1, <2>14, <2>15 DEF Progress, r
<1> QED
  BY <1>3, <1>4

\* A call of the GPU engine: the whole chunk, or the pieces before one that does not fit.
LEMMA WgpuPassesHold ==
    ASSUME NEW n \in Nat, n <= KVCTX, NEW sl, sl = [l \in Layer |-> sl[l]], \A l \in Layer : IsList(sl[l], KVCTX),
           NEW toks, HoldsRows({}, sl, n, toks), NEW c, NEW m \in Nat, IsList(c, m), NEW size \in Nat \ {0},
           NEW s0, s0.slots = sl, s0.cur = n
    PROVE  LET w == WgpuPasses(s0, c, size)
           IN  \E t \in 0 .. m : WgpuHolds(w, toks, n, SubSeq(c, 1, t), t) /\ (w.ok => t = m)
<1> DEFINE at == CHOOSE at : IsWgpuPasses(at, s0, c, size)
           N == NumPieces(c, size)
           w == WgpuPasses(s0, c, size)
           P == {k \in 0 .. N : Progress(at[k], k, toks, n, c, m, size)}
<1>1. Len(c) = m
  BY ListIsSeq
<1>2. N \in Nat /\ N * size >= m
  <2>1. (m + size - 1) \div size \in Nat /\ ((m + size - 1) \div size) * size >= m
    OBVIOUS
  <2> QED
    BY <1>1, <2>1 DEF NumPieces
<1>3. w = at[N]
  BY WgpuPassesIs
<1>4. IsWgpuPasses(at, s0, c, size)
  BY <1>2, WgpuPassesExists
<1> HIDE DEF at, w
<1>5. at[0] = [slots |-> sl, cur |-> n, rows |-> << >>, ok |-> TRUE]
  <2> HIDE DEF N
  <2>1. at[0] = [slots |-> s0.slots, cur |-> s0.cur, rows |-> << >>, ok |-> TRUE]
    <3>1. 0 \in 0 .. N
      BY <1>2
    <3>2. at = [l \in 0 .. N |-> IF l = 0 THEN [slots |-> s0.slots, cur |-> s0.cur, rows |-> <<>>, ok |-> TRUE]
                                 ELSE AfterPiece(at[l - 1], Piece(c, size, l))]
      BY <1>4 DEF IsWgpuPasses, N
    <3> QED
      BY <3>1, <3>2
  <2> QED
    BY <2>1
<1>6. ASSUME NEW k \in 1 .. N PROVE at[k] = AfterPiece(at[k - 1], Piece(c, size, k))
  <2> HIDE DEF N
  <2>1. k \in 0 .. N /\ k # 0
    BY <1>2
  <2>2. at = [l \in 0 .. N |-> IF l = 0 THEN [slots |-> s0.slots, cur |-> s0.cur, rows |-> <<>>, ok |-> TRUE]
                               ELSE AfterPiece(at[l - 1], Piece(c, size, l))]
    BY <1>4 DEF IsWgpuPasses, N
  <2>3. at[k] = IF k = 0 THEN [slots |-> s0.slots, cur |-> s0.cur, rows |-> <<>>, ok |-> TRUE]
                ELSE AfterPiece(at[k - 1], Piece(c, size, k))
    BY <2>1, <2>2
  <2> QED
    BY <2>1, <2>3
<1>7. 0 \in P
  <2> DEFINE v == at[0]
  <2> HIDE DEF v
  <2>1. v = [slots |-> sl, cur |-> n, rows |-> << >>, ok |-> TRUE]
    BY <1>5 DEF v
  <2>2. Progress(v, 0, toks, n, c, m, size)
    BY <2>1, ProgressStarts
  <2> QED
    BY <1>2, <2>2 DEF v
<1>8. ASSUME NEW k \in 1 .. N, k - 1 \in P PROVE k \in P
  <2>1. Progress(at[k - 1], k - 1, toks, n, c, m, size)
    BY <1>8
  <2>2. IsList(toks, n)
    BY DEF HoldsRows
  <2> DEFINE v == at[k - 1]
             x == at[k]
  <2>3. Progress(v, k - 1, toks, n, c, m, size) /\ x = AfterPiece(v, Piece(c, size, k))
    BY <1>6, <2>1
  <2> HIDE DEF v, x
  <2>4. Progress(x, k, toks, n, c, m, size)
    BY <2>2, <2>3, ProgressGoesOn
  <2> QED
    BY <1>2, <2>4 DEF x
<1> HIDE DEF P
<1>9. 0 .. N \subseteq P
  BY <1>2, <1>7, <1>8, FromLayerToLayer
<1>10. Progress(w, N, toks, n, c, m, size)
  BY <1>2, <1>3, <1>9 DEF P
<1>11. PICK t \in 0 .. m : WgpuHolds(w, toks, n, SubSeq(c, 1, t), t) /\ (w.ok => t = Min({N * size, m}))
  BY <1>10 DEF Progress
<1>12. Min({N * size, m}) = m
  <2> DEFINE a == N * size
  <2>1. a \in Int /\ a >= m
    BY <1>2
  <2> HIDE DEF a
  <2>2. Min({a, m}) = (IF a <= m THEN a ELSE m)
    BY <2>1, MinAndMax
  <2> QED
    BY <2>1, <2>2 DEF a
<1> QED
  BY <1>11, <1>12 DEF w

-----------------------------------------------------------------------------
(* The steps of the abstract specification, from what a call holds and     *)
(* answers.                                                                *)

\* What a call answers.
AnswerTo(op, c, cached, rows) ==
    [op |-> op, chunk |-> c, cached |-> cached, rows |-> IF op = "last" THEN <<rows[Len(rows)]>> ELSE rows]

MostPositions == IF engine_ = "mlx" THEN FEEDS ELSE KVCTX

\* What HeldTokens and exact are, from what the caches hold.
LEMMA ExactWhen ==
    ASSUME NEW S, NEW toks, HoldsRows(S, slots, seqLen[1], toks), seqLen[1] \in Nat
    PROVE  HeldTokens = toks /\ \A i \in 1 .. seqLen[1] : slots[1][i].pos = i - 1
<1> DEFINE n == seqLen[1]
           sl == slots
<1>1. HeldTokens = TokensOf(sl, n)
  BY DEF HeldTokens, TokensOf
<1>2. n \in Nat /\ HoldsRows(S, sl, n, toks)
  OBVIOUS
<1> HIDE DEF n, sl
<1>3. TokensOf(sl, n) = toks /\ \A i \in 1 .. n : sl[1][i].pos = i - 1
  BY <1>2, HoldsTokens
<1> QED
  BY <1>1, <1>3 DEF n, sl

\* The same after a step.
LEMMA ExactThen ==
    ASSUME NEW S, NEW toks, HoldsRows(S, slots', seqLen'[1], toks), seqLen'[1] \in Nat
    PROVE  HeldTokens' = toks /\ \A i \in 1 .. seqLen'[1] : slots'[1][i].pos = i - 1
<1> DEFINE n == seqLen'[1]
           sl == slots'
<1>1. HeldTokens' = TokensOf(sl, n)
  BY DEF HeldTokens, TokensOf
<1>2. n \in Nat /\ HoldsRows(S, sl, n, toks)
  OBVIOUS
<1> HIDE DEF n, sl
<1>3. TokensOf(sl, n) = toks /\ \A i \in 1 .. n : sl[1][i].pos = i - 1
  BY <1>2, HoldsTokens
<1> QED
  BY <1>1, <1>3 DEF n, sl

\* The step is an Extend.
LEMMA ToExtend ==
    ASSUME NEW n \in Nat, seqLen[1] = n, NEW toks, HoldsRows(Sliding, slots, n, toks),
           NEW c, NEW m \in Nat \ {0}, IsList(c, m), n + m <= MostPositions,
           seqLen'[1] = n + m, HoldsRows(Sliding, slots', n + m, toks \o c),
           NEW rows, After(RowsOver(Sliding, toks \o c)[LAYERS], n, m, rows),
           NEW op \in {"last", "all"}, NEW cached, cached, answer' = AnswerTo(op, c, cached, rows)
    PROVE  Kv!Extend
<1>1. HeldTokens = toks /\ \A i \in 1 .. seqLen[1] : slots[1][i].pos = i - 1
  BY ExactWhen
<1>2. HeldTokens' = toks \o c /\ \A i \in 1 .. seqLen'[1] : slots'[1][i].pos = i - 1
  <2>1. HoldsRows(Sliding, slots', seqLen'[1], toks \o c) /\ seqLen'[1] \in Nat
    OBVIOUS
  <2> DEFINE T == toks \o c
             S == Sliding
  <2>2. HoldsRows(S, slots', seqLen'[1], T)
    BY <2>1
  <2> HIDE DEF T, S
  <2>3. HeldTokens' = T /\ \A i \in 1 .. seqLen'[1] : slots'[1][i].pos = i - 1
    BY <2>1, <2>2, ExactThen
  <2> QED
    BY <2>3 DEF T
<1>3. IsList(toks, n) /\ m \in Nat
  BY DEF HoldsRows
<1>4. rows = Kv!LastOf(RowsOver(Sliding, toks \o c)[LAYERS], Len(c))
  BY <1>3, AnswerIs
<1>5. Kv!OneShot(toks \o c) = RowsOver(Sliding, toks \o c)[LAYERS]
  BY OneShotOf
<1>6. Len(toks) = n /\ Len(c) = m
  BY <1>3, ListIsSeq
<1>7. /\ answer'.op = op /\ answer'.chunk = c /\ answer'.cached = cached
      /\ answer'.rows = IF op = "last" THEN <<rows[Len(rows)]>> ELSE rows
  BY DEF AnswerTo
<1>8. answer'.rows = Kv!Answer(op, rows)
  BY <1>7 DEF Kv!Answer
<1> QED
  BY <1>1, <1>2, <1>4, <1>5, <1>6, <1>7, <1>8 DEF Kv!Extend, MostPositions

\* The step is a Fresh.
LEMMA ToFresh ==
    ASSUME NEW c, NEW m \in Nat, IsList(c, m),
           NEW held, HeldTokens' = held, held = << >> \/ held = c,
           \A i \in 1 .. seqLen'[1] : slots'[1][i].pos = i - 1,
           NEW rows, rows = RowsOver(Sliding, c)[LAYERS],
           NEW op \in {"last", "all", "mean"}, NEW cached, answer' = AnswerTo(op, c, cached, rows)
    PROVE  Kv!Fresh
<1>1. /\ answer'.op = op /\ answer'.chunk = c
      /\ answer'.rows = IF op = "last" THEN <<rows[Len(rows)]>> ELSE rows
  BY DEF AnswerTo
<1>2. answer'.rows = Kv!Answer(op, rows)
  BY <1>1 DEF Kv!Answer
<1>3. Kv!OneShot(c) = rows
  BY OneShotOf
<1>4. HeldTokens' \in {<<>>, c}
  OBVIOUS
<1> QED
  BY <1>1, <1>2, <1>3, <1>4 DEF Kv!Fresh

\* An emptied cache holds nothing.
LEMMA EmptyHolds ==
    ASSUME seqLen'[1] = 0
    PROVE  HeldTokens' = << >> /\ \A i \in 1 .. seqLen'[1] : slots'[1][i].pos = i - 1
<1> DEFINE n == seqLen'[1]
           h == HeldTokens'
<1>1. h = [i \in 1 .. n |-> slots'[1][i].row]
  BY DEF HeldTokens
<1> HIDE DEF h
<1>2. IsList(h, 0) /\ IsList(<< >>, 0)
  BY <1>1 DEF IsList
<1>3. h = << >>
  BY <1>2, ListsEqual
<1> QED
  BY <1>3 DEF h

\* The step is a Truncate.
LEMMA ToTruncate ==
    ASSUME NEW n \in Nat, seqLen[1] = n, NEW k \in Nat, NEW kept \in 0 .. n, kept <= k, seqLen'[1] = kept,
           \A i \in 1 .. kept : slots'[1][i] = slots[1][i], answer' = [op |-> "kept", chunk |-> k, rows |-> kept]
    PROVE  Kv!Truncate
<1>1. answer'.op = "kept" /\ answer'.chunk = k /\ answer'.rows = kept
  OBVIOUS
<1> DEFINE held == HeldTokens
           later == HeldTokens'
<1>2. held = [i \in 1 .. n |-> slots[1][i].row] /\ later = [i \in 1 .. kept |-> slots'[1][i].row]
  BY DEF HeldTokens
<1>3. IsList(SubSeq(held, 1, kept), kept) /\ \A i \in 1 .. kept : SubSeq(held, 1, kept)[i] = held[i]
  <2>1. IsList(SubSeq(held, 1, kept), kept - 1 + 1) /\ \A i \in 1 .. kept - 1 + 1 : SubSeq(held, 1, kept)[i] = held[1 + i - 1]
    <3> HIDE DEF held
    <3>1. 1 \in Int /\ kept \in Int /\ kept >= 1 - 1
      OBVIOUS
    <3> QED
      BY ONLY <3>1, PartOf
  <2>2. kept - 1 + 1 = kept /\ \A i \in Nat : 1 + i - 1 = i
    OBVIOUS
  <2> QED
    BY <2>1, <2>2
<1> DEFINE part == SubSeq(held, 1, kept)
<1> HIDE DEF held, later, part
<1>4. IsList(later, kept)
  BY <1>2 DEF IsList
<1>5. \A i \in 1 .. kept : later[i] = held[i]
  BY <1>2
<1>6. later = part
  <2>1. IsList(part, kept) /\ \A i \in 1 .. kept : later[i] = part[i]
    BY <1>3, <1>5 DEF part
  <2> QED
    BY <1>4, <2>1, ListsEqual
<1>7. later = << >> => kept = 0
  <2>1. ASSUME later = << >> PROVE kept = 0
    <3>1. DOMAIN later = 1 .. kept /\ DOMAIN later = {}
      BY <1>2, <2>1
    <3> QED
      BY <3>1
  <2> QED
    BY <2>1
<1>8. ((\A i \in 1 .. seqLen[1] : slots[1][i].pos = i - 1) \/ later = << >>)
      => \A i \in 1 .. seqLen'[1] : slots'[1][i].pos = i - 1
  <2>1. CASE \A i \in 1 .. seqLen[1] : slots[1][i].pos = i - 1
    <3>1. \A i \in 1 .. n : slots[1][i].pos = i - 1
      BY <2>1
    <3>2. \A i \in 1 .. kept : slots'[1][i].pos = i - 1
      BY <3>1
    <3> QED
      BY <3>2
  <2>2. CASE later = << >>
    <3>1. seqLen'[1] = 0
      BY <1>7, <2>2
    <3> QED
      BY <3>1
  <2> QED
    BY <2>1, <2>2
<1> QED
  BY <1>1, <1>6, <1>8 DEF Kv!Truncate, held, later, part

\* The step is a Refuse.
LEMMA ToRefuse ==
    ASSUME NEW c, NEW m \in Nat, IsList(c, m), NEW t \in 0 .. m, answer' = [op |-> "err", chunk |-> c],
           NEW part, part = SubSeq(c, 1, t), HeldTokens' = HeldTokens \o part \/ HeldTokens' = part,
           (\A i \in 1 .. seqLen[1] : slots[1][i].pos = i - 1) => \A i \in 1 .. seqLen'[1] : slots'[1][i].pos = i - 1
    PROVE  Kv!Refuse
<1>1. answer'.op = "err" /\ answer'.chunk = c /\ Len(c) = m
  BY ListIsSeq
<1>2. \E i \in 0 .. Len(answer'.chunk) : HeldTokens' \in {HeldTokens \o SubSeq(answer'.chunk, 1, i), SubSeq(answer'.chunk, 1, i)}
  BY <1>1
<1> QED
  BY <1>1, <1>2 DEF Kv!Refuse

\* What a sliding pass holds: the last tokens of the old and the new ones.
LEMMA SlidTokens ==
    ASSUME NEW n \in Nat, n <= KVCTX, NEW m \in Nat, m <= KVCTX, NEW old, IsList(old, n), NEW c, IsList(c, m),
           NEW later, IsList(later, KeptOf(n, m) + m),
           \A i \in 1 .. KeptOf(n, m) : later[i] = old[i + (n - KeptOf(n, m))],
           \A i \in 1 .. m : later[KeptOf(n, m) + i] = c[i]
    PROVE  later = IF n + m > KVCTX THEN Kv!LastOf(old \o c, KVCTX) ELSE old \o c
<1> DEFINE keep == KeptOf(n, m)
           J == old \o c
<1>1. KVCTX \in Nat
  BY EngineAssumption
<1>2. /\ n + m <= KVCTX => keep = n
      /\ n + m > KVCTX => keep = KVCTX - m
      /\ keep \in 0 .. n
  BY KeptIs
<1>3. AsJoined(J, old, n, c, m)
  BY Joined
<1> HIDE DEF keep, J
<1>4. IsList(later, keep + m) /\ (\A i \in 1 .. keep : later[i] = old[i + (n - keep)]) /\ \A i \in 1 .. m : later[keep + i] = c[i]
  BY DEF keep
<1>5. IsList(J, n + m) /\ (\A i \in 1 .. n : J[i] = old[i]) /\ \A i \in 1 .. m : J[n + i] = c[i]
  BY <1>3 DEF AsJoined
<1>6. ASSUME NEW i \in 1 .. keep + m PROVE later[i] = J[(n - keep) + i]
  <2>1. CASE i \in 1 .. keep
    <3>1. (n - keep) + i = i + (n - keep) /\ (n - keep) + i \in 1 .. n
      BY <1>2, <2>1
    <3> QED
      BY <1>4, <1>5, <2>1, <3>1
  <2>2. CASE i \notin 1 .. keep
    <3>1. i - keep \in 1 .. m /\ keep + (i - keep) = i /\ (n - keep) + i = n + (i - keep)
      BY <1>2, <2>2
    <3> QED
      BY <1>4, <1>5, <3>1
  <2> QED
    BY <2>1, <2>2
<1>7. CASE n + m > KVCTX
  <2> DEFINE d == n - keep
  <2>1. keep + m = KVCTX /\ d \in Nat /\ d + KVCTX = n + m
    BY <1>1, <1>2, <1>7
  <2>2. \A i \in 1 .. KVCTX : later[i] = J[d + i]
    BY <1>6, <2>1
  <2> HIDE DEF d
  <2>3. After(J, d, KVCTX, later) /\ IsList(J, d + KVCTX)
    BY <1>4, <1>5, <2>1, <2>2 DEF After
  <2>4. later = Kv!LastOf(J, KVCTX)
    BY <1>1, <2>1, <2>3, LastAre
  <2> QED
    BY <1>7, <2>4 DEF J
<1>8. CASE ~(n + m > KVCTX)
  <2>1. keep = n
    BY <1>1, <1>2, <1>8
  <2>2. \A i \in 1 .. n + m : later[i] = J[i]
    BY <1>6, <2>1
  <2>3. later = J
    BY <1>4, <1>5, <2>1, <2>2, ListsEqual
  <2> QED
    BY <1>8, <2>3 DEF J
<1> QED
  BY <1>7, <1>8

\* The step is a Slide.
LEMMA ToSlide ==
    ASSUME NEW n \in Nat, n <= KVCTX, seqLen[1] = n, NEW c, NEW m \in Nat \ {0}, m <= KVCTX, IsList(c, m),
           NEW h, SlidBy(h, n, c, m), slots' = h.slots, seqLen' = h.len, engine_ # "mlx",
           NEW op \in {"last", "all"}, NEW cached, cached, answer' = AnswerTo(op, c, cached, h.rows),
           n + m > KVCTX \/ ~\A i \in 1 .. n : slots[1][i].pos = i - 1
    PROVE  Kv!Slide
<1> DEFINE keep == KeptOf(n, m)
           last == h.rows[m]
           held == HeldTokens
           later == HeldTokens'
           bases == [k \in DOMAIN last.saw |-> Kv!BaseBelow(last.saw[k][2])]
<1>1. KVCTX \in Nat /\ 1 \in Layer
  BY EngineAssumption DEF Layer
<1>2. keep \in 0 .. n
  BY KeptIs
<1>3. /\ h.len = [l \in Layer |-> keep + m]
      /\ \A i \in 1 .. keep : h.slots[1][i] = slots[1][i + (n - keep)]
      /\ \A i \in 1 .. m : h.slots[1][keep + i].row = c[i]
      /\ IsList(h.rows, m)
      /\ DOMAIN last.saw = 1 .. keep + m
      /\ \A k \in 1 .. keep + m : Kv!BaseBelow(last.saw[k][2]) = h.slots[1][k].row
  BY DEF SlidBy
<1>4. held = [i \in 1 .. n |-> slots[1][i].row]
  BY DEF HeldTokens
<1>5. later = [i \in 1 .. keep + m |-> h.slots[1][i].row]
  <2>1. seqLen'[1] = keep + m
    BY <1>1, <1>3
  <2> QED
    BY <2>1 DEF HeldTokens
<1>6. bases = [k \in 1 .. keep + m |-> h.slots[1][k].row]
  BY <1>3
<1>7. bases = later
  BY <1>5, <1>6
<1>8. /\ answer'.op = op /\ answer'.chunk = c /\ answer'.cached = cached
      /\ answer'.rows = IF op = "last" THEN <<h.rows[Len(h.rows)]>> ELSE h.rows
  BY DEF AnswerTo
<1>9. answer'.rows[Len(answer'.rows)] = last
  <2>1. Len(h.rows) = m
    BY <1>3, ListIsSeq
  <2> DEFINE rows == h.rows
             said == answer'.rows
  <2>2. said = IF op = "last" THEN <<rows[m]>> ELSE rows
    BY <1>8, <2>1
  <2>3. Len(rows) = m /\ last = rows[m]
    BY <2>1
  <2> HIDE DEF rows, said, last
  <2>4. said[Len(said)] = last
    BY <2>2, <2>3
  <2> QED
    BY <2>4 DEF said
<1>10. Len(c) = m /\ Len(held) = n
  <2>1. IsList(held, n)
    BY <1>4 DEF IsList
  <2> QED
    BY <2>1, ListIsSeq
<1> HIDE DEF keep, held, later, last, bases
<1>11. later = IF n + m > KVCTX THEN Kv!LastOf(held \o c, KVCTX) ELSE held \o c
  <2>1. IsList(held, n) /\ IsList(later, keep + m)
    BY <1>2, <1>4, <1>5 DEF IsList
  <2>2. \A i \in 1 .. keep : later[i] = held[i + (n - keep)]
    <3>1. ASSUME NEW i \in 1 .. keep PROVE later[i] = held[i + (n - keep)]
      <4>1. i + (n - keep) \in 1 .. n /\ i \in 1 .. keep + m
        BY <1>2
      <4> QED
        BY <1>3, <1>4, <1>5, <4>1
    <3> QED
      BY <3>1
  <2>3. \A i \in 1 .. m : later[keep + i] = c[i]
    <3>1. ASSUME NEW i \in 1 .. m PROVE later[keep + i] = c[i]
      <4>1. keep + i \in 1 .. keep + m
        BY <1>2
      <4> QED
        BY <1>3, <1>5, <4>1
    <3> QED
      BY <3>1
  <2> QED
    BY <2>1, <2>2, <2>3, SlidTokens DEF keep
<1>12. bases = [k \in DOMAIN last.saw |-> Kv!BaseBelow(last.saw[k][2])]
  BY DEF bases
<1> QED
  BY <1>7, <1>8, <1>9, <1>10, <1>11, <1>12 DEF Kv!Slide, held, later

-----------------------------------------------------------------------------
(* The invariant of the engines.                                           *)

\* Every layer has the same length, the caches that are allocated keep their size and the
\* others are as long as what they hold.
CachesFit(sl, n, f) ==
    /\ n \in Nat /\ f \in Nat /\ f <= FEEDS
    /\ sl = [l \in Layer |-> sl[l]]
    /\ Allocated(engine_) => n <= KVCTX /\ \A l \in Layer : IsList(sl[l], KVCTX)
    /\ ~Allocated(engine_) => \A l \in Layer : IsList(sl[l], n)
    /\ engine_ = "mlx" => n <= f

\* The window of a CPU engine slid: every slot still comes from the token of its column, but
\* no key stands at its own position any more.
SlidAway(sl, n) ==
    /\ engine_ \in {"llama", "phi"} /\ n >= 1 /\ Traced(sl, n)
    /\ \A i \in 1 .. n : sl[1][i].pos \in Nat \ {0}

EngineInv ==
    /\ engine_ \in Engines
    /\ seqLen = [l \in Layer |-> seqLen[1]]
    /\ CachesFit(slots, seqLen[1], fed)
    /\ HoldsRows(Sliding, slots, seqLen[1], HeldTokens) \/ SlidAway(slots, seqLen[1])

\* The invariant after a call that leaves the caches right, and after one that slid.
LEMMA InvHeld ==
    ASSUME engine_ \in Engines, engine_' = engine_, NEW k \in Nat, seqLen' = [l \in Layer |-> k],
           CachesFit(slots', k, fed'), NEW toks, HoldsRows(Sliding, slots', k, toks)
    PROVE  /\ EngineInv' /\ HeldTokens' = toks
           /\ \A i \in 1 .. seqLen'[1] : slots'[1][i].pos = i - 1
<1>1. 1 \in Layer
  BY EngineAssumption DEF Layer
<1>2. seqLen'[1] = k
  BY <1>1
<1>3. HeldTokens' = toks /\ \A i \in 1 .. seqLen'[1] : slots'[1][i].pos = i - 1
  BY <1>2, ExactThen
<1>4. Sliding' = Sliding
  BY DEF Sliding
<1>5. HoldsRows(Sliding, slots, seqLen[1], HeldTokens)'
  BY <1>2, <1>3, <1>4 DEF HoldsRows
<1>6. CachesFit(slots, seqLen[1], fed)'
  BY <1>2 DEF CachesFit
<1>7. (seqLen = [l \in Layer |-> seqLen[1]])' /\ (engine_ \in Engines)'
  BY <1>2
<1> QED
  BY <1>3, <1>5, <1>6, <1>7 DEF EngineInv

\* The invariant after a call that slid.
LEMMA InvSlid ==
    ASSUME engine_ \in Engines, engine_' = engine_, NEW k \in Nat, seqLen' = [l \in Layer |-> k],
           CachesFit(slots', k, fed'), SlidAway(slots', k)
    PROVE  EngineInv'
<1>1. 1 \in Layer
  BY EngineAssumption DEF Layer
<1>2. seqLen'[1] = k
  BY <1>1
<1>5. SlidAway(slots, seqLen[1])'
  BY <1>2 DEF SlidAway
<1>6. CachesFit(slots, seqLen[1], fed)'
  BY <1>2 DEF CachesFit
<1>7. (seqLen = [l \in Layer |-> seqLen[1]])' /\ (engine_ \in Engines)'
  BY <1>2
<1> QED
  BY <1>5, <1>6, <1>7 DEF EngineInv

\* A chunk of tokens fed.
LEMMA ChunkIs ==
    ASSUME NEW m \in Nat
    PROVE  IsList(NextChunk(m), m)
  BY DEF IsList, NextChunk

\* What the invariant says before a call.
Shape(n) ==
    /\ n \in Nat /\ seqLen = [l \in Layer |-> n] /\ seqLen[1] = n /\ CachesFit(slots, n, fed)
    /\ engine_ \in Engines

\* The invariant gives the shape and what is held.
LEMMA ShapeIs ==
    ASSUME EngineInv
    PROVE  Shape(seqLen[1]) /\ (HoldsRows(Sliding, slots, seqLen[1], HeldTokens) \/ SlidAway(slots, seqLen[1]))
  BY DEF EngineInv, Shape, CachesFit

KvStep == Kv!Extend \/ Kv!Slide \/ Kv!Fresh \/ Kv!Truncate \/ Kv!Refuse

\* A call the engine does not have, or a chunk it refuses: nothing changes.
LEMMA RefusesUnchanged ==
    ASSUME EngineInv, engine_' = engine_, NEW c, NEW m \in Nat, IsList(c, m), fed' \in Nat, fed <= fed', fed' <= FEEDS,
           Unsupported(c)
    PROVE  KvStep /\ EngineInv'
<1> DEFINE n == seqLen[1]
           part == SubSeq(c, 1, 0)
           held == HeldTokens
<1>1. answer' = [op |-> "err", chunk |-> c] /\ slots' = slots /\ seqLen' = seqLen
  BY DEF Unsupported, Refuses
<1>2. Shape(n) /\ (HoldsRows(Sliding, slots, n, HeldTokens) \/ SlidAway(slots, n))
  BY ShapeIs
<1>3. n \in Nat /\ seqLen = [l \in Layer |-> n] /\ CachesFit(slots, n, fed) /\ engine_ \in Engines
  BY <1>2 DEF Shape
<1>4. IsList(held, n)
  BY <1>3 DEF HeldTokens, IsList
<1>5. HeldTokens' = held
  BY <1>1 DEF HeldTokens
<1>6. part = << >>
  BY NoneIs
<1> HIDE DEF n, held, part
<1>7. held \o << >> = held
  BY <1>3, <1>4, JoinedNothing
<1>8. HeldTokens' = HeldTokens \o part
  BY <1>5, <1>6, <1>7 DEF held
<1>9. Kv!Refuse
  <2>1. part = SubSeq(c, 1, 0) /\ 0 \in 0 .. m
    BY DEF part
  <2>2. (\A i \in 1 .. seqLen[1] : slots[1][i].pos = i - 1) => \A i \in 1 .. seqLen'[1] : slots'[1][i].pos = i - 1
    BY <1>1
  <2> QED
    BY <1>1, <1>8, <2>1, <2>2, ToRefuse
<1>10. CachesFit(slots', n, fed')
  <2>1. fed \in Nat
    BY <1>3 DEF CachesFit
  <2> QED
    BY <1>1, <1>3, <2>1 DEF CachesFit, Allocated
<1>11. EngineInv'
  <2>1. seqLen' = [l \in Layer |-> n]
    BY <1>1, <1>3
  <2>2. CASE HoldsRows(Sliding, slots, n, HeldTokens)
    <3>1. HoldsRows(Sliding, slots', n, held)
      BY <1>1, <2>2 DEF held
    <3> QED
      BY <1>3, <1>10, <2>1, <3>1, InvHeld
  <2>3. CASE SlidAway(slots, n)
    <3>1. SlidAway(slots', n)
      BY <1>1, <2>3
    <3> QED
      BY <1>3, <1>10, <2>1, <3>1, InvSlid
  <2> QED
    BY <1>2, <2>2, <2>3
<1> QED
  BY <1>9, <1>11 DEF KvStep

\* A chunk appended in the context of what is held.
LEMMA AppendedAndHeld ==
    ASSUME engine_ \in Engines, engine_' = engine_, NEW n \in Nat, seqLen[1] = n,
           NEW toks, HoldsRows(Sliding, slots, n, toks), NEW c, NEW m \in Nat \ {0}, IsList(c, m), n + m <= MostPositions,
           seqLen' = [l \in Layer |-> n + m], CachesFit(slots', n + m, fed'),
           NEW rows, Extended(Sliding, slots', rows, toks, n, c, m),
           NEW op \in {"last", "all"}, NEW cached, cached, answer' = AnswerTo(op, c, cached, rows)
    PROVE  KvStep /\ EngineInv'
<1> DEFINE j == toks \o c
           k == n + m
<1>1. HoldsRows(Sliding, slots', k, j) /\ After(RowsOver(Sliding, j)[LAYERS], n, m, rows)
  BY DEF Extended
<1>2. k \in Nat /\ seqLen' = [l \in Layer |-> k] /\ CachesFit(slots', k, fed')
  OBVIOUS
<1>3. EngineInv'
  <2> HIDE DEF j, k
  <2> QED
    BY <1>1, <1>2, InvHeld
<1>4. Kv!Extend
  <2>1. 1 \in Layer
    BY EngineAssumption DEF Layer
  <2>2. seqLen'[1] = n + m
    BY <2>1
  <2>3. HoldsRows(Sliding, slots', n + m, toks \o c) /\ After(RowsOver(Sliding, toks \o c)[LAYERS], n, m, rows)
    BY <1>1
  <2> QED
    BY <2>2, <2>3, ToExtend
<1> QED
  BY <1>3, <1>4 DEF KvStep

\* A cached call of a CPU engine, whether the window slides or not.
LEMMA LlamaCached ==
    ASSUME EngineInv, NEW n, n = seqLen[1], engine_ \in {"llama", "phi"}, engine_' = engine_,
           NEW c, NEW m \in Nat \ {0}, IsList(c, m), fed' \in Nat, fed <= fed', fed' <= FEEDS,
           NEW op \in {"last", "all"}, LlamaCall(c, op, TRUE)
    PROVE  KvStep /\ EngineInv'
<1> DEFINE h == LlamaHidden(c, TRUE)
<1>0. Shape(n) /\ (HoldsRows(Sliding, slots, n, HeldTokens) \/ SlidAway(slots, n))
  BY ShapeIs
<1>1. KVCTX \in Nat /\ Len(c) = m /\ n \in Nat /\ m \in Nat
  BY <1>0, EngineAssumption, ListIsSeq DEF Shape
<1>2. /\ n <= KVCTX /\ seqLen = [l \in Layer |-> n] /\ seqLen[1] = n /\ engine_ \in Engines
      /\ CachesFit(slots, n, fed)
  BY <1>0 DEF Shape, CachesFit, Allocated
<1>3. Sliding = {} /\ Allocated(engine_) /\ Allocated(engine_')
  BY DEF Sliding, Allocated
<1>4. CASE m > KVCTX
  <2>1. Unsupported(c)
    BY <1>1, <1>4 DEF LlamaCall, Unsupported
  <2> QED
    BY <1>1, <2>1, RefusesUnchanged
<1>5. CASE ~(m > KVCTX)
  <2>0. m <= KVCTX
    BY <1>1, <1>5
  <2>1. slots' = h.slots /\ seqLen' = h.len /\ answer' = AnswerTo(op, c, TRUE, h.rows)
    BY <1>1, <1>5 DEF LlamaCall, Replies, AnswerTo
  <2> HIDE DEF h
  <2>2. CASE n + m <= KVCTX /\ HoldsRows(Sliding, slots, n, HeldTokens)
    <3> DEFINE toks == HeldTokens
               rows == h.rows
    <3>1. HoldsRows({}, slots, n, toks)
      BY <1>3, <2>2
    <3> HIDE DEF toks
    <3>2. /\ h.len = [l \in Layer |-> n + m]
          /\ h.slots = [l \in Layer |-> h.slots[l]] /\ \A l \in Layer : IsList(h.slots[l], KVCTX)
          /\ Extended({}, h.slots, h.rows, toks, n, c, m)
      <4>1. n \in Nat /\ m \in Nat /\ seqLen = [l \in Layer |-> n] /\ HoldsRows({}, slots, n, toks) /\ IsList(c, m) /\ n + m <= KVCTX
        BY <1>1, <1>2, <2>2, <3>1
      <4> HIDE DEF rows
      <4> QED
        BY ONLY <4>1, LlamaExtends, EngineAssumption DEF h
    <3>3. CachesFit(slots', n + m, fed')
      BY <1>1, <1>3, <2>1, <2>2, <3>2 DEF CachesFit, Allocated
    <3> DEFINE cached == TRUE
    <3>4. answer' = AnswerTo(op, c, cached, rows) /\ cached
      BY <2>1
    <3>5. seqLen' = [l \in Layer |-> n + m] /\ n + m <= MostPositions
      BY <1>3, <2>1, <2>2, <3>2 DEF MostPositions
    <3>6. Extended(Sliding, slots', rows, toks, n, c, m) /\ HoldsRows(Sliding, slots, n, toks)
      BY <1>3, <2>1, <3>1, <3>2
    <3> HIDE DEF rows, cached
    <3> QED
      BY <1>1, <1>2, <3>3, <3>4, <3>5, <3>6, AppendedAndHeld
  <2>3. CASE ~(n + m <= KVCTX /\ HoldsRows(Sliding, slots, n, HeldTokens))
    <3>1. Traced(slots, n)
      BY <1>0, <1>1, HoldsTraced DEF SlidAway
    <3>2. SlidBy(h, n, c, m)
      BY <1>1, <1>2, <2>0, <3>1, LlamaSlides DEF h
    <3> DEFINE keep == KeptOf(n, m)
    <3>3. /\ n + m <= KVCTX => keep = n
          /\ n + m > KVCTX => keep = KVCTX - m
          /\ keep \in 0 .. n
      BY <1>1, <1>2, <2>0, KeptIs
    <3>4. keep + m \in Nat /\ keep + m >= 1 /\ keep + m <= KVCTX
      BY <1>1, <1>5, <3>3
    <3>5. /\ h.len = [l \in Layer |-> keep + m]
          /\ h.slots = [l \in Layer |-> h.slots[l]] /\ \A l \in Layer : IsList(h.slots[l], KVCTX)
          /\ Traced(h.slots, keep + m)
          /\ \A i \in 1 .. keep : h.slots[1][i] = slots[1][i + (n - keep)]
          /\ \A i \in 1 .. m : h.slots[1][keep + i].pos = n + i - 1
      BY <3>2 DEF SlidBy
    <3> HIDE DEF keep
    <3>6. n >= 1
      BY <1>0, <1>1, <2>0, <2>3 DEF SlidAway
    <3>7. \A i \in 1 .. keep : slots[1][i + (n - keep)].pos \in Nat \ {0}
      <4>1. ASSUME NEW i \in 1 .. keep PROVE slots[1][i + (n - keep)].pos \in Nat \ {0}
        <5>1. i + (n - keep) \in 1 .. n
          BY <1>1, <3>3
        <5>2. CASE SlidAway(slots, n)
          BY <5>1, <5>2 DEF SlidAway
        <5>3. CASE HoldsRows(Sliding, slots, n, HeldTokens)
          <6>1. \A k \in 1 .. seqLen[1] : slots[1][k].pos = k - 1
            BY <1>1, <1>2, <5>3, ExactWhen
          <6>2. n + m > KVCTX
            BY <1>1, <2>3, <5>3
          <6> DEFINE k == i + (n - keep)
          <6>3. k - 1 \in Nat \ {0}
            BY <1>1, <3>3, <6>2
          <6>4. k \in 1 .. seqLen[1]
            BY <1>2, <5>1
          <6> HIDE DEF k
          <6>5. slots[1][k].pos = k - 1
            BY <6>1, <6>4
          <6>6. slots[1][k].pos \in Nat \ {0}
            BY <6>3, <6>5
          <6> QED
            BY <6>6 DEF k
        <5> QED
          BY <1>0, <5>2, <5>3
      <4> QED
        BY <4>1
    <3>8. \A i \in 1 .. keep + m : h.slots[1][i].pos \in Nat \ {0}
      <4>1. ASSUME NEW i \in 1 .. keep + m PROVE h.slots[1][i].pos \in Nat \ {0}
        <5>1. CASE i \in 1 .. keep
          BY <3>5, <3>7, <5>1
        <5>2. CASE i \notin 1 .. keep
          <6>1. i - keep \in 1 .. m /\ keep + (i - keep) = i /\ n + (i - keep) - 1 \in Nat \ {0}
            BY <1>1, <3>3, <3>6, <5>2
          <6>2. h.slots[1][keep + (i - keep)].pos = n + (i - keep) - 1
            BY <3>5, <6>1
          <6> QED
            BY <6>1, <6>2
        <5> QED
          BY <5>1, <5>2
      <4> QED
        BY <4>1
    <3>9. SlidAway(slots', keep + m)
      BY <2>1, <3>4, <3>5, <3>8 DEF SlidAway
    <3>10. CachesFit(slots', keep + m, fed')
      BY <1>1, <1>3, <2>1, <3>4, <3>5 DEF CachesFit, Allocated
    <3>11. EngineInv'
      <4>1. seqLen' = [l \in Layer |-> keep + m]
        BY <2>1, <3>5
      <4> QED
        BY <1>2, <3>4, <3>9, <3>10, <4>1, InvSlid
    <3>12. n + m > KVCTX \/ ~\A i \in 1 .. n : slots[1][i].pos = i - 1
      <4>1. CASE n + m > KVCTX
        BY <4>1
      <4>2. CASE SlidAway(slots, n)
        <5>1. 1 \in 1 .. n /\ slots[1][1].pos # 1 - 1
          BY <1>1, <3>6, <4>2 DEF SlidAway
        <5> QED
          BY <5>1
      <4>3. CASE n + m <= KVCTX /\ ~SlidAway(slots, n)
        BY <1>0, <2>3, <4>3
      <4> QED
        BY <1>1, <4>1, <4>2, <4>3
    <3>13. Kv!Slide
      BY <1>1, <1>2, <2>0, <2>1, <3>2, <3>12, ToSlide
    <3> QED
      BY <3>11, <3>13 DEF KvStep
  <2> QED
    BY <2>2, <2>3
<1> QED
  BY <1>4, <1>5

\* Of no tokens, every cache holds what it should.
LEMMA NothingHeld == \A S, sl : HoldsRows(S, sl, 0, << >>)
  BY DEF HoldsRows, KeysAre, IsList

\* A chunk answered on its own that leaves nothing in the cache.
LEMMA FreshAndEmpty ==
    ASSUME engine_ \in Engines, engine_' = engine_, NEW c, NEW m \in Nat, IsList(c, m),
           seqLen' = [l \in Layer |-> 0], CachesFit(slots', 0, fed'),
           NEW rows, After(RowsOver(Sliding, << >> \o c)[LAYERS], 0, m, rows),
           NEW op \in {"last", "all", "mean"}, NEW cached, answer' = AnswerTo(op, c, cached, rows)
    PROVE  KvStep /\ EngineInv'
<1>1. rows = RowsOver(Sliding, c)[LAYERS]
  BY AloneIs
<1> DEFINE none == << >>
           sl == slots'
           S == Sliding
<1>2. HoldsRows(S, sl, 0, none) /\ 0 \in Nat
  BY NothingHeld
<1>3. none = << >>
  OBVIOUS
<1> HIDE DEF none, S
<1>4. HoldsRows(Sliding, slots', 0, none)
  BY <1>2 DEF S
<1>5. EngineInv' /\ HeldTokens' = none /\ \A i \in 1 .. seqLen'[1] : slots'[1][i].pos = i - 1
  BY <1>2, <1>4, InvHeld
<1>6. Kv!Fresh
  BY <1>1, <1>3, <1>5, ToFresh
<1> QED
  BY <1>5, <1>6 DEF KvStep

\* A call of a CPU engine without the cache.
LEMMA LlamaUncached ==
    ASSUME NEW n, Shape(n), engine_ \in {"llama", "phi"}, engine_' = engine_,
           NEW c, NEW m \in Nat \ {0}, IsList(c, m), fed' \in Nat, fed' <= FEEDS,
           NEW op \in {"last", "all", "mean"}, LlamaCall(c, op, FALSE)
    PROVE  KvStep /\ EngineInv'
<1> DEFINE h == LlamaHidden(c, FALSE)
<1>1. /\ slots = [l \in Layer |-> slots[l]] /\ engine_ \in Engines /\ m \in Nat
      /\ \A l \in Layer : IsList(slots[l], KVCTX)
  BY DEF Shape, CachesFit, Allocated
<1>2. Sliding = {}
  BY DEF Sliding
<1>3. slots' = h.slots /\ seqLen' = h.len /\ answer' = AnswerTo(op, c, FALSE, h.rows)
  BY DEF LlamaCall, Replies, AnswerTo
<1>4. /\ h.len = [l \in Layer |-> 0] /\ h.slots = slots
      /\ After(RowsOver({}, << >> \o c)[LAYERS], 0, m, h.rows)
  BY ONLY <1>1, IsList(c, m), LlamaAlone
<1> HIDE DEF h
<1>5. CachesFit(slots', 0, fed')
  BY <1>1, <1>3, <1>4, EngineAssumption DEF CachesFit, Allocated
<1> DEFINE rows == h.rows
<1>6. After(RowsOver(Sliding, << >> \o c)[LAYERS], 0, m, rows) /\ seqLen' = [l \in Layer |-> 0]
  BY <1>2, <1>3, <1>4
<1>7. answer' = AnswerTo(op, c, FALSE, rows)
  BY <1>3
<1> HIDE DEF rows
<1> QED
  BY <1>1, <1>5, <1>6, <1>7, FreshAndEmpty

\* The calls of PhiForward are those of LlamaForward.
LEMMA PhiCallIsLlamas == \A c, op, useCache : PhiCall(c, op, useCache) <=> LlamaCall(c, op, useCache)
  BY PhiHiddenIsLlamas DEF PhiCall, LlamaCall


\* A chunk answered on its own that stays in the cache.
LEMMA FreshAndHeld ==
    ASSUME engine_ \in Engines, engine_' = engine_, NEW c, NEW m \in Nat, IsList(c, m),
           seqLen' = [l \in Layer |-> m], CachesFit(slots', m, fed'), HoldsRows(Sliding, slots', m, c),
           NEW rows, rows = RowsOver(Sliding, c)[LAYERS],
           NEW op \in {"last", "all", "mean"}, NEW cached, answer' = AnswerTo(op, c, cached, rows)
    PROVE  KvStep /\ EngineInv'
<1>1. EngineInv' /\ HeldTokens' = c /\ \A i \in 1 .. seqLen'[1] : slots'[1][i].pos = i - 1
  BY InvHeld
<1>2. Kv!Fresh
  BY <1>1, ToFresh
<1> QED
  BY <1>1, <1>2 DEF KvStep

\* forward_logits of Gemma 3.
LEMMA GemmaCalled ==
    ASSUME EngineInv, NEW n, n = seqLen[1], engine_ = "gemma3", engine_' = engine_,
           NEW c, NEW m \in Nat \ {0}, IsList(c, m), fed' \in Nat, fed' <= FEEDS,
           NEW useCache \in BOOLEAN, GemmaCall(c, useCache)
    PROVE  KvStep /\ EngineInv'
<1> DEFINE h == GemmaHidden(c, useCache)
           rows == h.rows
           drop == GemmaDrops(c, useCache)
           cached == useCache /\ ~(useCache /\ seqLen[1] + Len(c) > KVCTX)
<1>1. Shape(n) /\ HoldsRows(Sliding, slots, n, HeldTokens)
  BY ShapeIs DEF SlidAway
<1>2. /\ n \in Nat /\ m \in Nat /\ KVCTX \in Nat /\ Len(c) = m /\ seqLen[1] = n /\ engine_ \in Engines
      /\ slots = [l \in Layer |-> slots[l]] /\ \A l \in Layer : IsList(slots[l], n)
  BY <1>1, EngineAssumption, ListIsSeq DEF Shape, CachesFit, Allocated
<1>3. Sliding = GemmaSliding /\ ~Allocated(engine_) /\ engine_ # "mlx" /\ MostPositions = KVCTX
  BY DEF Sliding, GemmaSliding, Allocated, MostPositions
<1>4. slots' = h.slots /\ seqLen' = h.len /\ answer' = AnswerTo("last", c, cached, h.rows)
  BY DEF GemmaCall, Replies, AnswerTo
<1>5. CASE drop
  <2> DEFINE old == GemmaOld(drop)
             none == << >>
  <2>1. old = [l \in Layer |-> none] /\ GemmaStart(c, useCache) = 0
    BY <1>5 DEF GemmaOld, GemmaStart
  <2>2. IsList(none, 0)
    BY DEF IsList
  <2>3. HoldsRows(GemmaSliding, old, 0, none)
    BY NothingHeld
  <2>4. \A l \in Layer : IsList(old[l], 0)
    BY <2>1, <2>2
  <2> HIDE DEF none
  <2>a. GemmaReady(c, useCache, 0, none)
    BY <2>1, <2>3, <2>4 DEF GemmaReady
  <2>b. GemmaGives(h, c, useCache, 0, m, none)
    BY <1>2, <2>a, GemmaExtends
  <2>5. /\ h.len = [l \in Layer |-> IF useCache THEN 0 + m ELSE 0]
        /\ h.slots = [l \in Layer |-> h.slots[l]]
        /\ After(RowsOver(GemmaSliding, none \o c)[LAYERS], 0, m, h.rows)
        /\ useCache => /\ \A l \in Layer : IsList(h.slots[l], 0 + m)
                       /\ HoldsRows(GemmaSliding, h.slots, 0 + m, none \o c)
        /\ ~useCache => h.slots = old
    BY <2>b DEF GemmaGives
  <2> HIDE DEF h, drop, cached, old
  <2>6. CASE useCache
    <3>1. rows = RowsOver(Sliding, c)[LAYERS] /\ none \o c = c
      <4>1. After(RowsOver(Sliding, << >> \o c)[LAYERS], 0, m, rows)
        BY <1>3, <2>5 DEF none
      <4> HIDE DEF rows
      <4>2. rows = RowsOver(Sliding, c)[LAYERS] /\ << >> \o c = c
        BY <1>2, <4>1, AloneIs
      <4> QED
        BY <4>2 DEF none
    <3>2. seqLen' = [l \in Layer |-> m] /\ HoldsRows(Sliding, slots', m, c) /\ CachesFit(slots', m, fed')
      BY <1>2, <1>3, <1>4, <2>5, <2>6, <3>1 DEF CachesFit, Allocated
    <3>3. answer' = AnswerTo("last", c, cached, rows)
      BY <1>4
    <3> HIDE DEF rows
    <3> QED
      BY <1>2, <3>1, <3>2, <3>3, FreshAndHeld
  <2>7. CASE ~useCache
    <3>1. After(RowsOver(Sliding, << >> \o c)[LAYERS], 0, m, rows)
      BY <1>3, <2>5 DEF none
    <3>2. seqLen' = [l \in Layer |-> 0] /\ CachesFit(slots', 0, fed')
      BY <1>2, <1>3, <1>4, <2>1, <2>2, <2>5, <2>7 DEF CachesFit, Allocated
    <3>3. answer' = AnswerTo("last", c, cached, rows)
      BY <1>4
    <3> HIDE DEF rows
    <3> QED
      BY <1>2, <3>1, <3>2, <3>3, FreshAndEmpty
  <2> QED
    BY <2>6, <2>7
<1>6. CASE ~drop
  <2> DEFINE old == GemmaOld(drop)
             toks == HeldTokens
  <2>1. useCache /\ n + m <= KVCTX /\ cached
    BY <1>2, <1>6 DEF GemmaDrops
  <2>2. old = slots /\ GemmaStart(c, useCache) = n
    BY <1>2, <1>6 DEF GemmaOld, GemmaStart
  <2>3. HoldsRows(GemmaSliding, old, n, toks) /\ \A l \in Layer : IsList(old[l], n)
    BY <1>1, <1>2, <1>3, <2>2
  <2> HIDE DEF toks
  <2>a. GemmaReady(c, useCache, n, toks)
    BY <2>2, <2>3 DEF GemmaReady
  <2>b. GemmaGives(h, c, useCache, n, m, toks)
    BY <1>2, <2>a, GemmaExtends
  <2>4. /\ h.len = [l \in Layer |-> IF useCache THEN n + m ELSE 0]
        /\ h.slots = [l \in Layer |-> h.slots[l]]
        /\ After(RowsOver(GemmaSliding, toks \o c)[LAYERS], n, m, h.rows)
        /\ useCache => /\ \A l \in Layer : IsList(h.slots[l], n + m)
                       /\ HoldsRows(GemmaSliding, h.slots, n + m, toks \o c)
    BY <2>b DEF GemmaGives
  <2> HIDE DEF h, drop, cached, old
  <2>5. seqLen' = [l \in Layer |-> n + m] /\ CachesFit(slots', n + m, fed')
    BY <1>2, <1>3, <1>4, <2>1, <2>4 DEF CachesFit, Allocated
  <2>6. Extended(Sliding, slots', rows, toks, n, c, m) /\ HoldsRows(Sliding, slots, n, toks)
    BY <1>1, <1>3, <1>4, <2>1, <2>4 DEF Extended, toks
  <2>7. answer' = AnswerTo("last", c, cached, rows) /\ n + m <= MostPositions
    BY <1>3, <1>4, <2>1
  <2> HIDE DEF rows
  <2> QED
    BY <1>2, <2>1, <2>5, <2>6, <2>7, AppendedAndHeld
<1> QED
  BY <1>5, <1>6


NoCaches == [l \in Layer |-> << >>]

\* Emptied caches fit.
LEMMA NoCachesFit ==
    ASSUME engine_ \in {"gemma3", "mlx"}, fed' \in Nat, fed' <= FEEDS, NEW sl, sl = NoCaches
    PROVE  CachesFit(sl, 0, fed')
<1>1. ~Allocated(engine_) /\ IsList(<< >>, 0)
  BY DEF Allocated, IsList
<1> DEFINE none == << >>
<1> HIDE DEF none
<1>2. sl = [l \in Layer |-> none] /\ IsList(none, 0)
  BY <1>1 DEF NoCaches, none
<1>3. sl = [l \in Layer |-> sl[l]] /\ \A l \in Layer : IsList(sl[l], 0)
  BY <1>2
<1> QED
  BY <1>1, <1>3 DEF CachesFit

\* A chunk of the Metal graph that is not cached leaves it empty.
LEMMA MlxAlone ==
    ASSUME EngineInv, engine_ = "mlx", engine_' = engine_,
           NEW c, NEW m \in Nat \ {0}, IsList(c, m), fed' \in Nat, fed' <= FEEDS,
           NEW useCache, ~useCache, NEW h, h = MlxPass(c, NoCaches, 0, useCache),
           slots' = h.slots \/ slots' = NoCaches, seqLen' = [l \in Layer |-> 0],
           NEW op \in {"last", "all"}, NEW cached, answer' = AnswerTo(op, c, cached, h.rows)
    PROVE  KvStep /\ EngineInv'
<1> DEFINE none == << >>
           rows == h.rows
           caches == NoCaches
<1>1. IsList(none, 0) /\ engine_ \in Engines /\ Sliding = {} /\ m \in Nat
  BY DEF IsList, Engines, Sliding
<1>2. HoldsRows({}, MlxOld(caches, useCache), 0, none)
  BY NothingHeld
<1>3. \A l \in Layer : MlxOld(caches, useCache)[l] = none
  BY DEF MlxOld
<1> HIDE DEF none, caches
<1>4. MlxReady(caches, useCache, 0, none)
  BY <1>1, <1>2, <1>3 DEF MlxReady
<1>5. h = MlxPass(c, caches, 0, useCache)
  BY DEF caches
<1>6. MlxGives(h, c, caches, useCache, 0, m, none)
  BY <1>4, <1>5, MlxExtends
<1>7. After(RowsOver(Sliding, << >> \o c)[LAYERS], 0, m, rows)
  BY <1>1, <1>6 DEF MlxGives, none
<1>8. slots' = NoCaches
  <2>1. h.slots = [l \in Layer |-> h.slots[l]] /\ \A l \in Layer : h.slots[l] = caches[l]
    BY <1>6 DEF MlxGives
  <2>2. caches = [l \in Layer |-> caches[l]]
    BY DEF caches, NoCaches
  <2> QED
    BY <2>1, <2>2 DEF caches
<1>9. CachesFit(slots', 0, fed')
  BY <1>8, NoCachesFit
<1>10. answer' = AnswerTo(op, c, cached, rows)
  OBVIOUS
<1> HIDE DEF rows
<1> QED
  BY <1>1, <1>7, <1>9, <1>10, FreshAndEmpty

\* forward_all_logits of the Metal graph.
LEMMA MlxAllCalled ==
    ASSUME EngineInv, engine_ = "mlx", engine_' = engine_,
           NEW c, NEW m \in Nat \ {0}, IsList(c, m), fed' \in Nat, fed' <= FEEDS, MlxAllLogits(c)
    PROVE  KvStep /\ EngineInv'
<1> DEFINE useCache == FALSE
           h == MlxPass(c, NoCaches, 0, useCache)
<1>1. ~useCache /\ slots' = NoCaches /\ seqLen' = [l \in Layer |-> 0] /\ answer' = AnswerTo("all", c, useCache, h.rows)
  BY DEF MlxAllLogits, MlxAll, Replies, AnswerTo, NoCaches
<1> HIDE DEF useCache
<1>2. h = MlxPass(c, NoCaches, 0, useCache)
  OBVIOUS
<1> HIDE DEF h
<1> QED
  BY <1>1, <1>2, MlxAlone

\* forward_logits of the Metal graph.
LEMMA MlxCalled ==
    ASSUME EngineInv, NEW n, n = seqLen[1], engine_ = "mlx", engine_' = engine_,
           NEW c, NEW m \in Nat \ {0}, IsList(c, m), fed' = fed + m, fed' <= FEEDS,
           NEW useCache \in BOOLEAN, MlxLogits(c, useCache)
    PROVE  KvStep /\ EngineInv'
<1> DEFINE caches == IF useCache THEN slots ELSE NoCaches
           first == IF useCache THEN seqLen[1] ELSE 0
           h == MlxPass(c, caches, first, useCache)
           toks == HeldTokens
<1>1. Shape(n) /\ HoldsRows(Sliding, slots, n, HeldTokens)
  BY ShapeIs DEF SlidAway
<1>2. /\ n \in Nat /\ m \in Nat /\ Len(c) = m /\ seqLen[1] = n /\ seqLen = [l \in Layer |-> n] /\ engine_ \in Engines
      /\ slots = [l \in Layer |-> slots[l]] /\ \A l \in Layer : IsList(slots[l], n)
      /\ fed \in Nat /\ n <= fed
  BY <1>1, ListIsSeq DEF Shape, CachesFit, Allocated
<1>3. Sliding = {} /\ ~Allocated(engine_) /\ MostPositions = FEEDS /\ fed' \in Nat
  BY <1>2 DEF Sliding, Allocated, MostPositions
<1>4. /\ slots' = h.slots /\ seqLen' = [l \in Layer |-> IF useCache THEN seqLen[l] + Len(c) ELSE 0]
      /\ answer' = AnswerTo("last", c, useCache, h.rows)
  BY DEF MlxLogits, Replies, AnswerTo, NoCaches
<1>5. CASE useCache
  <2>1. first = n /\ caches = slots
    BY <1>2, <1>5
  <2> HIDE DEF caches, first, toks
  <2>2. MlxReady(caches, useCache, n, toks)
    <3>1. MlxOld(caches, useCache) = caches
      BY <1>2, <1>5, <2>1 DEF MlxOld
    <3> QED
      BY <1>1, <1>2, <1>3, <2>1, <3>1 DEF MlxReady, toks
  <2>3. h = MlxPass(c, caches, n, useCache)
    BY <2>1
  <2> HIDE DEF h
  <2>4. MlxGives(h, c, caches, useCache, n, m, toks)
    BY <1>2, <2>2, <2>3, MlxExtends
  <2> DEFINE rows == h.rows
  <2>5. Extended(Sliding, slots', rows, toks, n, c, m) /\ HoldsRows(Sliding, slots, n, toks)
    BY <1>1, <1>3, <1>4, <1>5, <2>4 DEF Extended, MlxGives, toks
  <2>6. seqLen' = [l \in Layer |-> n + m]
    BY <1>2, <1>4, <1>5
  <2>7. CachesFit(slots', n + m, fed')
    BY <1>2, <1>3, <1>4, <1>5, <2>4 DEF CachesFit, Allocated, MlxGives
  <2>8. n + m <= MostPositions
    BY <1>2, <1>3, EngineAssumption
  <2>9. answer' = AnswerTo("last", c, useCache, rows)
    BY <1>4
  <2> HIDE DEF rows
  <2> QED
    BY <1>2, <1>5, <2>5, <2>6, <2>7, <2>8, <2>9, AppendedAndHeld
<1>6. CASE ~useCache
  <2>1. first = 0 /\ caches = NoCaches
    BY <1>6
  <2>2. h = MlxPass(c, NoCaches, 0, useCache)
    BY <2>1
  <2> HIDE DEF h
  <2>3. seqLen' = [l \in Layer |-> 0]
    BY <1>4, <1>6
  <2> QED
    BY <1>3, <1>4, <1>6, <2>2, <2>3, MlxAlone
<1> QED
  BY <1>5, <1>6

\* What the passes of the GPU engine leave: some of the chunk, and all of it when they succeed.
WgpuLeaves(w, toks, n, c, m, t) == t \in 0 .. m /\ WgpuHolds(w, toks, n, SubSeq(c, 1, t), t) /\ (w.ok => t = m)

\* The calls of the GPU engine, whether the chunk fits or not.
LEMMA WgpuCalled ==
    ASSUME EngineInv, NEW n, n = seqLen[1], engine_ = "wgpu", engine_' = engine_,
           NEW c, NEW m \in Nat \ {0}, IsList(c, m), fed' \in Nat, fed' <= FEEDS,
           NEW op \in {"last", "all"}, NEW useCache \in BOOLEAN, NEW size \in Nat \ {0}, WgpuCall(c, op, useCache, size)
    PROVE  KvStep /\ EngineInv'
<1> DEFINE first == IF useCache THEN seqLen[1] ELSE 0
           s0 == [slots |-> slots, cur |-> first]
           w == WgpuPasses(s0, c, size)
           toks == IF useCache THEN HeldTokens ELSE << >>
           sl == slots
<1>1. Shape(n) /\ HoldsRows(Sliding, slots, n, HeldTokens)
  BY ShapeIs DEF SlidAway
<1>2. /\ n \in Nat /\ m \in Nat /\ KVCTX \in Nat /\ n <= KVCTX /\ seqLen[1] = n /\ engine_ \in Engines
      /\ slots = [l \in Layer |-> slots[l]] /\ \A l \in Layer : IsList(slots[l], KVCTX)
  BY <1>1, EngineAssumption DEF Shape, CachesFit, Allocated
<1>3. Sliding = {} /\ Allocated(engine_) /\ MostPositions = KVCTX
  BY DEF Sliding, Allocated, MostPositions
<1>4. /\ slots' = w.slots /\ seqLen' = [l \in Layer |-> w.cur]
      /\ w.ok => answer' = AnswerTo(op, c, useCache, w.rows)
      /\ ~w.ok => answer' = [op |-> "err", chunk |-> c]
  BY DEF WgpuCall, Replies, Refuses, AnswerTo
<1>5. first \in Nat /\ first <= KVCTX /\ HoldsRows({}, slots, first, toks)
  <2>1. CASE useCache
    BY <1>1, <1>2, <1>3, <2>1
  <2>2. CASE ~useCache
    <3> DEFINE none == << >>
    <3>1. HoldsRows({}, slots, 0, none)
      BY NothingHeld
    <3>2. first = 0 /\ toks = none
      BY <2>2
    <3> HIDE DEF none
    <3> QED
      BY <1>2, <3>1, <3>2
  <2> QED
    BY <2>1, <2>2
<1>6. s0.slots = sl /\ s0.cur = first
  OBVIOUS
<1>7. sl = [l \in Layer |-> sl[l]] /\ (\A l \in Layer : IsList(sl[l], KVCTX)) /\ HoldsRows({}, sl, first, toks)
  BY <1>2, <1>5
<1>t. IsList(toks, first)
  BY <1>5 DEF HoldsRows
<1>u. useCache => first = n /\ toks = HeldTokens
  BY <1>2
<1>v. ~useCache => first = 0 /\ toks = << >>
  OBVIOUS
<1> HIDE DEF s0, first, toks, sl
<1>8. \E t \in 0 .. m : WgpuHolds(w, toks, first, SubSeq(c, 1, t), t) /\ (w.ok => t = m)
  BY <1>2, <1>5, <1>6, <1>7, WgpuPassesHold
<1>9. PICK t : WgpuLeaves(w, toks, first, c, m, t)
  BY <1>8 DEF WgpuLeaves
<1> HIDE DEF w
<1> DEFINE part == SubSeq(c, 1, t)
           rows == w.rows
<1>10. t \in 0 .. m /\ t \in Nat /\ WgpuHolds(w, toks, first, part, t) /\ (w.ok => t = m)
  BY <1>2, <1>9 DEF WgpuLeaves
<1> HIDE DEF part, rows
<1>11. /\ seqLen' = [l \in Layer |-> first + t] /\ first + t \in Nat /\ first + t <= KVCTX
       /\ slots' = [l \in Layer |-> slots'[l]] /\ \A l \in Layer : IsList(slots'[l], KVCTX)
       /\ Extended(Sliding, slots', rows, toks, first, part, t)
  BY <1>3, <1>4, <1>5, <1>10 DEF WgpuHolds, rows
<1>12. CachesFit(slots', first + t, fed')
  BY <1>3, <1>11 DEF CachesFit, Allocated
<1>13. CASE w.ok
  <2>1. t = m /\ part = c
    BY <1>2, <1>10, <1>13, AllIs DEF part
  <2>2. answer' = AnswerTo(op, c, useCache, rows)
    BY <1>4, <1>13 DEF rows
  <2>3. CASE useCache
    <3>1. first = n /\ seqLen' = [l \in Layer |-> n + m] /\ n + m <= MostPositions /\ CachesFit(slots', n + m, fed')
      BY <1>3, <1>11, <1>12, <1>u, <2>1, <2>3
    <3>2. Extended(Sliding, slots', rows, toks, n, c, m) /\ HoldsRows(Sliding, slots, n, toks)
      BY <1>1, <1>11, <1>u, <2>1, <2>3
    <3> QED
      BY <1>2, <2>2, <2>3, <3>1, <3>2, AppendedAndHeld
  <2>4. CASE ~useCache
    <3>1. first = 0 /\ toks = << >>
      BY <1>v, <2>4
    <3>2. 0 + m = m
      BY <1>2
    <3>3. HoldsRows(Sliding, slots', m, << >> \o c) /\ After(RowsOver(Sliding, << >> \o c)[LAYERS], 0, m, rows)
      BY <1>11, <2>1, <3>1, <3>2 DEF Extended
    <3>4. rows = RowsOver(Sliding, c)[LAYERS] /\ << >> \o c = c
      BY <1>2, <3>3, AloneIs
    <3>5. HoldsRows(Sliding, slots', m, c)
      BY <3>3, <3>4
    <3>6. seqLen' = [l \in Layer |-> m] /\ CachesFit(slots', m, fed')
      BY <1>11, <1>12, <2>1, <3>1, <3>2
    <3> QED
      BY <1>2, <2>2, <3>4, <3>5, <3>6, FreshAndHeld
  <2> QED
    BY <2>3, <2>4
<1>14. CASE ~w.ok
  <2> DEFINE k == first + t
             now == toks \o part
  <2>1. HoldsRows(Sliding, slots', k, now) /\ seqLen' = [l \in Layer |-> k] /\ k \in Nat /\ CachesFit(slots', k, fed')
    BY <1>11, <1>12 DEF Extended
  <2> HIDE DEF k, now
  <2>2. EngineInv' /\ HeldTokens' = now /\ \A i \in 1 .. seqLen'[1] : slots'[1][i].pos = i - 1
    BY <1>2, <2>1, InvHeld
  <2>3. IsList(part, t)
    <3>1. IsList(SubSeq(c, 0 + 1, 0 + t), t)
      BY <1>10, PartIs
    <3>2. 0 + 1 = 1 /\ 0 + t = t
      BY <1>10
    <3> QED
      BY <3>1, <3>2 DEF part
  <2>4. now = HeldTokens \o part \/ now = part
    <3>1. CASE useCache
      BY <1>u, <3>1 DEF now
    <3>2. CASE ~useCache
      <4>1. now = << >> \o part
        BY <1>v, <3>2 DEF now
      <4>2. << >> \o part = part
        BY <1>10, <2>3, EmptyJoined
      <4> QED
        BY <4>1, <4>2
    <3> QED
      BY <3>1, <3>2
  <2>5. HeldTokens' = HeldTokens \o part \/ HeldTokens' = part
    BY <2>2, <2>4
  <2>6. part = SubSeq(c, 1, t) /\ answer' = [op |-> "err", chunk |-> c]
    BY <1>4, <1>14 DEF part
  <2>7. Kv!Refuse
    BY <1>2, <1>10, <2>2, <2>5, <2>6, ToRefuse
  <2> QED
    BY <2>2, <2>7 DEF KvStep
<1> QED
  BY <1>13, <1>14

\* The first slots hold the first tokens.
LEMMA HoldsFirst ==
    ASSUME NEW S, NEW sl, NEW n \in Nat, NEW toks, HoldsRows(S, sl, n, toks), NEW k \in 0 .. n
    PROVE  HoldsRows(S, sl, k, SubSeq(toks, 1, k))
<1> DEFINE part == SubSeq(toks, 1, k)
<1>1. IsList(part, k) /\ \A i \in 1 .. k : part[i] = toks[i]
  <2>1. IsList(part, k - 1 + 1) /\ \A i \in 1 .. k - 1 + 1 : part[i] = toks[1 + i - 1]
    BY PartOf
  <2>2. k - 1 + 1 = k /\ \A i \in Nat : 1 + i - 1 = i
    OBVIOUS
  <2> QED
    BY <2>1, <2>2
<1>2. IsList(toks, n) /\ k \in Nat /\ k <= n
  BY DEF HoldsRows
<1> HIDE DEF part
<1>3. \A l \in 0 .. LAYERS, i \in 1 .. k : RowsOver(S, part)[l][i] = RowsOver(S, toks)[l][i]
  BY <1>1, <1>2, RowsOfPrefix
<1>4. ASSUME NEW l \in Layer PROVE KeysAre(sl[l], k, RowsOver(S, part)[l - 1])
  <2>1. l - 1 \in 0 .. LAYERS
    BY EngineAssumption DEF Layer
  <2> DEFINE x == RowsOver(S, toks)[l - 1]
             y == RowsOver(S, part)[l - 1]
             keys == sl[l]
  <2>2. KeysAre(keys, n, x)
    BY DEF HoldsRows
  <2>3. \A i \in 1 .. k : y[i] = x[i] /\ i \in 1 .. n
    BY <1>2, <1>3, <2>1
  <2> HIDE DEF x, y, keys
  <2>4. KeysAre(keys, k, y)
    BY <2>2, <2>3 DEF KeysAre
  <2> QED
    BY <2>4 DEF y, keys
<1> QED
  BY <1>1, <1>4 DEF HoldsRows, part

\* truncate_cache and reset_cache.
LEMMA TruncatedIs ==
    ASSUME EngineInv, engine_' = engine_, NEW k \in 0 .. KVCTX, TruncateCache(k)
    PROVE  KvStep /\ EngineInv'
<1> DEFINE n == seqLen[1]
           drops == engine_ \in {"gemma3", "mlx"}
           kept == IF drops THEN 0 ELSE Min({k, n})
<1>1. Shape(n) /\ (HoldsRows(Sliding, slots, n, HeldTokens) \/ SlidAway(slots, n))
  BY ShapeIs
<1>2. /\ n \in Nat /\ k \in Nat /\ engine_ \in Engines /\ CachesFit(slots, n, fed)
  BY <1>1, EngineAssumption DEF Shape
<1>3. /\ seqLen' = [l \in Layer |-> kept]
      /\ slots' = IF drops THEN NoCaches ELSE slots
      /\ answer' = [op |-> "kept", chunk |-> k, rows |-> kept]
      /\ fed' = fed
  BY DEF TruncateCache, NoCaches
<1>4. kept \in 0 .. n /\ kept <= k /\ (drops => kept = 0)
  <2> HIDE DEF n
  <2>1. Min({k, n}) = IF k <= n THEN k ELSE n
    BY <1>2, MinAndMax
  <2> QED
    BY <1>2, <2>1
<1> HIDE DEF n, kept
<1>5. 1 \in Layer
  BY EngineAssumption DEF Layer
<1>6. seqLen'[1] = kept /\ kept \in Nat /\ seqLen[1] = n
  BY <1>2, <1>3, <1>4, <1>5 DEF n
<1>7. \A i \in 1 .. kept : slots'[1][i] = slots[1][i]
  BY <1>3, <1>4
<1>8. Kv!Truncate
  BY <1>2, <1>3, <1>4, <1>6, <1>7, ToTruncate
<1>9. CachesFit(slots', kept, fed')
  <2>1. CASE drops
    <3>1. slots' = NoCaches /\ kept = 0 /\ fed' \in Nat /\ fed' <= FEEDS
      BY <1>2, <1>3, <1>4, <2>1 DEF CachesFit
    <3> QED
      BY <2>1, <3>1, NoCachesFit
  <2>2. CASE ~drops
    BY <1>2, <1>3, <1>4, <2>2, EngineAssumption DEF CachesFit, Allocated, Engines
  <2> QED
    BY <2>1, <2>2
<1>10. EngineInv'
  <2>1. CASE kept = 0
    <3> DEFINE none == << >>
               S == Sliding
               sl == slots'
    <3>1. HoldsRows(S, sl, 0, none)
      BY NothingHeld
    <3> HIDE DEF none, S
    <3>2. HoldsRows(Sliding, slots', kept, none)
      BY <2>1, <3>1 DEF S
    <3> QED
      BY <1>2, <1>3, <1>6, <1>9, <3>2, InvHeld
  <2>2. CASE kept # 0
    <3>1. ~drops /\ slots' = slots
      BY <1>3, <1>4, <2>2
    <3>2. CASE HoldsRows(Sliding, slots, n, HeldTokens)
      <4> DEFINE S == Sliding
                 now == SubSeq(HeldTokens, 1, kept)
      <4>1. HoldsRows(S, slots, kept, now)
        <5> DEFINE toks == HeldTokens
                   sl == slots
        <5>1. HoldsRows(S, sl, n, toks)
          BY <3>2
        <5> HIDE DEF S, toks, sl
        <5>2. HoldsRows(S, sl, kept, SubSeq(toks, 1, kept))
          BY <1>2, <1>4, <5>1, HoldsFirst
        <5> QED
          BY <5>2 DEF toks, sl
      <4> HIDE DEF now
      <4>2. HoldsRows(Sliding, slots', kept, now)
        BY <3>1, <4>1
      <4> QED
        BY <1>2, <1>3, <1>6, <1>9, <4>2, InvHeld
    <3>3. CASE SlidAway(slots, n)
      <4>1. kept >= 1 /\ \A i \in 1 .. kept : i \in 1 .. n
        BY <1>2, <1>4, <2>2
      <4>2. SlidAway(slots', kept)
        BY <3>1, <3>3, <4>1 DEF SlidAway, Traced
      <4> QED
        BY <1>2, <1>3, <1>6, <1>9, <4>2, InvSlid
    <3> QED
      BY <1>1, <3>2, <3>3
  <2> QED
    BY <2>1, <2>2
<1> QED
  BY <1>8, <1>10 DEF KvStep

-----------------------------------------------------------------------------
(* Every step.                                                             *)

\* A chunk that is fed has at least one token and no more than may come.
LEMMA ChunkFits ==
    ASSUME EngineInv, NEW m \in 1 .. Min({CHUNK, FEEDS - fed})
    PROVE  /\ m \in Nat \ {0} /\ IsList(NextChunk(m), m)
           /\ fed + m \in Nat /\ fed <= fed + m /\ fed + m <= FEEDS
<1>1. fed \in Nat /\ fed <= FEEDS /\ CHUNK \in Nat /\ FEEDS \in Nat
  BY EngineAssumption DEF EngineInv, CachesFit
<1> DEFINE d == FEEDS - fed
<1>2. d \in Nat
  BY <1>1
<1>3. Min({CHUNK, d}) = IF CHUNK <= d THEN CHUNK ELSE d
  <2> HIDE DEF d
  <2> QED
    BY <1>1, <1>2, MinAndMax
<1>4. m \in Nat \ {0} /\ m <= d
  BY <1>1, <1>2, <1>3
<1> QED
  BY <1>1, <1>4, ChunkIs

\* Every call of ForwardEngine is a step of KvCache and keeps the invariant.
LEMMA ForwardLogitsKeeps ==
    ASSUME EngineInv, engine_' = engine_, NEW m \in 1 .. Min({CHUNK, FEEDS - fed}),
           NEW useCache \in BOOLEAN, ForwardLogits(m, useCache)
    PROVE  KvStep /\ EngineInv'
<1> DEFINE c == NextChunk(m)
           n == seqLen[1]
<1>1. /\ m \in Nat \ {0} /\ IsList(c, m) /\ fed' = fed + m /\ fed' \in Nat /\ fed <= fed' /\ fed' <= FEEDS /\ Shape(n)
  BY ChunkFits, ShapeIs DEF ForwardLogits
<1>2. n = seqLen[1]
  OBVIOUS
<1>3. \/ engine_ \in {"llama", "phi"} /\ LlamaCall(c, "last", useCache)
      \/ engine_ = "gemma3" /\ GemmaCall(c, useCache)
      \/ engine_ = "mlx" /\ MlxLogits(c, useCache)
      \/ engine_ = "wgpu" /\ WgpuCall(c, "last", useCache, PREFILL)
  BY PhiCallIsLlamas DEF ForwardLogits
<1> HIDE DEF c, n
<1>4. CASE engine_ \in {"llama", "phi"} /\ LlamaCall(c, "last", useCache)
  <2>1. CASE useCache
    <3>1. LlamaCall(c, "last", TRUE)
      BY <1>4, <2>1
    <3> QED
      BY <1>1, <1>2, <1>4, <3>1, LlamaCached
  <2>2. CASE ~useCache
    <3>1. LlamaCall(c, "last", FALSE)
      BY <1>4, <2>2
    <3> QED
      BY <1>1, <1>4, <3>1, LlamaUncached
  <2> QED
    BY <2>1, <2>2
<1>5. CASE engine_ = "gemma3" /\ GemmaCall(c, useCache)
  BY <1>1, <1>2, <1>5, GemmaCalled
<1>6. CASE engine_ = "mlx" /\ MlxLogits(c, useCache)
  BY <1>1, <1>2, <1>6, MlxCalled
<1>7. CASE engine_ = "wgpu" /\ WgpuCall(c, "last", useCache, PREFILL)
  BY <1>1, <1>2, <1>7, WgpuCalled, EngineAssumption
<1> QED
  BY <1>3, <1>4, <1>5, <1>6, <1>7

LEMMA ForwardAllLogitsKeeps ==
    ASSUME EngineInv, engine_' = engine_, NEW m \in 1 .. Min({CHUNK, FEEDS - fed}), ForwardAllLogits(m)
    PROVE  KvStep /\ EngineInv'
<1> DEFINE c == NextChunk(m)
           n == seqLen[1]
<1>1. /\ m \in Nat \ {0} /\ IsList(c, m) /\ fed' = fed + m /\ fed' \in Nat /\ fed <= fed' /\ fed' <= FEEDS /\ Shape(n)
  BY ChunkFits, ShapeIs DEF ForwardAllLogits
<1>2. n = seqLen[1]
  OBVIOUS
<1>3. \/ engine_ \in {"llama", "phi"} /\ LlamaCall(c, "all", FALSE)
      \/ engine_ = "gemma3" /\ Unsupported(c)
      \/ engine_ = "mlx" /\ MlxAllLogits(c)
      \/ engine_ = "wgpu" /\ WgpuCall(c, "all", FALSE, 1)
  BY PhiCallIsLlamas DEF ForwardAllLogits
<1> HIDE DEF c, n
<1>4. CASE engine_ \in {"llama", "phi"} /\ LlamaCall(c, "all", FALSE)
  BY <1>1, <1>4, LlamaUncached
<1>5. CASE engine_ = "gemma3" /\ Unsupported(c)
  BY <1>1, <1>5, RefusesUnchanged
<1>6. CASE engine_ = "mlx" /\ MlxAllLogits(c)
  BY <1>1, <1>6, MlxAllCalled
<1>7. CASE engine_ = "wgpu" /\ WgpuCall(c, "all", FALSE, 1)
  <2> DEFINE useCache == FALSE
             size == 1
  <2>1. useCache \in BOOLEAN /\ size \in Nat \ {0}
    OBVIOUS
  <2>2. WgpuCall(c, "all", useCache, size)
    BY <1>7
  <2> HIDE DEF useCache, size
  <2> QED
    BY <1>1, <1>2, <1>7, <2>1, <2>2, WgpuCalled
<1> QED
  BY <1>3, <1>4, <1>5, <1>6, <1>7

LEMMA ForwardAllLogitsCachedKeeps ==
    ASSUME EngineInv, engine_' = engine_, NEW m \in 1 .. Min({CHUNK, FEEDS - fed}), ForwardAllLogitsCached(m)
    PROVE  KvStep /\ EngineInv'
<1> DEFINE c == NextChunk(m)
           n == seqLen[1]
<1>1. /\ m \in Nat \ {0} /\ IsList(c, m) /\ fed' = fed + m /\ fed' \in Nat /\ fed <= fed' /\ fed' <= FEEDS /\ Shape(n)
  BY ChunkFits, ShapeIs DEF ForwardAllLogitsCached
<1>2. n = seqLen[1]
  OBVIOUS
<1>3. \/ engine_ \in {"llama", "phi"} /\ LlamaCall(c, "all", TRUE)
      \/ engine_ = "gemma3" /\ Unsupported(c)
      \/ engine_ = "mlx" /\ MlxAllLogits(c)
      \/ engine_ = "wgpu" /\ WgpuCall(c, "all", TRUE, 1)
  BY PhiCallIsLlamas DEF ForwardAllLogitsCached
<1> HIDE DEF c, n
<1>4. CASE engine_ \in {"llama", "phi"} /\ LlamaCall(c, "all", TRUE)
  BY <1>1, <1>2, <1>4, LlamaCached
<1>5. CASE engine_ = "gemma3" /\ Unsupported(c)
  BY <1>1, <1>5, RefusesUnchanged
<1>6. CASE engine_ = "mlx" /\ MlxAllLogits(c)
  BY <1>1, <1>6, MlxAllCalled
<1>7. CASE engine_ = "wgpu" /\ WgpuCall(c, "all", TRUE, 1)
  <2> DEFINE useCache == TRUE
             size == 1
  <2>1. useCache \in BOOLEAN /\ size \in Nat \ {0}
    OBVIOUS
  <2>2. WgpuCall(c, "all", useCache, size)
    BY <1>7
  <2> HIDE DEF useCache, size
  <2> QED
    BY <1>1, <1>2, <1>7, <2>1, <2>2, WgpuCalled
<1> QED
  BY <1>3, <1>4, <1>5, <1>6, <1>7

LEMMA EmbedsKeeps ==
    ASSUME EngineInv, engine_' = engine_, NEW m \in 1 .. Min({CHUNK, FEEDS - fed}), Embeds(m)
    PROVE  KvStep /\ EngineInv'
<1> DEFINE c == NextChunk(m)
           n == seqLen[1]
<1>1. /\ m \in Nat \ {0} /\ IsList(c, m) /\ fed' = fed + m /\ fed' \in Nat /\ fed <= fed' /\ fed' <= FEEDS /\ Shape(n)
  BY ChunkFits, ShapeIs DEF Embeds
<1>2. (engine_ \in {"llama", "phi"} /\ LlamaCall(c, "mean", FALSE)) \/ Unsupported(c)
  BY PhiCallIsLlamas DEF Embeds
<1> HIDE DEF c, n
<1>3. CASE engine_ \in {"llama", "phi"} /\ LlamaCall(c, "mean", FALSE)
  BY <1>1, <1>3, LlamaUncached
<1>4. CASE Unsupported(c)
  BY <1>1, <1>4, RefusesUnchanged
<1> QED
  BY <1>2, <1>3, <1>4

LEMMA EveryCallKeeps ==
    ASSUME EngineInv, FeNext
    PROVE  KvStep /\ EngineInv' /\ engine_' = engine_
<1>1. engine_' = engine_
  BY DEF FeNext
<1>2. ASSUME NEW m \in 1 .. Min({CHUNK, FEEDS - fed}), NEW useCache \in BOOLEAN, ForwardLogits(m, useCache)
      PROVE  KvStep /\ EngineInv'
  BY <1>1, <1>2, ForwardLogitsKeeps
<1>3. ASSUME NEW m \in 1 .. Min({CHUNK, FEEDS - fed}), ForwardAllLogits(m) PROVE KvStep /\ EngineInv'
  BY <1>1, <1>3, ForwardAllLogitsKeeps
<1>4. ASSUME NEW m \in 1 .. Min({CHUNK, FEEDS - fed}), ForwardAllLogitsCached(m) PROVE KvStep /\ EngineInv'
  BY <1>1, <1>4, ForwardAllLogitsCachedKeeps
<1>5. ASSUME NEW m \in 1 .. Min({CHUNK, FEEDS - fed}), Embeds(m) PROVE KvStep /\ EngineInv'
  BY <1>1, <1>5, EmbedsKeeps
<1>6. ASSUME NEW k \in 0 .. KVCTX, TruncateCache(k) PROVE KvStep /\ EngineInv'
  BY <1>1, <1>6, TruncatedIs
<1> QED
  BY <1>1, <1>2, <1>3, <1>4, <1>5, <1>6 DEF FeNext

\* A new engine holds nothing.
LEMMA EnginesStart == FeInit => EngineInv /\ Kv!KvInit
<1> SUFFICES ASSUME FeInit PROVE EngineInv /\ Kv!KvInit
  OBVIOUS
<1>1. 1 \in Layer /\ KVCTX \in Nat /\ FEEDS \in Nat
  BY EngineAssumption DEF Layer
<1>2. /\ engine_ \in Engines /\ seqLen = [l \in Layer |-> 0] /\ seqLen[1] = 0 /\ fed = 0
      /\ slots = [l \in Layer |-> NoSlots(engine_)]
  BY <1>1 DEF FeInit
<1> DEFINE none == << >>
           held == HeldTokens
           S == Sliding
           sl == slots
<1>3. held = none
  <2>1. held = [i \in 1 .. 0 |-> slots[1][i].row]
    BY <1>2 DEF HeldTokens
  <2> HIDE DEF held
  <2>2. IsList(held, 0) /\ IsList(none, 0)
    BY <2>1 DEF IsList
  <2> HIDE DEF none
  <2> QED
    BY <2>2, ListsEqual
<1>4. HoldsRows(S, sl, 0, none)
  BY NothingHeld
<1>5. CachesFit(slots, 0, fed)
  <2>1. slots = [l \in Layer |-> slots[l]] /\ \A l \in Layer : slots[l] = NoSlots(engine_)
    BY <1>2
  <2>2. Allocated(engine_) => IsList(NoSlots(engine_), KVCTX)
    BY <1>1 DEF NoSlots, IsList
  <2>3. ~Allocated(engine_) => IsList(NoSlots(engine_), 0)
    BY DEF NoSlots, IsList
  <2> QED
    BY <1>1, <1>2, <2>1, <2>2, <2>3 DEF CachesFit
<1> HIDE DEF none, held, S, sl
<1>6. HoldsRows(Sliding, slots, seqLen[1], HeldTokens)
  BY <1>2, <1>3, <1>4 DEF held, S, sl
<1>7. EngineInv
  BY <1>2, <1>5, <1>6 DEF EngineInv
<1>8. \A i \in 1 .. seqLen[1] : slots[1][i].pos = i - 1
  BY <1>2
<1>9. HeldTokens = << >>
  BY <1>3 DEF held, none
<1> QED
  BY <1>7, <1>8, <1>9 DEF Kv!KvInit

\* Whatever sequence of calls is made, every layer of every engine has the same length, a cache
\* never outgrows what was allocated, and its live slots are exactly the keys one forward pass over
\* the held tokens leaves there; only a CPU engine whose window has slid holds keys at other
\* positions, and they still come from the tokens of their columns.
THEOREM EnginesHoldWhatTheyShould == FeSpec => []EngineInv
<1>1. FeInit => EngineInv
  BY EnginesStart
<1>2. EngineInv /\ [FeNext]_feVars => EngineInv'
  <2>1. ASSUME EngineInv, FeNext PROVE EngineInv'
    BY <2>1, EveryCallKeeps
  <2>2. ASSUME EngineInv, UNCHANGED feVars PROVE EngineInv'
    <3>1. engine_' = engine_ /\ slots' = slots /\ seqLen' = seqLen /\ fed' = fed
      BY <2>2 DEF feVars
    <3>2. Sliding' = Sliding /\ HeldTokens' = HeldTokens
      BY <3>1 DEF Sliding, HeldTokens
    <3>3. CachesFit(slots, seqLen[1], fed)' <=> CachesFit(slots, seqLen[1], fed)
      BY <3>1 DEF CachesFit
    <3>4. SlidAway(slots, seqLen[1])' <=> SlidAway(slots, seqLen[1])
      BY <3>1 DEF SlidAway
    <3>5. HoldsRows(Sliding, slots, seqLen[1], HeldTokens)' <=> HoldsRows(Sliding, slots, seqLen[1], HeldTokens)
      BY <3>1, <3>2 DEF HoldsRows
    <3> QED
      BY <2>2, <3>1, <3>3, <3>4, <3>5 DEF EngineInv
  <2> QED
    BY <2>1, <2>2
<1> QED
  BY <1>1, <1>2, PTL DEF FeSpec

\* The five engines implement KvCache: the rows a call answers are those one forward pass over the
\* held tokens and the chunk gives, chunked prefill, drafts rolled back by truncate_cache, a dropped
\* conversation and a GPU cache that refuses in the middle of a chunk included; a window that is full
\* slides so that the last row still sees every held token.
THEOREM EnginesKeepTheirPromise == FeSpec => EngineKeepsPromise
<1>1. FeInit => Kv!KvInit
  BY EnginesStart
<1>2. EngineInv /\ [FeNext]_feVars => [Kv!KvNext]_Kv!kvSpecVars
  <2>1. ASSUME EngineInv, FeNext PROVE Kv!KvNext
    <3>1. KvStep /\ engine_' = engine_
      BY <2>1, EveryCallKeeps
    <3> QED
      BY <3>1 DEF Kv!KvNext, KvStep
  <2>2. ASSUME UNCHANGED feVars PROVE UNCHANGED Kv!kvSpecVars
    BY <2>2 DEF feVars, Kv!kvSpecVars, HeldTokens
  <2> QED
    BY <2>1, <2>2
<1> QED
  BY <1>1, <1>2, EnginesHoldWhatTheyShould, PTL DEF FeSpec, EngineKeepsPromise, Kv!KvSpec
=============================================================================
