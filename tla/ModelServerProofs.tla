------------------------- MODULE ModelServerProofs -------------------------
(***************************************************************************)
(* Admission and residency of the model server, for any number of          *)
(* requests, models and permits and any budget: permits are conserved, the *)
(* load lock serializes the loads, no model is loaded twice, and the books *)
(* of every cache agree with what it holds.                                *)
(***************************************************************************)
EXTENDS ModelServer, DataLemmas, SequenceTheorems, TLAPS

\* The entries of a cache, in no order.
Ent(k) == {cache[k][i] : i \in DOMAIN cache[k]}

TypeInv ==
    /\ cache \in [Caches -> Seq(Entries)] /\ evicted \subseteq Requests
    /\ loadLock \in Requests \cup {NoRequest} /\ permits \in Int
    /\ pc \in [Requests -> Pcs] /\ kind \in [Requests -> Kinds] /\ model \in [Requests -> Models]
    /\ held \in [Requests -> Requests \cup {NoRequest}] /\ permit \in [Requests -> BOOLEAN]

\* A request holds the load lock from the second lookup to the end of its load.
LockInv == \A r \in Requests : pc[r] \in {"recheck", "load"} => loadLock = r

\* Nobody waits for a permit that it has.
PermitInv ==
    \A r \in Requests :
        permit[r] => IF PermitFirst(kind[r]) THEN pc[r] \notin {"start", "permit", "done"}
                                             ELSE pc[r] \in {"engine", "run"}

\* No two entries hold the same model.
Apart(entries) == \A i, j \in DOMAIN entries : entries[i].model = entries[j].model => i = j

\* An element of a sequence moved to its end: the ones after it move up.
LEMMA Moved ==
    ASSUME NEW S, NEW s \in Seq(S), NEW i \in DOMAIN s
    PROVE  LET t == Append(RemoveAt(s, i), s[i])
           IN  /\ t \in Seq(S) /\ Len(t) = Len(s)
               /\ \A j \in 1 .. Len(s) :
                     t[j] = IF j = Len(s) THEN s[i] ELSE IF j < i THEN s[j] ELSE s[j + 1]
<1> DEFINE a == SubSeq(s, 1, i - 1)
           b == SubSeq(s, i + 1, Len(s))
           m == RemoveAt(s, i)
           t == Append(m, s[i])
<1>1. Len(s) \in Nat /\ DOMAIN s = 1 .. Len(s) /\ \A j \in 1 .. Len(s) : s[j] \in S
  OBVIOUS
<1>2. i \in 1 .. Len(s) /\ i \in Int /\ i - 1 \in Int /\ i + 1 \in Int /\ 1 \in Int /\ Len(s) \in Int
  BY <1>1
<1>3. /\ a \in Seq(S) /\ Len(a) = i - 1 /\ \A j \in 1 .. i - 1 : a[j] = s[j]
  <2>1. \A j \in 1 .. i - 1 : s[j] \in S
    BY <1>1, <1>2
  <2>2. /\ a \in Seq(S) /\ Len(a) = (IF 1 <= i - 1 THEN i - 1 - 1 + 1 ELSE 0)
        /\ \A j \in 1 .. i - 1 - 1 + 1 : a[j] = s[1 + j - 1]
    BY <2>1, <1>2, SubSeqProperties
  <2> QED
    BY <2>2, <1>2
<1>4. /\ b \in Seq(S) /\ Len(b) = Len(s) - i /\ \A j \in 1 .. Len(s) - i : b[j] = s[i + j]
  <2>1. \A j \in i + 1 .. Len(s) : s[j] \in S
    BY <1>1, <1>2
  <2>2. /\ b \in Seq(S) /\ Len(b) = (IF i + 1 <= Len(s) THEN Len(s) - (i + 1) + 1 ELSE 0)
        /\ \A j \in 1 .. Len(s) - (i + 1) + 1 : b[j] = s[i + 1 + j - 1]
    BY <2>1, <1>2, SubSeqProperties
  <2> QED
    BY <2>2, <1>1, <1>2
<1>5. m = a \o b
  BY DEF RemoveAt
<1> HIDE DEF a, b, m
<1>6. /\ m \in Seq(S) /\ Len(m) = Len(s) - 1
      /\ \A j \in 1 .. Len(s) - 1 : m[j] = IF j <= i - 1 THEN a[j] ELSE b[j - (i - 1)]
  <2>1. /\ a \o b \in Seq(S) /\ Len(a \o b) = Len(a) + Len(b)
        /\ \A j \in 1 .. Len(a) + Len(b) : (a \o b)[j] = IF j <= Len(a) THEN a[j] ELSE b[j - Len(a)]
    BY <1>3, <1>4, ConcatProperties
  <2>2. Len(a) = i - 1 /\ Len(a) + Len(b) = Len(s) - 1
    BY <1>2, <1>3, <1>4
  <2> QED
    BY <2>1, <2>2, <1>5
<1>7. \A j \in 1 .. Len(s) - 1 : m[j] = IF j < i THEN s[j] ELSE s[j + 1]
  <2> TAKE j \in 1 .. Len(s) - 1
  <2>1. CASE j < i
    BY <2>1, <1>1, <1>2, <1>3, <1>6
  <2>2. CASE ~ (j < i)
    <3>1. j - (i - 1) \in 1 .. Len(s) - i
      BY <2>2, <1>1, <1>2
    <3>2. m[j] = b[j - (i - 1)] /\ b[j - (i - 1)] = s[i + (j - (i - 1))]
      <4>1. ~ (j <= i - 1)
        BY <2>2, <1>2
      <4> QED
        BY ONLY <4>1, <3>1, <1>4, <1>6
    <3> QED
      BY <2>2, <3>2, <1>2
  <2> QED
    BY <2>1, <2>2
<1>8. /\ t \in Seq(S) /\ Len(t) = Len(s) /\ DOMAIN t = 1 .. Len(s)
      /\ \A j \in 1 .. Len(s) - 1 : t[j] = m[j]
      /\ t[Len(s)] = s[i]
  <2>1. s[i] \in S
    BY <1>1, <1>2
  <2>2. /\ t \in Seq(S) /\ Len(t) = Len(m) + 1
        /\ \A j \in 1 .. Len(m) : t[j] = m[j]
        /\ t[Len(m) + 1] = s[i]
    BY <2>1, <1>6, AppendProperties
  <2> QED
    BY <2>2, <1>1, <1>6
<1> HIDE DEF t
<1>9. \A j \in 1 .. Len(s) : t[j] = IF j = Len(s) THEN s[i] ELSE IF j < i THEN s[j] ELSE s[j + 1]
  <2> TAKE j \in 1 .. Len(s)
  <2>1. j = Len(s) \/ (j # Len(s) /\ j \in 1 .. Len(s) - 1)
    BY <1>2
  <2> QED
    BY <2>1, <1>7, <1>8
<1>10. t \in Seq(S) /\ Len(t) = Len(s)
  BY <1>8
<1>11. t = Append(RemoveAt(s, i), s[i])
  BY DEF t, m
<1> QED
  BY <1>9, <1>10, <1>11

\* It neither adds an element nor loses one, and makes no two alike.
LEMMA MovedToEnd ==
    ASSUME NEW S, NEW s \in Seq(S), NEW i \in DOMAIN s
    PROVE  LET t == Append(RemoveAt(s, i), s[i])
           IN  /\ t \in Seq(S) /\ Len(t) = Len(s)
               /\ {t[j] : j \in DOMAIN t} = {s[j] : j \in DOMAIN s}
               /\ Apart(s) => Apart(t)
<1> DEFINE n == Len(s)
           t == Append(RemoveAt(s, i), s[i])
           From(j) == IF j = n THEN i ELSE IF j < i THEN j ELSE j + 1
           To(l) == IF l = i THEN n ELSE IF l < i THEN l ELSE l - 1
<1>1. n \in Nat /\ i \in 1 .. n /\ DOMAIN s = 1 .. n
  OBVIOUS
<1>2. t \in Seq(S) /\ Len(t) = n /\ DOMAIN t = 1 .. n
      /\ \A j \in 1 .. n : t[j] = IF j = n THEN s[i] ELSE IF j < i THEN s[j] ELSE s[j + 1]
  BY Moved
<1> HIDE DEF t, n
<1>3. \A j \in 1 .. n : From(j) \in 1 .. n /\ To(From(j)) = j
  BY <1>1
<1>4. \A l \in 1 .. n : To(l) \in 1 .. n /\ From(To(l)) = l
  BY <1>1
<1>5. \A j \in 1 .. n : t[j] = s[From(j)]
  BY <1>2
<1> HIDE DEF From, To
<1>6. {t[j] : j \in 1 .. n} = {s[j] : j \in 1 .. n}
  <2>1. ASSUME NEW x \in {t[j] : j \in 1 .. n} PROVE x \in {s[j] : j \in 1 .. n}
    <3>1. PICK j \in 1 .. n : x = t[j]
      BY <2>1
    <3> QED
      BY <3>1, <1>3, <1>5
  <2>2. ASSUME NEW x \in {s[j] : j \in 1 .. n} PROVE x \in {t[j] : j \in 1 .. n}
    <3>1. PICK l \in 1 .. n : x = s[l]
      BY <2>2
    <3>2. To(l) \in 1 .. n /\ t[To(l)] = s[l]
      BY <1>4, <1>5
    <3> QED
      BY <3>1, <3>2
  <2> QED
    BY <2>1, <2>2
<1>7. ASSUME \A j, l \in 1 .. n : s[j].model = s[l].model => j = l
      PROVE  \A j, l \in 1 .. n : t[j].model = t[l].model => j = l
  <2> SUFFICES ASSUME NEW j \in 1 .. n, NEW l \in 1 .. n, t[j].model = t[l].model
               PROVE  j = l
    OBVIOUS
  <2>1. From(j) = From(l)
    BY <1>3, <1>5, <1>7
  <2> QED
    BY <2>1, <1>3
<1>8. t = Append(RemoveAt(s, i), s[i]) /\ n = Len(s)
  BY DEF t, n
<1>9. Apart(s) => Apart(t)
  BY <1>1, <1>2, <1>7 DEF Apart
<1>10. {t[j] : j \in DOMAIN t} = {s[j] : j \in DOMAIN s}
  BY <1>1, <1>2, <1>6
<1>11. t \in Seq(S) /\ Len(t) = n
  BY <1>2
<1> QED
  BY ONLY <1>8, <1>9, <1>10, <1>11

\* The models of the entries.
ModelsOf(entries) == {entries[i].model : i \in DOMAIN entries}

\* The size of entries of different models is a sum over these models.
LEMMA SizeByModel ==
    ASSUME NEW s \in Seq(Entries), Apart(s)
    PROVE  /\ SizeOf(s) = SumFunctionOnSet(Bytes, ModelsOf(s)) /\ SizeOf(s) \in Int
           /\ IsFiniteSet(ModelsOf(s)) /\ \A m \in ModelsOf(s) : Bytes[m] \in Int
<1> DEFINE D == DOMAIN s
           f == [i \in D |-> Bytes[s[i].model]]
           name == [i \in D |-> s[i].model]
<1>1. Len(s) \in Nat /\ D = 1 .. Len(s) /\ \A i \in D : s[i].model \in Models
  <2>1. Len(s) \in Nat /\ D = 1 .. Len(s) /\ \A i \in D : s[i] \in Entries
    OBVIOUS
  <2>2. \A e \in Entries : e.model \in Models
    BY DEF Entries
  <2> QED
    BY <2>1, <2>2
<1>2. IsFiniteSet(D)
  <2>1. 1 \in Int /\ Len(s) \in Int
    BY <1>1
  <2> QED
    BY <1>1, <2>1, FS_Interval
<1>3. SizeOf(s) = SumFunctionOnSet(f, D)
  BY DEF SizeOf, SumFunction
<1>4. \A i, j \in D : s[i].model = s[j].model => i = j
  BY DEF Apart
<1>5. ModelsOf(s) = {s[i].model : i \in D}
  BY DEF ModelsOf
<1> HIDE DEF D
<1>6. /\ \A i \in D : f[i] \in Int
      /\ name \in [D -> ModelsOf(s)]
      /\ \A i, j \in D : name[i] = name[j] => i = j
      /\ \A m \in ModelsOf(s) : \E i \in D : name[i] = m
      /\ \A i \in D : Bytes[name[i]] = f[i]
  BY <1>1, <1>4, <1>5, SizeAssumption
<1>7. \A m \in ModelsOf(s) : Bytes[m] \in Int
  BY <1>1, <1>5, SizeAssumption
<1>8. IsFiniteSet(ModelsOf(s))
  <2>1. name \in Surjection(D, ModelsOf(s))
    BY <1>6 DEF Surjection
  <2> HIDE DEF name
  <2> QED
    BY <1>2, <2>1, FS_Surjection
<1> HIDE DEF f, name
<1>9. SumFunctionOnSet(Bytes, ModelsOf(s)) = SumFunctionOnSet(f, D)
  BY <1>2, <1>6, SumRenamed
<1>10. SumFunctionOnSet(f, D) \in Int
  BY <1>2, <1>6, SumIsInt
<1> QED
  BY <1>3, <1>7, <1>8, <1>9, <1>10

\* A model that was not there adds its size.
LEMMA SizeWithOneMore ==
    ASSUME NEW s \in Seq(Entries), Apart(s), NEW e \in Entries, e.model \notin ModelsOf(s)
    PROVE  /\ Append(s, e) \in Seq(Entries) /\ Apart(Append(s, e))
           /\ SizeOf(Append(s, e)) = SizeOf(s) + Bytes[e.model]
<1> DEFINE t == Append(s, e)
<1>1. /\ t \in Seq(Entries) /\ Len(t) = Len(s) + 1 /\ Len(s) \in Nat
      /\ DOMAIN s = 1 .. Len(s) /\ DOMAIN t = 1 .. Len(s) + 1
      /\ \A i \in 1 .. Len(s) : t[i] = s[i]
      /\ t[Len(s) + 1] = e
  <2>1. /\ t \in Seq(Entries) /\ Len(t) = Len(s) + 1
        /\ \A i \in 1 .. Len(s) : t[i] = s[i]
        /\ t[Len(s) + 1] = e
    BY AppendProperties
  <2>2. DOMAIN t = 1 .. Len(t)
    BY <2>1
  <2> QED
    BY <2>1, <2>2
<1> HIDE DEF t
<1>2. \A i \in 1 .. Len(s) + 1 : i \in 1 .. Len(s) \/ i = Len(s) + 1
  BY <1>1
<1>3. \A i \in 1 .. Len(s) : t[i].model \in ModelsOf(s)
  BY <1>1 DEF ModelsOf
<1>4. Apart(t)
  <2> SUFFICES ASSUME NEW i \in 1 .. Len(s) + 1, NEW j \in 1 .. Len(s) + 1, t[i].model = t[j].model
               PROVE  i = j
    BY <1>1 DEF Apart
  <2>1. CASE i \in 1 .. Len(s) /\ j \in 1 .. Len(s)
    BY <2>1, <1>1 DEF Apart
  <2>2. CASE i = Len(s) + 1 /\ j \in 1 .. Len(s)
    BY <2>2, <1>1, <1>3
  <2>3. CASE j = Len(s) + 1 /\ i \in 1 .. Len(s)
    BY <2>3, <1>1, <1>3
  <2> QED
    BY <1>2, <2>1, <2>2, <2>3
<1>5. ModelsOf(t) \ {e.model} = ModelsOf(s) /\ e.model \in ModelsOf(t)
  <2>1. \A m : m \in ModelsOf(t) <=> m \in ModelsOf(s) \/ m = e.model
    <3> TAKE m
    <3>1. m \in ModelsOf(t) <=> \E i \in 1 .. Len(s) + 1 : t[i].model = m
      BY <1>1 DEF ModelsOf
    <3>2. m \in ModelsOf(s) <=> \E i \in 1 .. Len(s) : t[i].model = m
      BY <1>1 DEF ModelsOf
    <3>3. Len(s) + 1 \in 1 .. Len(s) + 1 /\ \A i \in 1 .. Len(s) : i \in 1 .. Len(s) + 1
      BY <1>1
    <3> QED
      BY <1>1, <1>2, <3>1, <3>2, <3>3
  <2> QED
    BY <2>1
<1>6. SumFunctionOnSet(Bytes, ModelsOf(t))
        = Bytes[e.model] + SumFunctionOnSet(Bytes, ModelsOf(t) \ {e.model})
  <2>1. IsFiniteSet(ModelsOf(t)) /\ \A m \in ModelsOf(t) : Bytes[m] \in Int
    BY <1>1, <1>4, SizeByModel
  <2> QED
    BY <1>5, <2>1, SumWith
<1>7. SizeOf(t) = SumFunctionOnSet(Bytes, ModelsOf(t)) /\ SizeOf(s) = SumFunctionOnSet(Bytes, ModelsOf(s))
  BY <1>1, <1>4, SizeByModel
<1>8. SizeOf(t) = Bytes[e.model] + SizeOf(s)
  BY <1>5, <1>6, <1>7
<1>9. Bytes[e.model] \in Int /\ SizeOf(s) \in Int
  <2>1. e.model \in Models
    BY DEF Entries
  <2>2. SizeOf(s) \in Int
    BY SizeByModel
  <2> QED
    BY <2>1, <2>2, SizeAssumption
<1> QED
  BY <1>1, <1>4, <1>8, <1>9 DEF t

\* The front and the rest of a cache share its size.
LEMMA SizeInParts ==
    ASSUME NEW s \in Seq(Entries), Apart(s), NEW n \in 0 .. Len(s)
    PROVE  LET front == SubSeq(s, 1, n)
               rest  == SubSeq(s, n + 1, Len(s))
           IN  /\ Apart(rest) /\ rest \in Seq(Entries)
               /\ SizeOf(s) = SizeOf(front) + SizeOf(rest)
               /\ SizeOf(front) \in Int /\ SizeOf(rest) \in Int
<1> DEFINE front == SubSeq(s, 1, n)
           rest  == SubSeq(s, n + 1, Len(s))
           L == Len(s)
<1>1. L \in Nat /\ n \in Nat /\ n <= L /\ DOMAIN s = 1 .. L /\ \A i \in 1 .. L : s[i] \in Entries
  OBVIOUS
<1>2. 1 \in Int /\ n \in Int /\ n + 1 \in Int /\ L \in Int
  BY <1>1
<1>3. front \in Seq(Entries) /\ DOMAIN front = 1 .. n /\ \A i \in 1 .. n : front[i] = s[i]
  <2>1. \A i \in 1 .. n : s[i] \in Entries
    BY <1>1
  <2>2. /\ front \in Seq(Entries) /\ Len(front) = (IF 1 <= n THEN n - 1 + 1 ELSE 0)
        /\ \A i \in 1 .. n - 1 + 1 : front[i] = s[1 + i - 1]
    BY <1>2, <2>1, SubSeqProperties
  <2>3. DOMAIN front = 1 .. Len(front)
    BY <2>2
  <2>4. n - 1 + 1 = n /\ Len(front) = n /\ \A i \in 1 .. n : 1 + i - 1 = i
    BY <1>1, <2>2
  <2> QED
    BY <2>2, <2>3, <2>4
<1>4. rest \in Seq(Entries) /\ DOMAIN rest = 1 .. L - n /\ \A i \in 1 .. L - n : rest[i] = s[n + i]
  <2>1. \A i \in n + 1 .. L : s[i] \in Entries
    BY <1>1
  <2>2. /\ rest \in Seq(Entries) /\ Len(rest) = (IF n + 1 <= L THEN L - (n + 1) + 1 ELSE 0)
        /\ \A i \in 1 .. L - (n + 1) + 1 : rest[i] = s[n + 1 + i - 1]
    BY <1>2, <2>1, SubSeqProperties
  <2>3. DOMAIN rest = 1 .. Len(rest)
    BY <2>2
  <2>4. L - (n + 1) + 1 = L - n /\ \A i \in 1 .. L - n : n + 1 + i - 1 = n + i
    BY ONLY <1>1
  <2> HIDE DEF rest, L
  <2>5. Len(rest) = L - n
    BY <1>1, <2>2
  <2> QED
    BY <2>2, <2>3, <2>4, <2>5
<1> HIDE DEF front, rest, L
<1>5. \A i \in 1 .. n : i \in 1 .. L
  BY <1>1
<1>6. \A i \in 1 .. L - n : n + i \in 1 .. L /\ n + i \notin 1 .. n
  BY <1>1
<1>7. \A i \in 1 .. L : i \in 1 .. n \/ (i - n \in 1 .. L - n /\ n + (i - n) = i)
  BY <1>1
<1>8. \A i, j \in 1 .. L : s[i].model = s[j].model => i = j
  BY <1>1 DEF Apart
<1>9. Apart(front)
  BY <1>3, <1>5, <1>8 DEF Apart
<1>10. Apart(rest)
  <2> SUFFICES ASSUME NEW i \in 1 .. L - n, NEW j \in 1 .. L - n, rest[i].model = rest[j].model
               PROVE  i = j
    BY <1>4 DEF Apart
  <2>1. n + i = n + j
    BY <1>4, <1>6, <1>8
  <2> QED
    BY <1>1, <2>1
<1>11. ModelsOf(front) \subseteq ModelsOf(s)
  BY <1>1, <1>3, <1>5 DEF ModelsOf
<1>12. ModelsOf(s) \ ModelsOf(front) = ModelsOf(rest)
  <2>1. ASSUME NEW m \in ModelsOf(rest) PROVE m \in ModelsOf(s) /\ m \notin ModelsOf(front)
    <3>1. PICK i \in 1 .. L - n : m = s[n + i].model
      BY <2>1, <1>4 DEF ModelsOf
    <3>2. m \in ModelsOf(s)
      BY <3>1, <1>1, <1>6 DEF ModelsOf
    <3>3. ASSUME m \in ModelsOf(front) PROVE FALSE
      <4>1. PICK j \in 1 .. n : m = s[j].model
        BY <3>3, <1>3 DEF ModelsOf
      <4> QED
        BY <3>1, <4>1, <1>5, <1>6, <1>8
    <3> QED
      BY <3>2, <3>3
  <2>2. ASSUME NEW m \in ModelsOf(s), m \notin ModelsOf(front) PROVE m \in ModelsOf(rest)
    <3>1. PICK i \in 1 .. L : m = s[i].model
      BY <1>1 DEF ModelsOf
    <3>2. i \notin 1 .. n
      BY <2>2, <3>1, <1>3 DEF ModelsOf
    <3>3. i - n \in 1 .. L - n /\ rest[i - n] = s[i]
      BY <3>2, <1>4, <1>7
    <3> QED
      BY <3>1, <3>3, <1>4 DEF ModelsOf
  <2> QED
    BY <2>1, <2>2
<1>13. SumFunctionOnSet(Bytes, ModelsOf(s))
         = SumFunctionOnSet(Bytes, ModelsOf(front)) + SumFunctionOnSet(Bytes, ModelsOf(s) \ ModelsOf(front))
  <2>1. IsFiniteSet(ModelsOf(s)) /\ \A m \in ModelsOf(s) : Bytes[m] \in Int
    BY SizeByModel
  <2> QED
    BY <1>11, <2>1, SumOfParts
<1>14. /\ SizeOf(s) = SumFunctionOnSet(Bytes, ModelsOf(s))
       /\ SizeOf(front) = SumFunctionOnSet(Bytes, ModelsOf(front)) /\ SizeOf(front) \in Int
       /\ SizeOf(rest) = SumFunctionOnSet(Bytes, ModelsOf(rest)) /\ SizeOf(rest) \in Int
  BY <1>3, <1>4, <1>9, <1>10, SizeByModel
<1>15. SizeOf(s) = SizeOf(front) + SizeOf(rest)
  BY <1>12, <1>13, <1>14
<1>16. rest \in Seq(Entries)
  BY <1>4
<1> QED
  BY <1>10, <1>14, <1>15, <1>16 DEF front, rest, L

\* touch: the entries of every cache stay, and the request uses the resident copy.
LEMMA Touched ==
    ASSUME TypeInv, NEW r \in Requests, NEW k \in Caches, k = MyCache(r), Touch(r)
    PROVE  /\ cache' \in [Caches -> Seq(Entries)]
           /\ \A c \in Caches : Ent(c)' = Ent(c)
           /\ \A c \in Caches : Len(cache'[c]) = Len(cache[c]) /\ (Apart(cache[c]) => Apart(cache'[c]))
           /\ \E b \in Requests : /\ held' = [held EXCEPT ![r] = b]
                                  /\ [model |-> model[r], by |-> b] \in Ent(k)
<1>1. cache[k] \in Seq(Entries)
  BY DEF TypeInv
<1>2. PICK i \in Hits(k, model[r]) : /\ cache' = [cache EXCEPT ![k] = Append(RemoveAt(@, i), @[i])]
                                     /\ held' = [held EXCEPT ![r] = cache[k][i].by]
  BY DEF Touch
<1>3. i \in DOMAIN cache[k] /\ cache[k][i].model = model[r]
  BY DEF Hits
<1>4. cache[k][i] \in Entries
  BY <1>1, <1>3
<1>5. /\ cache[k][i].by \in Requests
      /\ cache[k][i] = [model |-> model[r], by |-> cache[k][i].by]
  BY <1>3, <1>4 DEF Entries
<1>6. cache[k][i] \in Ent(k)
  BY <1>3 DEF Ent
<1> DEFINE t == Append(RemoveAt(cache[k], i), cache[k][i])
<1>7. /\ t \in Seq(Entries) /\ Len(t) = Len(cache[k])
      /\ {t[j] : j \in DOMAIN t} = {cache[k][j] : j \in DOMAIN cache[k]}
      /\ Apart(cache[k]) => Apart(t)
  <2>1. \A s \in Seq(Entries) : \A j \in DOMAIN s :
            LET u == Append(RemoveAt(s, j), s[j])
            IN  /\ u \in Seq(Entries) /\ Len(u) = Len(s)
                /\ {u[l] : l \in DOMAIN u} = {s[l] : l \in DOMAIN s}
                /\ Apart(s) => Apart(u)
    BY MovedToEnd DEF Apart
  <2> HIDE DEF t
  <2> QED
    BY <2>1, <1>1, <1>3 DEF t
<1>8. cache' = [cache EXCEPT ![k] = t]
  BY <1>2
<1> HIDE DEF t
<1>9. cache' \in [Caches -> Seq(Entries)]
  BY <1>1, <1>7, <1>8 DEF TypeInv
<1>10. \A c \in Caches : cache'[c] = IF c = k THEN t ELSE cache[c]
  BY <1>8 DEF TypeInv
<1>11. \A c \in Caches : Ent(c)' = Ent(c)
  <2> TAKE c \in Caches
  <2>1. CASE c = k
    <3>1. {cache'[c][j] : j \in DOMAIN cache'[c]} = {t[j] : j \in DOMAIN t}
      BY <2>1, <1>10
    <3> QED
      BY <2>1, <3>1, <1>7 DEF Ent
  <2>2. CASE c # k
    <3>1. cache'[c] = cache[c]
      BY <2>2, <1>10
    <3> QED
      BY <3>1 DEF Ent
  <2> QED
    BY <2>1, <2>2
<1>12. \A c \in Caches : Len(cache'[c]) = Len(cache[c]) /\ (Apart(cache[c]) => Apart(cache'[c]))
  BY <1>7, <1>10
<1> QED
  BY <1>2, <1>5, <1>6, <1>9, <1>11, <1>12

\* insert evicts the entries that come before the rest, which fits.
LEMMA Evicts ==
    ASSUME TypeInv, NEW r \in Requests, NEW k \in Caches, k = MyCache(r), InsertNew(r)
    PROVE  LET full == Append(cache[k], [model |-> model[r], by |-> r])
               used == usedBytes[k] + Bytes[model[r]]
           IN  \E n \in 0 .. Len(full) - 1 :
                  /\ cache' = [cache EXCEPT ![k] = SubSeq(full, n + 1, Len(full))]
                  /\ evicted' = evicted \cup {full[i].by : i \in 1 .. n}
                  /\ usedBytes' = [usedBytes EXCEPT ![k] = used - SizeOf(SubSeq(full, 1, n))]
                  /\ Fits(SubSeq(full, n + 1, Len(full)), used - SizeOf(SubSeq(full, 1, n)))
<1> DEFINE full == Append(cache[k], [model |-> model[r], by |-> r])
           used == usedBytes[k] + Bytes[model[r]]
           Left(n) == used - SizeOf(SubSeq(full, 1, n))
           Good(n) == Fits(SubSeq(full, n + 1, Len(full)), Left(n))
           Least(n) == Good(n) /\ \A m \in 0 .. n - 1 : ~Good(m)
           n    == CHOOSE n \in 0 .. Len(full) - 1 : Least(n)
<1>1. cache[k] \in Seq(Entries) /\ [model |-> model[r], by |-> r] \in Entries
  BY DEF TypeInv, Entries
<1>2. /\ cache' = [cache EXCEPT ![k] = SubSeq(full, n + 1, Len(full))]
      /\ evicted' = evicted \cup {full[i].by : i \in 1 .. n}
      /\ usedBytes' = [usedBytes EXCEPT ![k] = Left(n)]
  BY DEF InsertNew
<1>3. /\ full \in Seq(Entries) /\ Len(cache[k]) \in Nat /\ Len(full) = Len(cache[k]) + 1
      /\ DOMAIN cache[k] = 1 .. Len(cache[k])
      /\ \A i \in 1 .. Len(cache[k]) : full[i] = cache[k][i]
      /\ full[Len(full)] = [model |-> model[r], by |-> r]
  <2>1. /\ full \in Seq(Entries) /\ Len(full) = Len(cache[k]) + 1
        /\ \A i \in 1 .. Len(cache[k]) : full[i] = cache[k][i]
        /\ full[Len(cache[k]) + 1] = [model |-> model[r], by |-> r]
    BY <1>1, AppendProperties
  <2> QED
    BY <2>1, <1>1
<1> HIDE DEF full
<1>4. \A i \in 1 .. Len(full) : full[i] \in Entries
  BY <1>3
<1>5. n \in 0 .. Len(full) - 1 /\ Good(n)
  <2>1. Good(Len(full) - 1)
    <3>1. Len(SubSeq(full, Len(full) - 1 + 1, Len(full))) = 1
      <4>1. Len(full) \in Nat /\ Len(full) >= 1 /\ Len(full) - 1 + 1 = Len(full)
        BY <1>3
      <4>2. \A i \in Len(full) .. Len(full) : full[i] \in Entries
        BY <4>1, <1>4
      <4>3. Len(SubSeq(full, Len(full), Len(full))) = (IF Len(full) <= Len(full) THEN Len(full) - Len(full) + 1 ELSE 0)
        BY <4>1, <4>2, SubSeqProperties
      <4> QED
        BY <4>1, <4>3
    <3> QED
      BY <3>1 DEF Fits
  <2> DEFINE T == {m \in 0 .. Len(full) - 1 : Good(m)}
  <2> HIDE DEF Good
  <2>2. Len(full) - 1 \in T /\ T \subseteq Nat
    BY <2>1, <1>3
  <2>3. PICK x \in T : \A y \in T : x <= y
    BY <2>2, LeastOf
  <2>4. x \in 0 .. Len(full) - 1 /\ Good(x)
    BY <2>3
  <2>5. \A m \in 0 .. x - 1 : ~Good(m)
    <3> SUFFICES ASSUME NEW m \in 0 .. x - 1, Good(m) PROVE FALSE
      OBVIOUS
    <3>1. m \in 0 .. Len(full) - 1 /\ m < x /\ x \in Nat
      BY <2>4, <1>3
    <3>2. m \in T
      BY <3>1
    <3> QED
      BY <2>3, <3>1, <3>2
  <2>6. \E m \in 0 .. Len(full) - 1 : Least(m)
    BY <2>4, <2>5
  <2> QED
    BY <2>6
<1> QED
  BY <1>2, <1>5 DEF full

\* insert: the new entry is there, and what is no longer there was evicted.
LEMMA Inserted ==
    ASSUME TypeInv, NEW r \in Requests, NEW k \in Caches, k = MyCache(r), InsertNew(r)
    PROVE  /\ cache' \in [Caches -> Seq(Entries)]
           /\ evicted' \subseteq Requests /\ evicted \subseteq evicted'
           /\ \A c \in Caches : c # k => Ent(c)' = Ent(c)
           /\ [model |-> model[r], by |-> r] \in Ent(k)'
           /\ \A e \in Ent(k) : e \in Ent(k)' \/ e.by \in evicted'
<1> DEFINE full == Append(cache[k], [model |-> model[r], by |-> r])
<1>1. cache[k] \in Seq(Entries) /\ [model |-> model[r], by |-> r] \in Entries
  BY DEF TypeInv, Entries
<1>2. PICK n \in 0 .. Len(full) - 1 :
         /\ cache' = [cache EXCEPT ![k] = SubSeq(full, n + 1, Len(full))]
         /\ evicted' = evicted \cup {full[i].by : i \in 1 .. n}
  BY Evicts
<1> DEFINE rest == SubSeq(full, n + 1, Len(full))
<1>3. /\ cache' = [cache EXCEPT ![k] = rest]
      /\ evicted' = evicted \cup {full[i].by : i \in 1 .. n}
  BY <1>2
<1>4. /\ full \in Seq(Entries) /\ Len(cache[k]) \in Nat /\ Len(full) = Len(cache[k]) + 1
      /\ DOMAIN cache[k] = 1 .. Len(cache[k])
      /\ \A i \in 1 .. Len(cache[k]) : full[i] = cache[k][i]
      /\ full[Len(full)] = [model |-> model[r], by |-> r]
  <2>1. /\ full \in Seq(Entries) /\ Len(full) = Len(cache[k]) + 1
        /\ \A i \in 1 .. Len(cache[k]) : full[i] = cache[k][i]
        /\ full[Len(cache[k]) + 1] = [model |-> model[r], by |-> r]
    BY <1>1, AppendProperties
  <2> QED
    BY <2>1, <1>1
<1> HIDE DEF full
<1>5. \A i \in 1 .. Len(full) : full[i] \in Entries
  BY <1>4
<1>6. /\ rest \in Seq(Entries) /\ Len(rest) = Len(full) - n
      /\ \A i \in 1 .. Len(full) - n : rest[i] = full[n + i]
  <2>1. Len(full) \in Nat /\ n \in Nat /\ n + 1 <= Len(full) /\ n + 1 \in Int /\ Len(full) \in Int
    BY <1>4, <1>2
  <2>2. \A i \in n + 1 .. Len(full) : full[i] \in Entries
    BY <2>1, <1>5
  <2>3. /\ rest \in Seq(Entries)
        /\ Len(rest) = (IF n + 1 <= Len(full) THEN Len(full) - (n + 1) + 1 ELSE 0)
        /\ \A i \in 1 .. Len(full) - (n + 1) + 1 : rest[i] = full[n + 1 + i - 1]
    BY <2>1, <2>2, SubSeqProperties
  <2> QED
    BY <2>1, <2>3
<1> HIDE DEF rest
<1>7. \A c \in Caches : cache'[c] = IF c = k THEN rest ELSE cache[c]
  BY <1>3 DEF TypeInv
<1>8. \A i \in n + 1 .. Len(full) : full[i] \in Ent(k)'
  <2> TAKE i \in n + 1 .. Len(full)
  <2>1. i - n \in 1 .. Len(full) - n /\ n + (i - n) = i
    BY <1>4, <1>2
  <2>2. rest[i - n] = full[i] /\ i - n \in DOMAIN rest
    BY <2>1, <1>6
  <2> QED
    BY <2>2, <1>1, <1>7 DEF Ent
<1>9. cache' \in [Caches -> Seq(Entries)]
  BY <1>1, <1>3, <1>6 DEF TypeInv
<1>10. evicted' \subseteq Requests /\ evicted \subseteq evicted'
  <2>1. \A i \in 1 .. n : full[i].by \in Requests
    <3> TAKE i \in 1 .. n
    <3>1. i \in 1 .. Len(full)
      BY <1>4, <1>2
    <3> QED
      BY <3>1, <1>5 DEF Entries
  <2> QED
    BY <2>1, <1>3 DEF TypeInv
<1>11. \A c \in Caches : c # k => Ent(c)' = Ent(c)
  BY <1>7 DEF Ent
<1>12. full[Len(full)] \in Ent(k)'
  <2>1. Len(full) \in n + 1 .. Len(full)
    BY <1>4, <1>2
  <2> QED
    BY <2>1, <1>8
<1>13. \A e \in Ent(k) : e \in Ent(k)' \/ e.by \in evicted'
  <2> TAKE e \in Ent(k)
  <2>1. PICK i \in 1 .. Len(cache[k]) : e = cache[k][i]
    BY <1>4 DEF Ent
  <2>2. e = full[i] /\ (i \in 1 .. n \/ i \in n + 1 .. Len(full))
    BY <2>1, <1>4, <1>2
  <2> QED
    BY <2>2, <1>3, <1>8
<1> QED
  BY <1>9, <1>10, <1>11, <1>12, <1>13, <1>4


LEMMA ResidentEnt == \A r \in Requests : Resident(r) <=> \E e \in Ent(MyCache(r)) : e.model = model[r]
  BY DEF Resident, Hits, Ent

LEMMA CacheOfRequest == TypeInv => \A r \in Requests : MyCache(r) \in Caches
  BY DEF MyCache, Caches, TypeInv

\* The ways a request leaves.
LEMMA Leaves ==
    ASSUME TypeInv, NEW r \in Requests, Finish(r) \/ LoadFails(r) \/ Disconnect(r)
    PROVE  /\ pc' = [pc EXCEPT ![r] = "done"]
           /\ loadLock' = (IF loadLock = r THEN NoRequest ELSE loadLock)
           /\ permits' = (IF permit[r] THEN permits + 1 ELSE permits)
           /\ permit' = [permit EXCEPT ![r] = FALSE]
           /\ held' = [held EXCEPT ![r] = NoRequest]
           /\ UNCHANGED <<cached, kind, model>>
  BY DEF Finish, LoadFails, Disconnect, Leave, Goto

\* What a step does to the caches and to who uses which copy.
LEMMA CacheStep ==
    ASSUME TypeInv, LoadsAbsent, [Next]_vars
    PROVE  /\ UNCHANGED <<kind, model>>
           /\ \/ /\ UNCHANGED <<cache, usedBytes, evicted>>
                 /\ held' = held \/ \E r \in Requests : held' = [held EXCEPT ![r] = NoRequest]
              \/ /\ UNCHANGED <<usedBytes, evicted>>
                 /\ \E r \in Requests : Touch(r)
              \/ \E r \in Requests : InsertNew(r) /\ held' = [held EXCEPT ![r] = r] /\ pc[r] = "load"
<1>1. ASSUME NEW r \in Requests, Finish(r) \/ LoadFails(r) \/ Disconnect(r)
      PROVE  UNCHANGED <<kind, model, cache, usedBytes, evicted>> /\ held' = [held EXCEPT ![r] = NoRequest]
  BY <1>1, Leaves DEF cached
<1>2. ASSUME NEW r \in Requests, Start(r) \/ Miss(r) \/ LockLoads(r) \/ Admit(r) \/ Run(r) \/ Abandon(r)
      PROVE  UNCHANGED <<kind, model, cache, usedBytes, evicted, held>>
  BY <1>2 DEF Start, Miss, LockLoads, Admit, Run, Abandon, cached
<1>3. ASSUME NEW r \in Requests, Hit(r)
      PROVE  Touch(r) /\ UNCHANGED <<kind, model, usedBytes, evicted>>
  BY <1>3 DEF Hit
<1>4. ASSUME NEW r \in Requests, Recheck(r)
      PROVE  UNCHANGED <<kind, model, usedBytes, evicted>> /\ (Touch(r) \/ UNCHANGED <<cache, held>>)
  BY <1>4 DEF Recheck
<1>5. ASSUME NEW r \in Requests, Load(r)
      PROVE  /\ InsertNew(r) /\ held' = [held EXCEPT ![r] = r] /\ pc[r] = "load"
             /\ UNCHANGED <<kind, model>>
  BY <1>5 DEF Load, LoadsAbsent
<1>6. CASE UNCHANGED vars
  BY <1>6 DEF vars, cached, request
<1> QED
  BY <1>1, <1>2, <1>3, <1>4, <1>5, <1>6 DEF Next, Serve, AllDone

LEMMA TypeStep ==
    ASSUME TypeInv, LoadsAbsent, [Next]_vars
    PROVE  TypeInv'
<1>1. /\ cache' \in [Caches -> Seq(Entries)] /\ evicted' \subseteq Requests
      /\ held' \in [Requests -> Requests \cup {NoRequest}]
      /\ kind' \in [Requests -> Kinds] /\ model' \in [Requests -> Models]
  <2>1. CASE /\ UNCHANGED <<cache, evicted>>
             /\ held' = held \/ \E r \in Requests : held' = [held EXCEPT ![r] = NoRequest]
    BY <2>1, CacheStep DEF TypeInv
  <2>2. ASSUME NEW r \in Requests, Touch(r), evicted' = evicted
        PROVE  /\ cache' \in [Caches -> Seq(Entries)] /\ evicted' \subseteq Requests
               /\ held' \in [Requests -> Requests \cup {NoRequest}]
    <3>1. PICK k \in Caches : k = MyCache(r)
      BY CacheOfRequest
    <3>2. cache' \in [Caches -> Seq(Entries)] /\ \E b \in Requests : held' = [held EXCEPT ![r] = b]
      BY <2>2, <3>1, Touched
    <3> QED
      BY <2>2, <3>2 DEF TypeInv
  <2>3. ASSUME NEW r \in Requests, InsertNew(r), held' = [held EXCEPT ![r] = r]
        PROVE  /\ cache' \in [Caches -> Seq(Entries)] /\ evicted' \subseteq Requests
               /\ held' \in [Requests -> Requests \cup {NoRequest}]
    BY <2>3, Inserted, CacheOfRequest DEF TypeInv
  <2>4. kind' \in [Requests -> Kinds] /\ model' \in [Requests -> Models]
    BY CacheStep DEF TypeInv
  <2> QED
    BY <2>1, <2>2, <2>3, <2>4, CacheStep
<1>2. /\ loadLock' \in Requests \cup {NoRequest} /\ permits' \in Int
      /\ pc' \in [Requests -> Pcs] /\ permit' \in [Requests -> BOOLEAN]
  <2>0. \A f \in [Requests -> BOOLEAN], r \in Requests :
            [f EXCEPT ![r] = TRUE] \in [Requests -> BOOLEAN] /\ [f EXCEPT ![r] = FALSE] \in [Requests -> BOOLEAN]
    OBVIOUS
  <2>1. ASSUME NEW r \in Requests, Finish(r) \/ LoadFails(r) \/ Disconnect(r)
        PROVE  /\ loadLock' \in Requests \cup {NoRequest} /\ permits' \in Int
               /\ pc' \in [Requests -> Pcs] /\ permit' \in [Requests -> BOOLEAN]
    <3>1. permit' \in [Requests -> BOOLEAN]
      BY <2>0, <2>1, Leaves DEF TypeInv
    <3>2. loadLock' \in Requests \cup {NoRequest} /\ permits' \in Int
      BY <2>1, Leaves DEF TypeInv
    <3>3. pc' \in [Requests -> Pcs]
      BY <2>1, Leaves DEF TypeInv, Pcs
    <3> QED
      BY <3>1, <3>2, <3>3
  <2>2. ASSUME NEW r \in Requests,
               Start(r) \/ Miss(r) \/ LockLoads(r) \/ Hit(r) \/ Recheck(r) \/ Load(r) \/ Run(r)
        PROVE  /\ loadLock' \in {loadLock, r, NoRequest} /\ permits' = permits /\ permit' = permit
               /\ \E to \in Pcs : pc' = [pc EXCEPT ![r] = to]
    BY <2>2 DEF Start, Miss, LockLoads, Hit, Recheck, Load, Run, Goto, Loaded, Pcs
  <2>3. ASSUME NEW r \in Requests, Admit(r) \/ Abandon(r)
        PROVE  /\ loadLock' = loadLock /\ permits' \in {permits - 1, permits + 1}
               /\ pc' = pc \/ \E to \in Pcs : pc' = [pc EXCEPT ![r] = to]
               /\ permit' = [permit EXCEPT ![r] = TRUE] \/ permit' = [permit EXCEPT ![r] = FALSE]
    BY <2>3 DEF Admit, Abandon, Goto, Pcs
  <2>4. CASE UNCHANGED vars
    BY <2>4 DEF vars, request, TypeInv
  <2>5. ASSUME NEW r \in Requests,
               Start(r) \/ Miss(r) \/ LockLoads(r) \/ Hit(r) \/ Recheck(r) \/ Load(r) \/ Run(r)
        PROVE  /\ loadLock' \in Requests \cup {NoRequest} /\ permits' \in Int
               /\ pc' \in [Requests -> Pcs] /\ permit' \in [Requests -> BOOLEAN]
    BY <2>2, <2>5 DEF TypeInv
  <2>6. ASSUME NEW r \in Requests, Admit(r) \/ Abandon(r)
        PROVE  /\ loadLock' \in Requests \cup {NoRequest} /\ permits' \in Int
               /\ pc' \in [Requests -> Pcs] /\ permit' \in [Requests -> BOOLEAN]
    <3>1. permit' \in [Requests -> BOOLEAN]
      BY <2>0, <2>3, <2>6 DEF TypeInv
    <3>2. loadLock' \in Requests \cup {NoRequest} /\ permits' \in Int
      BY <2>3, <2>6 DEF TypeInv
    <3>3. pc' \in [Requests -> Pcs]
      BY <2>3, <2>6 DEF TypeInv
    <3> QED
      BY <3>1, <3>2, <3>3
  <2> QED
    BY <2>1, <2>4, <2>5, <2>6 DEF Next, Serve, AllDone
<1> QED
  BY <1>1, <1>2 DEF TypeInv

\* The load lock is taken when it is free and released by its holder.
LEMMA LockStep ==
    ASSUME TypeInv, LockInv, [Next]_vars
    PROVE  LockInv'
<1>1. ASSUME NEW r \in Requests, Finish(r) \/ LoadFails(r) \/ Disconnect(r)
      PROVE  LockInv'
  BY <1>1, Leaves DEF LockInv, TypeInv
<1>2. ASSUME NEW r \in Requests, Start(r) \/ Miss(r) \/ Hit(r) \/ Admit(r) \/ Run(r)
      PROVE  LockInv'
  <2>1. PICK to \in Pcs : pc' = [pc EXCEPT ![r] = to] /\ to \notin {"recheck", "load"}
    BY <1>2 DEF Start, Miss, Hit, Admit, Run, Goto, Loaded, Pcs
  <2>2. loadLock' = loadLock
    BY <1>2 DEF Start, Miss, Hit, Admit, Run
  <2> QED
    BY <2>1, <2>2 DEF LockInv, TypeInv
<1>3. ASSUME NEW r \in Requests, LockLoads(r)
      PROVE  LockInv'
  BY <1>3, RequestAssumption DEF LockLoads, Goto, LockInv, TypeInv
<1>4. ASSUME NEW r \in Requests, Recheck(r)
      PROVE  LockInv'
  <2>1. pc[r] = "recheck" /\ loadLock = r
    BY <1>4 DEF Recheck, LockInv
  <2>2. \/ pc' = [pc EXCEPT ![r] = "load"] /\ loadLock' = loadLock
        \/ loadLock' = NoRequest /\ \E to \in {"engine", "permit"} : pc' = [pc EXCEPT ![r] = to]
    BY <1>4 DEF Recheck, Goto, Loaded
  <2> QED
    BY <2>1, <2>2 DEF LockInv, TypeInv
<1>5. ASSUME NEW r \in Requests, Load(r)
      PROVE  LockInv'
  <2>1. loadLock = r /\ loadLock' = NoRequest /\ \E to \in {"engine", "permit"} : pc' = [pc EXCEPT ![r] = to]
    BY <1>5 DEF Load, Goto, Loaded, LockInv
  <2> QED
    BY <2>1 DEF LockInv, TypeInv
<1>6. ASSUME NEW r \in Requests, Abandon(r)
      PROVE  LockInv'
  BY <1>6 DEF Abandon, LockInv
<1>7. CASE UNCHANGED vars
  BY <1>7 DEF vars, request, LockInv
<1> QED
  BY <1>1, <1>2, <1>3, <1>4, <1>5, <1>6, <1>7 DEF Next, Serve, AllDone


\* A permit is taken by a request without one and given back at most once.
LEMMA PermitStep ==
    ASSUME TypeInv, PermitInv, [Next]_vars
    PROVE  PermitInv'
<1>1. ASSUME NEW r \in Requests, Finish(r) \/ LoadFails(r) \/ Disconnect(r)
      PROVE  PermitInv'
  <2>1. permit' = [permit EXCEPT ![r] = FALSE] /\ pc' = [pc EXCEPT ![r] = "done"] /\ kind' = kind
    BY <1>1, Leaves
  <2>2. \A s \in Requests : s # r => permit'[s] = permit[s] /\ pc'[s] = pc[s]
    BY <2>1 DEF TypeInv
  <2>3. permit'[r] = FALSE
    BY <2>1 DEF TypeInv
  <2> QED
    BY <2>1, <2>2, <2>3 DEF PermitInv
<1>2. ASSUME NEW r \in Requests,
             Start(r) \/ Miss(r) \/ LockLoads(r) \/ Hit(r) \/ Recheck(r) \/ Load(r) \/ Run(r)
      PROVE  PermitInv'
  <2>1. permit' = permit /\ kind' = kind
    BY <1>2 DEF Start, Miss, LockLoads, Hit, Recheck, Load, Run
  <2>2. PICK to \in Pcs : /\ pc' = [pc EXCEPT ![r] = to]
                          /\ permit[r] => IF PermitFirst(kind[r]) THEN to \notin {"start", "permit", "done"}
                                                                 ELSE to \in {"engine", "run"}
    BY <1>2 DEF Start, Miss, LockLoads, Hit, Recheck, Load, Run, Goto, Loaded, Pcs, PermitInv
  <2> QED
    BY <2>1, <2>2 DEF PermitInv, TypeInv
<1>3. ASSUME NEW r \in Requests, Admit(r)
      PROVE  PermitInv'
  <2>1. /\ permit' = [permit EXCEPT ![r] = TRUE] /\ kind' = kind
        /\ pc' = [pc EXCEPT ![r] = IF PermitFirst(kind[r]) THEN "lookup" ELSE "engine"]
    BY <1>3 DEF Admit, Goto
  <2>2. \A s \in Requests : s # r => permit'[s] = permit[s] /\ pc'[s] = pc[s]
    BY <2>1 DEF TypeInv
  <2>3. pc'[r] = IF PermitFirst(kind[r]) THEN "lookup" ELSE "engine"
    BY <2>1 DEF TypeInv
  <2> QED
    BY <2>1, <2>2, <2>3 DEF PermitInv
<1>4. ASSUME NEW r \in Requests, Abandon(r)
      PROVE  PermitInv'
  <2>1. permit' = [permit EXCEPT ![r] = FALSE] /\ UNCHANGED <<kind, pc>>
    BY <1>4 DEF Abandon
  <2>2. \A s \in Requests : permit'[s] => permit[s]
    BY <2>1 DEF TypeInv
  <2> QED
    BY <2>1, <2>2 DEF PermitInv
<1>5. CASE UNCHANGED vars
  BY <1>5 DEF vars, request, PermitInv
<1> QED
  BY <1>1, <1>2, <1>3, <1>4, <1>5 DEF Next, Serve, AllDone

LEMMA ConserveStep ==
    ASSUME TypeInv, PermitInv, PermitsConserved, [Next]_vars
    PROVE  PermitsConserved'
<1> DEFINE P == {r \in Requests : permit[r]}
           Q == {r \in Requests : permit'[r]}
<1>1. IsFiniteSet(P) /\ Cardinality(P) \in Nat /\ permits \in Int /\ permits + Cardinality(P) = Permits
  BY RequestAssumption, FS_Subset, FS_CardinalityType DEF PermitsConserved, TypeInv
<1>2. SUFFICES permits' + Cardinality(Q) = Permits
  BY DEF PermitsConserved
<1>3. ASSUME NEW r \in Requests, permit[r], permit' = [permit EXCEPT ![r] = FALSE], permits' = permits + 1
      PROVE  permits' + Cardinality(Q) = Permits
  <2>1. Q = P \ {r} /\ r \in P
    BY <1>3 DEF TypeInv
  <2>2. Cardinality(Q) = Cardinality(P) - 1
    BY <1>1, <2>1, FS_RemoveElement
  <2> QED
    BY <1>1, <1>3, <2>2
<1>4. ASSUME NEW r \in Requests, ~permit[r], permit' = [permit EXCEPT ![r] = TRUE], permits' = permits - 1
      PROVE  permits' + Cardinality(Q) = Permits
  <2>1. Q = P \cup {r} /\ r \notin P
    BY <1>4 DEF TypeInv
  <2>2. Cardinality(Q) = Cardinality(P) + 1
    BY <1>1, <2>1, FS_AddElement
  <2> QED
    BY <1>1, <1>4, <2>2
<1>5. ASSUME permits' = permits, \A r \in Requests : permit'[r] = permit[r]
      PROVE  permits' + Cardinality(Q) = Permits
  <2>1. Q = P
    BY <1>5
  <2> QED
    BY <1>1, <1>5, <2>1
<1> HIDE DEF P, Q
<1>6. ASSUME NEW r \in Requests, Finish(r) \/ LoadFails(r) \/ Disconnect(r)
      PROVE  permits' + Cardinality(Q) = Permits
  <2>1. permits' = (IF permit[r] THEN permits + 1 ELSE permits) /\ permit' = [permit EXCEPT ![r] = FALSE]
    BY <1>6, Leaves
  <2>2. CASE permit[r]
    BY <2>1, <2>2, <1>3
  <2>3. CASE ~permit[r]
    <3>1. permits' = permits
      BY <2>1, <2>3
    <3>2. \A s \in Requests : permit'[s] = permit[s]
      BY <2>1, <2>3 DEF TypeInv
    <3> QED
      BY <3>1, <3>2, <1>5
  <2> QED
    BY <2>2, <2>3
<1>7. ASSUME NEW r \in Requests,
             Start(r) \/ Miss(r) \/ LockLoads(r) \/ Hit(r) \/ Recheck(r) \/ Load(r) \/ Run(r)
      PROVE  permits' + Cardinality(Q) = Permits
  <2>1. permits' = permits /\ permit' = permit
    BY <1>7 DEF Start, Miss, LockLoads, Hit, Recheck, Load, Run
  <2> QED
    BY <2>1, <1>5
<1>8. ASSUME NEW r \in Requests, Admit(r)
      PROVE  permits' + Cardinality(Q) = Permits
  <2>1. pc[r] = "permit" /\ permits' = permits - 1 /\ permit' = [permit EXCEPT ![r] = TRUE]
    BY <1>8 DEF Admit
  <2>2. ~permit[r]
    BY <2>1 DEF PermitInv
  <2> QED
    BY <2>1, <2>2, <1>4
<1>9. ASSUME NEW r \in Requests, Abandon(r)
      PROVE  permits' + Cardinality(Q) = Permits
  <2>1. permit[r] /\ permits' = permits + 1 /\ permit' = [permit EXCEPT ![r] = FALSE]
    BY <1>9 DEF Abandon
  <2> QED
    BY <2>1, <1>3
<1>10. CASE UNCHANGED vars
  BY <1>5, <1>10 DEF vars, request
<1> QED
  BY <1>6, <1>7, <1>8, <1>9, <1>10 DEF Next, Serve, AllDone


\* UsesResident and LoadsAbsent, by the entries of the caches.
LEMMA UsesEnt ==
    UsesResident <=> \A r \in Requests : held[r] # NoRequest /\ held[r] \notin evicted =>
                         [model |-> model[r], by |-> held[r]] \in Ent(MyCache(r))
  BY DEF UsesResident, Ent

\* A resident copy stays resident until it is evicted.
LEMMA UsesStep ==
    ASSUME TypeInv, LoadsAbsent, UsesResident, [Next]_vars
    PROVE  UsesResident'
<1> SUFFICES ASSUME NEW s \in Requests, held'[s] # NoRequest, held'[s] \notin evicted'
             PROVE  \E i \in DOMAIN cache'[MyCache(s)'] :
                        cache'[MyCache(s)'][i] = [model |-> model'[s], by |-> held'[s]]
  BY DEF UsesResident
<1>1. PICK k \in Caches : k = MyCache(s)
  BY CacheOfRequest
<1>2. MyCache(s)' = k /\ model' = model
  BY <1>1, CacheStep DEF MyCache
<1> DEFINE e == [model |-> model[s], by |-> held'[s]]
<1> SUFFICES e \in Ent(k)'
  BY <1>2 DEF Ent
<1>3. held[s] # NoRequest /\ held[s] \notin evicted => [model |-> model[s], by |-> held[s]] \in Ent(k)
  BY <1>1, UsesEnt
<1>4. CASE /\ UNCHANGED <<cache, evicted>>
           /\ held' = held \/ \E r \in Requests : held' = [held EXCEPT ![r] = NoRequest]
  <2>1. held'[s] = held[s]
    BY <1>4 DEF TypeInv
  <2>2. e \in Ent(k)
    BY <1>3, <1>4, <2>1
  <2> QED
    BY <1>4, <2>2 DEF Ent
<1>5. ASSUME NEW r \in Requests, Touch(r), evicted' = evicted
      PROVE  e \in Ent(k)'
  <2>1. PICK c \in Caches : c = MyCache(r)
    BY CacheOfRequest
  <2>2. PICK b \in Requests : held' = [held EXCEPT ![r] = b] /\ [model |-> model[r], by |-> b] \in Ent(c)
    BY <1>5, <2>1, Touched
  <2>3. Ent(k)' = Ent(k)
    BY <1>5, <2>1, Touched
  <2>4. CASE r = s
    <3>1. held'[s] = b /\ c = k
      BY <2>1, <2>2, <2>4, <1>1 DEF TypeInv
    <3> QED
      BY <2>2, <2>3, <2>4, <3>1
  <2>5. CASE r # s
    <3>1. held'[s] = held[s]
      BY <2>2, <2>5 DEF TypeInv
    <3> QED
      BY <3>1, <1>3, <1>5, <2>3
  <2> QED
    BY <2>4, <2>5
<1>6. ASSUME NEW r \in Requests, InsertNew(r), held' = [held EXCEPT ![r] = r]
      PROVE  e \in Ent(k)'
  <2>1. PICK c \in Caches : c = MyCache(r)
    BY CacheOfRequest
  <2>2. /\ evicted \subseteq evicted'
        /\ k # c => Ent(k)' = Ent(k)
        /\ [model |-> model[r], by |-> r] \in Ent(c)'
        /\ \A d \in Ent(c) : d \in Ent(c)' \/ d.by \in evicted'
    BY <1>6, <2>1, Inserted
  <2>3. CASE r = s
    <3>1. held'[s] = s /\ c = k
      BY <1>1, <1>6, <2>1, <2>3 DEF TypeInv
    <3> QED
      BY <2>2, <2>3, <3>1
  <2>4. CASE r # s
    <3>1. held'[s] = held[s]
      BY <1>6, <2>4 DEF TypeInv
    <3>2. e \in Ent(k)
      BY <3>1, <1>3, <2>2
    <3>3. e.by = held'[s]
      OBVIOUS
    <3> QED
      BY <2>2, <3>2, <3>3
  <2> QED
    BY <2>3, <2>4
<1> QED
  BY <1>4, <1>5, <1>6, CacheStep

\* Only the holder of the load lock inserts, so what is absent when a load begins is absent when
\* it ends.
LEMMA AbsentStep ==
    ASSUME TypeInv, LockInv, LoadsAbsent, [Next]_vars
    PROVE  LoadsAbsent'
<1>0. LockInv' /\ UNCHANGED <<kind, model>>
  BY LockStep, CacheStep
<1>1. \A s \in Requests : Resident(s)' <=> \E e \in Ent(MyCache(s))' : e.model = model'[s]
  BY DEF Resident, Hits, Ent
<1> SUFFICES ASSUME NEW s \in Requests, pc'[s] = "load" PROVE ~Resident(s)'
  BY DEF LoadsAbsent
<1>2. PICK k \in Caches : k = MyCache(s)
  BY CacheOfRequest
<1>3. MyCache(s)' = k
  BY <1>0, <1>2 DEF MyCache
<1>4. ASSUME NEW r \in Requests, Load(r)
      PROVE  FALSE
  <2>1. loadLock' = NoRequest
    BY <1>4 DEF Load
  <2>2. loadLock' = s
    BY <1>0 DEF LockInv
  <2> QED
    BY <2>1, <2>2, RequestAssumption
<1>5. ASSUME NEW r \in Requests, Recheck(r)
      PROVE  ~Resident(s)'
  <2>1. pc[r] = "recheck" /\ loadLock = r
    BY <1>5 DEF Recheck, LockInv
  <2>2. CASE Resident(r)
    <3>1. loadLock' = NoRequest
      BY <1>5, <2>2 DEF Recheck
    <3>2. loadLock' = s
      BY <1>0 DEF LockInv
    <3> QED
      BY <3>1, <3>2, RequestAssumption
  <2>3. CASE ~Resident(r)
    <3>1. UNCHANGED <<cache, loadLock>>
      BY <1>5, <2>3 DEF Recheck
    <3>2. s = r
      BY <1>0, <2>1, <3>1 DEF LockInv
    <3> QED
      BY <1>0, <2>3, <3>1, <3>2 DEF Resident, Hits, MyCache
  <2> QED
    BY <2>2, <2>3
<1>6. ASSUME NEW r \in Requests, Hit(r)
      PROVE  ~Resident(s)'
  <2>1. Touch(r) /\ \E to \in {"engine", "permit"} : pc' = [pc EXCEPT ![r] = to]
    BY <1>6 DEF Hit, Goto, Loaded
  <2>2. pc[s] = "load"
    BY <2>1 DEF TypeInv
  <2>3. PICK c \in Caches : c = MyCache(r)
    BY CacheOfRequest
  <2>4. Ent(k)' = Ent(k)
    BY <2>1, <2>3, Touched
  <2>5. \A e \in Ent(k) : e.model # model[s]
    BY <2>2, <1>2, ResidentEnt DEF LoadsAbsent
  <2>6. Ent(MyCache(s))' = Ent(k)
    BY <1>3, <2>4 DEF Ent
  <2> QED
    BY <1>0, <1>1, <2>5, <2>6
<1>7. CASE UNCHANGED cache /\ pc[s] = "load"
  BY <1>0, <1>7 DEF LoadsAbsent, Resident, Hits, MyCache
<1>8. ASSUME NEW r \in Requests, Finish(r) \/ LoadFails(r) \/ Disconnect(r)
      PROVE  UNCHANGED cache /\ pc[s] = "load"
  BY <1>8, Leaves DEF cached, TypeInv
<1>9. ASSUME NEW r \in Requests,
             Start(r) \/ Miss(r) \/ LockLoads(r) \/ Admit(r) \/ Run(r) \/ Abandon(r)
      PROVE  UNCHANGED cache /\ pc[s] = "load"
  BY <1>9 DEF Start, Miss, LockLoads, Admit, Run, Abandon, Goto, cached, TypeInv
<1>10. CASE UNCHANGED vars
  BY <1>7, <1>10 DEF vars, cached, request
<1> QED
  BY <1>4, <1>5, <1>6, <1>7, <1>8, <1>9, <1>10 DEF Next, Serve, AllDone

\* The books of the caches: CacheSound, and what its sums are made of.
BooksInv == usedBytes \in [Caches -> Int] /\ CacheSound

\* The size of a cache does not depend on the order of its entries.
LEMMA SizeOfEnt ==
    ASSUME NEW s \in Seq(Entries), NEW t \in Seq(Entries), Apart(s), Apart(t),
           {s[i] : i \in DOMAIN s} = {t[i] : i \in DOMAIN t}
    PROVE  SizeOf(s) = SizeOf(t)
<1>1. ModelsOf(s) = {e.model : e \in {s[i] : i \in DOMAIN s}}
  BY DEF ModelsOf
<1>2. ModelsOf(t) = {e.model : e \in {t[i] : i \in DOMAIN t}}
  BY DEF ModelsOf
<1>3. ModelsOf(s) = ModelsOf(t)
  BY <1>1, <1>2
<1> QED
  BY <1>3, SizeByModel

\* What touch keeps.
LEMMA TouchKeepsBooks ==
    ASSUME TypeInv, BooksInv, NEW r \in Requests, Touch(r), UNCHANGED usedBytes
    PROVE  BooksInv'
<1>1. PICK k \in Caches : k = MyCache(r)
  BY CacheOfRequest
<1>2. /\ cache' \in [Caches -> Seq(Entries)]
      /\ \A c \in Caches : Ent(c)' = Ent(c)
      /\ \A c \in Caches : Len(cache'[c]) = Len(cache[c]) /\ (Apart(cache[c]) => Apart(cache'[c]))
  BY <1>1, Touched
<1>3. ASSUME NEW c \in Caches
      PROVE  /\ Apart(cache'[c]) /\ usedBytes'[c] = SizeOf(cache'[c])
             /\ Len(cache'[c]) > 1 => Len(cache'[c]) <= MaxModels /\ SizeOf(cache'[c]) <= Budget
  <2>1. /\ Apart(cache[c]) /\ usedBytes[c] = SizeOf(cache[c])
        /\ Len(cache[c]) > 1 => Len(cache[c]) <= MaxModels /\ SizeOf(cache[c]) <= Budget
    BY DEF BooksInv, CacheSound, Apart
  <2>2. cache[c] \in Seq(Entries) /\ cache'[c] \in Seq(Entries)
    BY <1>2 DEF TypeInv
  <2>3. Apart(cache'[c]) /\ Len(cache'[c]) = Len(cache[c])
    BY <1>2, <2>1
  <2>4. {cache[c][i] : i \in DOMAIN cache[c]} = {cache'[c][i] : i \in DOMAIN cache'[c]}
    BY <1>2 DEF Ent
  <2>5. SizeOf(cache[c]) = SizeOf(cache'[c])
    BY <2>1, <2>2, <2>3, <2>4, SizeOfEnt
  <2> QED
    BY <2>1, <2>3, <2>5
<1>4. CacheSound'
  BY <1>3 DEF CacheSound, Apart
<1> QED
  BY <1>4 DEF BooksInv

\* What insert keeps: the evicted entries and the ones that stay share the size.
LEMMA InsertKeepsBooks ==
    ASSUME TypeInv, BooksInv, NEW r \in Requests, InsertNew(r), ~Resident(r)
    PROVE  BooksInv'
<1>1. PICK k \in Caches : k = MyCache(r)
  BY CacheOfRequest
<1> DEFINE e == [model |-> model[r], by |-> r]
           s == cache[k]
           full == Append(s, e)
           used == usedBytes[k] + Bytes[model[r]]
<1>2. PICK n \in 0 .. Len(full) - 1 :
         /\ cache' = [cache EXCEPT ![k] = SubSeq(full, n + 1, Len(full))]
         /\ usedBytes' = [usedBytes EXCEPT ![k] = used - SizeOf(SubSeq(full, 1, n))]
         /\ Fits(SubSeq(full, n + 1, Len(full)), used - SizeOf(SubSeq(full, 1, n)))
  BY <1>1, Evicts
<1>3. s \in Seq(Entries) /\ e \in Entries /\ e.model = model[r] /\ Apart(s)
  BY DEF TypeInv, Entries, BooksInv, CacheSound, Apart
<1>4. e.model \notin ModelsOf(s)
  BY <1>1 DEF Resident, Hits, ModelsOf
<1>5. usedBytes[k] = SizeOf(s) /\ usedBytes[k] \in Int /\ Bytes[model[r]] \in Int
  BY SizeAssumption DEF BooksInv, CacheSound, TypeInv
<1> DEFINE front == SubSeq(full, 1, n)
           rest == SubSeq(full, n + 1, Len(full))
<1> HIDE DEF e, s
<1>6. full \in Seq(Entries) /\ Apart(full) /\ SizeOf(full) = used
  BY <1>3, <1>4, <1>5, SizeWithOneMore
<1> HIDE DEF full
<1>7. n \in 0 .. Len(full)
  BY <1>6
<1>8. /\ Apart(rest) /\ rest \in Seq(Entries)
      /\ SizeOf(full) = SizeOf(front) + SizeOf(rest)
      /\ SizeOf(front) \in Int /\ SizeOf(rest) \in Int
  BY <1>6, <1>7, SizeInParts
<1> HIDE DEF front, rest, used
<1>9. used - SizeOf(front) = SizeOf(rest)
  BY <1>6, <1>8
<1>10. cache' = [cache EXCEPT ![k] = rest] /\ usedBytes' = [usedBytes EXCEPT ![k] = SizeOf(rest)]
  BY <1>2, <1>9 DEF front, rest
<1>11. Len(rest) > 1 => Len(rest) <= MaxModels /\ SizeOf(rest) <= Budget
  <2>1. Fits(rest, SizeOf(rest)) /\ Len(rest) \in Nat
    BY <1>2, <1>8, <1>9 DEF front, rest
  <2> QED
    BY <2>1 DEF Fits
<1>12. usedBytes' \in [Caches -> Int]
  BY <1>8, <1>10 DEF BooksInv
<1>13. ASSUME NEW c \in Caches
       PROVE  /\ Apart(cache'[c]) /\ usedBytes'[c] = SizeOf(cache'[c])
              /\ Len(cache'[c]) > 1 => Len(cache'[c]) <= MaxModels /\ SizeOf(cache'[c]) <= Budget
  <2>1. CASE c = k
    <3>1. cache'[c] = rest /\ usedBytes'[c] = SizeOf(rest)
      BY <1>10, <2>1 DEF TypeInv, BooksInv
    <3> QED
      BY <1>8, <1>11, <3>1
  <2>2. CASE c # k
    <3>1. cache'[c] = cache[c] /\ usedBytes'[c] = usedBytes[c]
      BY <1>10, <2>2 DEF TypeInv, BooksInv
    <3> QED
      BY <3>1 DEF BooksInv, CacheSound, Apart
  <2> QED
    BY <2>1, <2>2
<1>14. CacheSound'
  BY <1>13 DEF CacheSound, Apart
<1> QED
  BY <1>12, <1>14 DEF BooksInv

LEMMA BooksStep ==
    ASSUME TypeInv, LoadsAbsent, BooksInv, [Next]_vars
    PROVE  BooksInv'
<1>1. CASE UNCHANGED <<cache, usedBytes, evicted>>
  BY <1>1 DEF BooksInv, CacheSound
<1>2. ASSUME NEW r \in Requests, Touch(r), UNCHANGED <<usedBytes, evicted>>
      PROVE  BooksInv'
  BY <1>2, TouchKeepsBooks
<1>3. ASSUME NEW r \in Requests, InsertNew(r), pc[r] = "load"
      PROVE  BooksInv'
  BY <1>3, InsertKeepsBooks DEF LoadsAbsent
<1> QED
  BY <1>1, <1>2, <1>3, CacheStep

IndInv == TypeInv /\ LockInv /\ PermitInv /\ PermitsConserved /\ LoadsAbsent /\ UsesResident
          /\ BooksInv

LEMMA InitIndInv == Init => IndInv
<1> SUFFICES ASSUME Init PROVE IndInv
  OBVIOUS
<1>1. TypeInv
  <2>1. permits = Permits /\ Permits \in Int
    BY SizeAssumption DEF Init
  <2>2. /\ evicted \subseteq Requests /\ loadLock \in Requests \cup {NoRequest}
        /\ kind \in [Requests -> Kinds] /\ model \in [Requests -> Models]
        /\ pc \in [Requests -> Pcs] /\ held \in [Requests -> Requests \cup {NoRequest}]
    BY DEF Init, Pcs
  <2>3. permit \in [Requests -> BOOLEAN]
    BY DEF Init
  <2>4. cache \in [Caches -> Seq(Entries)]
    BY DEF Init
  <2> QED
    BY <2>1, <2>2, <2>3, <2>4 DEF TypeInv
<1>2. \A r \in Requests : ~permit[r] /\ pc[r] = "start" /\ held[r] = NoRequest
  BY DEF Init
<1>3. PermitsConserved
  <2>1. {r \in Requests : permit[r]} = {}
    BY <1>2
  <2>2. Cardinality({r \in Requests : permit[r]}) = 0
    BY <2>1, FS_EmptySet
  <2> QED
    BY <2>2, SizeAssumption DEF PermitsConserved, Init
<1>4. LockInv /\ PermitInv /\ LoadsAbsent /\ UsesResident
  BY <1>2 DEF LockInv, PermitInv, LoadsAbsent, UsesResident
<1>5. BooksInv
  <2>1. usedBytes = [c \in Caches |-> 0] /\ \A c \in Caches : cache[c] = <<>>
    BY DEF Init
  <2>2. <<>> \in Seq(Entries) /\ Apart(<<>>) /\ ModelsOf(<<>>) = {}
    BY DEF Apart, ModelsOf
  <2>3. SizeOf(<<>>) = 0
    BY <2>2, SizeByModel, SumOfNone
  <2> QED
    BY <2>1, <2>2, <2>3 DEF BooksInv, CacheSound
<1> QED
  BY <1>1, <1>3, <1>4, <1>5 DEF IndInv

LEMMA NextIndInv == IndInv /\ [Next]_vars => IndInv'
  BY TypeStep, LockStep, PermitStep, ConserveStep, AbsentStep, UsesStep, BooksStep DEF IndInv

\* No permit of inference_sem is lost or released twice, whichever way requests end.
THEOREM PermitsAreConserved == Spec => []PermitsConserved
<1>1. IndInv => PermitsConserved
  BY DEF IndInv
<1> QED
  BY <1>1, InitIndInv, NextIndInv, PTL DEF Spec

\* Only what is not resident is loaded, and every request uses the resident copy of its model
\* unless that one was evicted since: concurrent first requests share one copy.
THEOREM NoSecondCopy == Spec => []OneCopy
<1>1. IndInv => OneCopy
  BY DEF IndInv, OneCopy
<1> QED
  BY <1>1, InitIndInv, NextIndInv, PTL DEF Spec

\* Loads are serialized: two requests are never between their second lookup and the end of
\* their load.
THEOREM LoadsAreSerialized ==
    Spec => [](\A r, s \in Requests : {pc[r], pc[s]} \subseteq {"recheck", "load"} => r = s)
<1>1. IndInv => \A r, s \in Requests : {pc[r], pc[s]} \subseteq {"recheck", "load"} => r = s
  BY DEF IndInv, LockInv
<1> QED
  BY <1>1, InitIndInv, NextIndInv, PTL DEF Spec

\* However lookups, loads and evictions of concurrent requests interleave, a cache holds a model
\* once, its used_bytes is the size of its entries, and it respects the count and the byte budget
\* unless the last model alone is too large.
THEOREM CachesAreSound == Spec => []CacheSound
<1>1. IndInv => CacheSound
  BY DEF IndInv, BooksInv
<1> QED
  BY <1>1, InitIndInv, NextIndInv, PTL DEF Spec
=============================================================================
