--------------------------- MODULE SequenceLemmas ---------------------------
(***************************************************************************)
(* What the proofs about lines and events use: the least number of a set,  *)
(* which stands in for induction, and what FlattenSeq, defined by a        *)
(* recursive function, does to sequences that grow and are put together.   *)
(***************************************************************************)
EXTENDS SequencesExt, SequenceTheorems, WellFoundedInduction, TLAPS

(* A set of natural numbers that has an element has a least one. *)
LEMMA LeastNumber ==
  ASSUME NEW S \in SUBSET Nat, S # {}
  PROVE  \E i \in S : \A j \in S : i <= j
<1> DEFINE R == {p \in Nat \X Nat : p[1] < p[2]}
<1>1. IsWellFoundedOn(R, Nat)
  <2>1. R = OpToRel(<, Nat)
    BY DEF OpToRel
  <2> QED
    BY <2>1, NatLessThanWellFounded
<1>2. PICK i \in S : \A j \in S : ~ (<<j, i>> \in R)
  BY <1>1, WFMin
<1>3. ASSUME NEW j \in S PROVE i <= j
  <2>1. i \in Nat /\ j \in Nat
    OBVIOUS
  <2>2. ~ (<<j, i>> \in R)
    BY <1>2
  <2>3. ~ (j < i)
    BY <2>1, <2>2
  <2> QED
    BY <2>1, <2>3
<1> QED
  BY <1>3

-----------------------------------------------------------------------------
(* The recursion of FlattenSeq over the first n sequences. *)
Flattening(f, seqs, n) ==
  f = [i \in 1 .. n |-> IF i = 1 THEN seqs[i] ELSE f[i - 1] \o seqs[i]]

(* The recursion has a solution, for it has one for each further sequence. *)
LEMMA FlatteningExists ==
  ASSUME NEW seqs, NEW n \in Nat
  PROVE  \E f : Flattening(f, seqs, n)
<1> DEFINE Bad == {k \in Nat : ~ \E f : Flattening(f, seqs, k)}
<1>1. SUFFICES ASSUME Bad # {} PROVE FALSE
  OBVIOUS
<1>2. PICK k \in Bad : \A l \in Bad : k <= l
  BY <1>1, LeastNumber
<1>3. k # 0
  <2>1. Flattening([i \in 1 .. 0 |-> <<>>], seqs, 0)
    BY DEF Flattening
  <2> QED
    BY <2>1
<1>4. k \in Nat /\ k - 1 \in Nat /\ ~ (k <= k - 1)
  BY <1>3
<1>5. k - 1 \notin Bad
  BY <1>2, <1>4
<1>6. PICK f : Flattening(f, seqs, k - 1)
  BY <1>4, <1>5
<1> DEFINE g == [i \in 1 .. k |-> IF i = 1 THEN seqs[i] ELSE f[i - 1] \o seqs[i]]
<1>7. \A i \in 1 .. k - 1 : f[i] = IF i = 1 THEN seqs[i] ELSE f[i - 1] \o seqs[i]
  BY <1>6 DEF Flattening
<1>8. \A i \in 1 .. k - 1 : g[i] = f[i]
  BY <1>4, <1>7
<1>9. \A i \in 1 .. k : i # 1 => i - 1 \in 1 .. k - 1
  BY <1>4
<1>10. Flattening(g, seqs, k)
  <2>1. \A i \in 1 .. k : (IF i = 1 THEN seqs[i] ELSE f[i - 1] \o seqs[i])
                           = (IF i = 1 THEN seqs[i] ELSE g[i - 1] \o seqs[i])
    BY <1>8, <1>9
  <2>2. g = [i \in 1 .. k |-> IF i = 1 THEN seqs[i] ELSE g[i - 1] \o seqs[i]]
    BY <2>1
  <2> HIDE DEF g
  <2> QED
    BY <2>2 DEF Flattening
<1> QED
  BY <1>2, <1>10

(* FlattenSeq is the last value of the recursion. *)
LEMMA FlattenSeqIsFlattening ==
  ASSUME NEW S, NEW seqs \in Seq(S), seqs # <<>>
  PROVE  \E f : Flattening(f, seqs, Len(seqs)) /\ FlattenSeq(seqs) = f[Len(seqs)]
<1> DEFINE f == CHOOSE f : f = [i \in 1 .. Len(seqs) |-> IF i = 1 THEN seqs[i] ELSE f[i - 1] \o seqs[i]]
<1>1. Len(seqs) \in Nat /\ Len(seqs) # 0
  BY EmptySeq
<1>2. FlattenSeq(seqs) = f[Len(seqs)]
  BY <1>1 DEF FlattenSeq
<1>3. \E g : g = [i \in 1 .. Len(seqs) |-> IF i = 1 THEN seqs[i] ELSE g[i - 1] \o seqs[i]]
  BY <1>1, FlatteningExists DEF Flattening
<1>4. f = [i \in 1 .. Len(seqs) |-> IF i = 1 THEN seqs[i] ELSE f[i - 1] \o seqs[i]]
  BY <1>3
<1> HIDE DEF f
<1> QED
  BY <1>2, <1>4 DEF Flattening

(* A set with 0, and with every number the next, has all numbers.          *)
LEMMA FromZeroOn ==
  ASSUME NEW G, 0 \in G, \A n \in Nat : n \in G => n + 1 \in G
  PROVE  Nat \subseteq G
<1> DEFINE Bad == Nat \ G
<1>1. SUFFICES ASSUME Bad # {} PROVE FALSE
  OBVIOUS
<1>2. PICK n \in Bad : \A m \in Bad : n <= m
  BY <1>1, LeastNumber
<1>3. n # 0 /\ n \in Nat
  OBVIOUS
<1>4. n - 1 \in Nat /\ ~ (n <= n - 1)
  BY <1>3
<1>5. n - 1 \in G
  BY <1>2, <1>4
<1>6. (n - 1) + 1 \in G
  BY <1>4, <1>5
<1>7. (n - 1) + 1 = n
  BY <1>3
<1> QED
  BY <1>6, <1>7

(* A sequence grows by its next element.                                   *)
LEMMA NextPrefix ==
  ASSUME NEW S, NEW s \in Seq(S), NEW n \in Nat, n + 1 <= Len(s)
  PROVE  /\ SubSeq(s, 1, n) \in Seq(S) /\ s[n + 1] \in S
         /\ SubSeq(s, 1, n + 1) = Append(SubSeq(s, 1, n), s[n + 1])
OBVIOUS

(* FlattenSeq of no sequence. *)
LEMMA FlattenSeqEmpty == FlattenSeq(<<>>) = <<>>
BY DEF FlattenSeq

(* FlattenSeq of one sequence more.                                        *)
LEMMA FlattenSeqAppend ==
  ASSUME NEW S, NEW seqs \in Seq(Seq(S)), NEW e \in Seq(S)
  PROVE  FlattenSeq(Append(seqs, e)) = FlattenSeq(seqs) \o e
<1> DEFINE more == Append(seqs, e)
           n == Len(seqs)
<1>2. /\ n \in Nat /\ more \in Seq(Seq(S)) /\ more # <<>> /\ Len(more) = n + 1
      /\ more[n + 1] = e /\ \A i \in 1 .. n : seqs[i] = more[i]
      /\ n = Len(seqs)
  BY AppendProperties
<1> HIDE DEF more, n
<1>3. PICK g : Flattening(g, more, n + 1) /\ FlattenSeq(more) = g[n + 1]
  <2>1. more \in Seq(Seq(S)) /\ more # <<>> /\ Len(more) = n + 1
    BY <1>2
  <2> QED
    BY <2>1, FlattenSeqIsFlattening
<1>4. g[n + 1] = IF n + 1 = 1 THEN e ELSE g[n + 1 - 1] \o e
  <2>1. n + 1 \in 1 .. n + 1
    BY <1>2
  <2>2. \A i \in 1 .. n + 1 : g[i] = IF i = 1 THEN more[i] ELSE g[i - 1] \o more[i]
    BY <1>3 DEF Flattening
  <2>3. g[n + 1] = IF n + 1 = 1 THEN more[n + 1] ELSE g[n + 1 - 1] \o more[n + 1]
    BY <1>2, <2>1, <2>2
  <2>4. more[n + 1] = e
    BY <1>2
  <2> QED
    BY <2>3, <2>4
<1>5. CASE seqs = <<>>
  <2>1. n = 0
    BY <1>2, <1>5
  <2> QED
    BY <1>3, <1>4, <1>5, <2>1, FlattenSeqEmpty DEF more
<1>6. CASE seqs # <<>>
  <2>1. n # 0
    BY <1>2, <1>6, EmptySeq
  <2>2. PICK f : Flattening(f, seqs, n) /\ FlattenSeq(seqs) = f[n]
    BY <1>2, <1>6, FlattenSeqIsFlattening
  <2>3. n \in Nat /\ n + 1 \in Nat /\ n <= n + 1 /\ n \in 1 .. n /\ n + 1 # 1 /\ n + 1 - 1 = n
    BY <1>2, <2>1
  <2>4. \A i \in 1 .. n : f[i] = g[i]
    <3> DEFINE Bad == {i \in 1 .. n : f[i] # g[i]}
    <3>1. SUFFICES ASSUME Bad # {} PROVE FALSE
      OBVIOUS
    <3>2. Bad \in SUBSET Nat
      BY <2>3
    <3>3. PICK i \in Bad : \A j \in Bad : i <= j
      BY <3>1, <3>2, LeastNumber
    <3>4. \A j \in 1 .. n : f[j] = IF j = 1 THEN seqs[j] ELSE f[j - 1] \o seqs[j]
      BY <2>2 DEF Flattening
    <3>5. \A j \in 1 .. n + 1 : g[j] = IF j = 1 THEN more[j] ELSE g[j - 1] \o more[j]
      BY <1>3 DEF Flattening
    <3>6. i \in 1 .. n /\ i \in 1 .. n + 1 /\ i \in Nat /\ seqs[i] = more[i]
      BY <1>2
    <3>7. i # 1
      BY <3>4, <3>5, <3>6
    <3>8. i - 1 \in 1 .. n /\ ~ (i <= i - 1)
      BY <1>2, <3>6, <3>7
    <3>9. f[i - 1] = g[i - 1]
      BY <3>3, <3>8
    <3>10. f[i] = f[i - 1] \o seqs[i] /\ g[i] = g[i - 1] \o more[i]
      BY <3>4, <3>5, <3>6, <3>7
    <3>11. f[i] = g[i]
      BY <3>6, <3>9, <3>10
    <3> QED
      BY <3>3, <3>11
  <2>5. f[n] = g[n]
    BY <2>3, <2>4
  <2>6. FlattenSeq(more) = FlattenSeq(seqs) \o e
    BY <1>3, <1>4, <2>2, <2>3, <2>5
  <2> QED
    BY <1>6, <2>6 DEF more
<1> QED
  BY <1>5, <1>6

(* FlattenSeq of sequences over S is a sequence over S. *)
LEMMA FlattenSeqType ==
  ASSUME NEW S, NEW seqs \in Seq(Seq(S))
  PROVE  FlattenSeq(seqs) \in Seq(S)
<1> DEFINE G == {n \in Nat : n <= Len(seqs) => FlattenSeq(SubSeq(seqs, 1, n)) \in Seq(S)}
<1>1. 0 \in G
  <2>1. SubSeq(seqs, 1, 0) = <<>>
    OBVIOUS
  <2>2. <<>> \in Seq(S)
    OBVIOUS
  <2>3. FlattenSeq(SubSeq(seqs, 1, 0)) \in Seq(S)
    BY <2>1, <2>2, FlattenSeqEmpty, Zenon
  <2> QED
    BY <2>3
<1>2. ASSUME NEW n \in Nat, n \in G PROVE n + 1 \in G
  <2> SUFFICES ASSUME n + 1 <= Len(seqs) PROVE FlattenSeq(SubSeq(seqs, 1, n + 1)) \in Seq(S)
    OBVIOUS
  <2> DEFINE p == SubSeq(seqs, 1, n)
  <2>1. p \in Seq(Seq(S)) /\ seqs[n + 1] \in Seq(S) /\ SubSeq(seqs, 1, n + 1) = Append(p, seqs[n + 1])
    BY NextPrefix
  <2>2. n <= Len(seqs)
    OBVIOUS
  <2>3. FlattenSeq(p) \in Seq(S)
    BY <1>2, <2>2
  <2> HIDE DEF p
  <2>4. FlattenSeq(p) \o seqs[n + 1] \in Seq(S)
    BY <2>1, <2>3
  <2>5. FlattenSeq(Append(p, seqs[n + 1])) = FlattenSeq(p) \o seqs[n + 1]
    BY <2>1, FlattenSeqAppend
  <2> QED
    BY <2>1, <2>4, <2>5
<1>3. Len(seqs) \in G
  <2> HIDE DEF G
  <2>1. Nat \subseteq G
    BY <1>1, <1>2, FromZeroOn
  <2> QED
    BY <2>1
<1>4. SubSeq(seqs, 1, Len(seqs)) = seqs /\ Len(seqs) <= Len(seqs)
  OBVIOUS
<1>5. FlattenSeq(SubSeq(seqs, 1, Len(seqs))) \in Seq(S)
  BY <1>3, <1>4
<1> QED
  BY <1>4, <1>5, Zenon

(* FlattenSeq of two sequences of sequences, one after the other. *)
LEMMA FlattenSeqConcat ==
  ASSUME NEW S, NEW a \in Seq(Seq(S)), NEW b \in Seq(Seq(S))
  PROVE  FlattenSeq(a \o b) = FlattenSeq(a) \o FlattenSeq(b)
<1> DEFINE Holds(c) == FlattenSeq(a \o c) = FlattenSeq(a) \o FlattenSeq(c)
           G == {n \in Nat : n <= Len(b) => Holds(SubSeq(b, 1, n))}
<1>0. FlattenSeq(a) \in Seq(S)
  BY FlattenSeqType
<1>1. 0 \in G
  <2>1. SubSeq(b, 1, 0) = <<>>
    OBVIOUS
  <2>2. a \o <<>> = a /\ FlattenSeq(a) \o <<>> = FlattenSeq(a)
    BY <1>0, ConcatEmptySeq
  <2>3. Holds(<<>>)
    BY <2>2, FlattenSeqEmpty
  <2> HIDE DEF Holds
  <2> QED
    BY <2>1, <2>3
<1>2. ASSUME NEW n \in Nat, n \in G PROVE n + 1 \in G
  <2> SUFFICES ASSUME n + 1 <= Len(b) PROVE Holds(SubSeq(b, 1, n + 1))
    OBVIOUS
  <2> DEFINE p == SubSeq(b, 1, n)
             e == b[n + 1]
  <2>1. p \in Seq(Seq(S)) /\ e \in Seq(S) /\ SubSeq(b, 1, n + 1) = Append(p, e)
    BY NextPrefix
  <2>2. Holds(p)
    BY <1>2
  <2> HIDE DEF p, e
  <2>3. a \o Append(p, e) = Append(a \o p, e) /\ a \o p \in Seq(Seq(S))
    BY <2>1, SMTT(60)
  <2>4. FlattenSeq(Append(a \o p, e)) = FlattenSeq(a \o p) \o e
    BY <2>1, <2>3, FlattenSeqAppend
  <2>5. FlattenSeq(Append(p, e)) = FlattenSeq(p) \o e /\ FlattenSeq(p) \in Seq(S)
    BY <2>1, FlattenSeqAppend, FlattenSeqType
  <2>6. (FlattenSeq(a) \o FlattenSeq(p)) \o e = FlattenSeq(a) \o (FlattenSeq(p) \o e)
    <3>1. \A x, y, z \in Seq(S) : (x \o y) \o z = x \o (y \o z)
      BY ConcatAssociative, SMTT(60)
    <3> QED
      BY <1>0, <2>1, <2>5, <3>1, Zenon
  <2> QED
    BY <2>1, <2>2, <2>3, <2>4, <2>5, <2>6
<1>3. Len(b) \in G
  <2> HIDE DEF G
  <2>1. Nat \subseteq G
    BY <1>1, <1>2, FromZeroOn
  <2> QED
    BY <2>1
<1>4. SubSeq(b, 1, Len(b)) = b /\ Len(b) <= Len(b)
  OBVIOUS
<1>5. Holds(SubSeq(b, 1, Len(b)))
  <2> HIDE DEF Holds
  <2> QED
    BY <1>3, <1>4
<1> QED
  BY <1>4, <1>5, Zenon

(* What FlattenSeq holds are the elements of its sequences. *)
LEMMA FlattenSeqRange ==
  ASSUME NEW S, NEW seqs \in Seq(Seq(S))
  PROVE  Range(FlattenSeq(seqs)) = UNION {Range(seqs[i]) : i \in 1 .. Len(seqs)}
<1> DEFINE Held(n) == UNION {Range(seqs[i]) : i \in 1 .. n}
           Holds(n) == Range(FlattenSeq(SubSeq(seqs, 1, n))) = Held(n)
           G == {n \in Nat : n <= Len(seqs) => Holds(n)}
<1>1. 0 \in G
  <2>1. SubSeq(seqs, 1, 0) = <<>> /\ Range(<<>>) = {} /\ 1 .. 0 = {}
    BY DEF Range
  <2>2. Held(0) = {}
    BY <2>1
  <2>3. Holds(0)
    BY <2>1, <2>2, FlattenSeqEmpty, Zenon
  <2> QED
    BY <2>3
<1>2. ASSUME NEW n \in Nat, n \in G PROVE n + 1 \in G
  <2> SUFFICES ASSUME n + 1 <= Len(seqs) PROVE Holds(n + 1)
    OBVIOUS
  <2> DEFINE p == SubSeq(seqs, 1, n)
             e == seqs[n + 1]
  <2>1. p \in Seq(Seq(S)) /\ e \in Seq(S) /\ SubSeq(seqs, 1, n + 1) = Append(p, e)
    BY NextPrefix
  <2>2. Range(FlattenSeq(p)) = Held(n)
    BY <1>2
  <2>3. Held(n + 1) = Held(n) \cup Range(e)
    <3>1. 1 .. n + 1 = (1 .. n) \cup {n + 1}
      OBVIOUS
    <3> QED
      BY <3>1
  <2> HIDE DEF p, e, Held
  <2>4. FlattenSeq(Append(p, e)) = FlattenSeq(p) \o e /\ FlattenSeq(p) \in Seq(S)
    BY <2>1, FlattenSeqAppend, FlattenSeqType
  <2>5. Range(FlattenSeq(p) \o e) = Range(FlattenSeq(p)) \cup Range(e)
    BY <2>1, <2>4, RangeConcatenation
  <2> QED
    BY <2>1, <2>2, <2>3, <2>4, <2>5
<1>3. Len(seqs) \in G
  <2> HIDE DEF G
  <2>1. Nat \subseteq G
    BY <1>1, <1>2, FromZeroOn
  <2> QED
    BY <2>1
<1>4. SubSeq(seqs, 1, Len(seqs)) = seqs /\ Len(seqs) <= Len(seqs)
  OBVIOUS
<1>5. Holds(Len(seqs))
  <2> HIDE DEF Holds
  <2> QED
    BY <1>3, <1>4
<1> QED
  BY <1>4, <1>5, Zenon

-----------------------------------------------------------------------------
(* The sequences a function gives for the elements of s, put together:     *)
(* what FlattenSeq is used for.  A filter gives <<e>> or <<>>.             *)
FlatMap(f, s) == FlattenSeq([i \in DOMAIN s |-> f[s[i]]])

(* It is a sequence over what the function gives.                          *)
LEMMA FlatMapType ==
  ASSUME NEW S, NEW T, NEW s \in Seq(S), NEW f \in [S -> Seq(T)]
  PROVE  /\ FlatMap(f, s) \in Seq(T)
         /\ Range(FlatMap(f, s)) = UNION {Range(f[s[i]]) : i \in 1 .. Len(s)}
<1> DEFINE p == [i \in DOMAIN s |-> f[s[i]]]
<1>1. DOMAIN s = 1 .. Len(s) /\ Len(s) \in Nat /\ \A i \in 1 .. Len(s) : s[i] \in S
  OBVIOUS
<1>2. p \in Seq(Seq(T)) /\ Len(p) = Len(s) /\ \A i \in 1 .. Len(s) : p[i] = f[s[i]]
  BY <1>1
<1> HIDE DEF p
<1>3. FlattenSeq(p) \in Seq(T) /\ Range(FlattenSeq(p)) = UNION {Range(p[i]) : i \in 1 .. Len(p)}
  BY <1>2, FlattenSeqType, FlattenSeqRange
<1>4. {Range(p[i]) : i \in 1 .. Len(p)} = {Range(f[s[i]]) : i \in 1 .. Len(s)}
  BY <1>2
<1> QED
  BY <1>2, <1>3, <1>4 DEF FlatMap, p

(* One element more. *)
LEMMA FlatMapAppend ==
  ASSUME NEW S, NEW T, NEW s \in Seq(S), NEW e \in S, NEW f \in [S -> Seq(T)]
  PROVE  FlatMap(f, Append(s, e)) = FlatMap(f, s) \o f[e]
<1> DEFINE t == Append(s, e)
           p == [i \in DOMAIN s |-> f[s[i]]]
           q == [i \in DOMAIN t |-> f[t[i]]]
<1>1. /\ t \in Seq(S) /\ DOMAIN t = 1 .. Len(s) + 1 /\ t[Len(s) + 1] = e /\ Len(s) \in Nat
      /\ \A i \in 1 .. Len(s) : t[i] = s[i]
      /\ DOMAIN s = 1 .. Len(s) /\ \A i \in 1 .. Len(s) : s[i] \in S
  BY AppendProperties
<1>2. /\ p \in Seq(Seq(T)) /\ Len(p) = Len(s) /\ \A i \in 1 .. Len(s) : p[i] = f[s[i]]
      /\ f[e] \in Seq(T)
  BY <1>1
<1> HIDE DEF t
<1>3. /\ DOMAIN q = 1 .. Len(s) + 1 /\ q[Len(s) + 1] = f[e]
      /\ \A i \in 1 .. Len(s) : q[i] = f[s[i]]
  BY <1>1
<1>4. q \in Seq(Seq(T)) /\ Len(q) = Len(s) + 1
  BY <1>1, <1>3
<1> HIDE DEF p, q
<1>5. q = Append(p, f[e])
  BY <1>1, <1>2, <1>3, <1>4
<1>6. FlattenSeq(q) = FlattenSeq(p) \o f[e]
  BY <1>2, <1>5, FlattenSeqAppend
<1> QED
  BY <1>6 DEF FlatMap, p, q, t

(* Two sequences one after the other.                                      *)
LEMMA FlatMapConcat ==
  ASSUME NEW S, NEW T, NEW a \in Seq(S), NEW b \in Seq(S), NEW f \in [S -> Seq(T)]
  PROVE  FlatMap(f, a \o b) = FlatMap(f, a) \o FlatMap(f, b)
<1> DEFINE c == a \o b
           p == [i \in DOMAIN a |-> f[a[i]]]
           q == [i \in DOMAIN b |-> f[b[i]]]
           both == [i \in DOMAIN c |-> f[c[i]]]
<1>1. /\ c \in Seq(S) /\ Len(c) = Len(a) + Len(b) /\ Len(a) \in Nat /\ Len(b) \in Nat
      /\ \A i \in 1 .. Len(a) + Len(b) : c[i] = IF i <= Len(a) THEN a[i] ELSE b[i - Len(a)]
  BY ConcatProperties
<1>2. /\ p \in Seq(Seq(T)) /\ Len(p) = Len(a) /\ \A i \in 1 .. Len(a) : p[i] = f[a[i]]
      /\ q \in Seq(Seq(T)) /\ Len(q) = Len(b) /\ \A i \in 1 .. Len(b) : q[i] = f[b[i]]
  <2>1. /\ DOMAIN a = 1 .. Len(a) /\ \A i \in 1 .. Len(a) : a[i] \in S
        /\ DOMAIN b = 1 .. Len(b) /\ \A i \in 1 .. Len(b) : b[i] \in S
    OBVIOUS
  <2> QED
    BY <1>1, <2>1
<1> HIDE DEF c
<1>3. /\ both \in Seq(Seq(T)) /\ Len(both) = Len(a) + Len(b)
      /\ \A i \in 1 .. Len(a) + Len(b) : both[i] = f[c[i]]
  <2>1. DOMAIN c = 1 .. Len(a) + Len(b) /\ \A i \in 1 .. Len(a) + Len(b) : c[i] \in S
    BY <1>1
  <2>2. Len(a) + Len(b) \in Nat
    BY <1>1
  <2> QED
    BY <2>1, <2>2
<1> HIDE DEF p, q, both
<1>4. \A i \in 1 .. Len(a) + Len(b) : both[i] = IF i <= Len(p) THEN p[i] ELSE q[i - Len(p)]
  <2> TAKE i \in 1 .. Len(a) + Len(b)
  <2>1. CASE i <= Len(a)
    <3>1. i \in 1 .. Len(a)
      BY <1>1, <2>1
    <3>2. c[i] = a[i] /\ both[i] = f[a[i]]
      BY <1>1, <1>3, <2>1
    <3> QED
      BY <1>2, <2>1, <3>1, <3>2
  <2>2. CASE Len(a) < i
    <3>1. i - Len(a) \in 1 .. Len(b) /\ ~ (i <= Len(a))
      BY <1>1, <2>2
    <3>2. c[i] = b[i - Len(a)] /\ both[i] = f[b[i - Len(a)]]
      BY <1>1, <1>3, <3>1
    <3> QED
      BY <1>2, <3>1, <3>2
  <2> QED
    BY <1>1, <2>1, <2>2
<1>5. both = p \o q
  <2>1. /\ p \o q \in Seq(Seq(T)) /\ Len(p \o q) = Len(a) + Len(b)
        /\ \A i \in 1 .. Len(a) + Len(b) : (p \o q)[i] = IF i <= Len(p) THEN p[i] ELSE q[i - Len(p)]
    <3>1. p \in Seq(Seq(T)) /\ q \in Seq(Seq(T)) /\ Len(p) = Len(a) /\ Len(q) = Len(b)
      BY <1>2
    <3>2. p \o q \in Seq(Seq(T)) /\ Len(p \o q) = Len(p) + Len(q)
      BY <3>1, ConcatProperties, Zenon
    <3>3. \A i \in 1 .. Len(p) + Len(q) : (p \o q)[i] = IF i <= Len(p) THEN p[i] ELSE q[i - Len(p)]
      BY <3>1, ConcatProperties, Zenon
    <3> QED
      BY <3>1, <3>2, <3>3
  <2> DEFINE pq == p \o q
  <2> HIDE DEF pq
  <2>2. pq \in Seq(Seq(T)) /\ Len(pq) = Len(both) /\ \A i \in 1 .. Len(both) : pq[i] = both[i]
    BY <1>3, <1>4, <2>1 DEF pq
  <2>3. pq = both
    BY <1>3, <2>2, SeqEqual
  <2> QED
    BY <2>3 DEF pq
<1>6. FlattenSeq(p \o q) = FlattenSeq(p) \o FlattenSeq(q)
  BY <1>2, FlattenSeqConcat
<1> QED
  BY <1>5, <1>6 DEF FlatMap, p, q, both, c

(* No element. *)
LEMMA FlatMapEmpty ==
  ASSUME NEW f
  PROVE  FlatMap(f, <<>>) = <<>>
<1>1. [i \in DOMAIN <<>> |-> f[<<>>[i]]] = <<>>
  OBVIOUS
<1> QED
  BY <1>1, FlattenSeqEmpty DEF FlatMap

(* Elements that give nothing. *)
LEMMA FlatMapNothing ==
  ASSUME NEW S, NEW T, NEW s \in Seq(S), NEW f \in [S -> Seq(T)],
         \A i \in 1 .. Len(s) : f[s[i]] = <<>>
  PROVE  FlatMap(f, s) = <<>>
<1> DEFINE r == FlatMap(f, s)
<1>1. Range(<<>>) = {}
  BY DEF Range
<1>2. r \in Seq(T) /\ Range(r) = UNION {Range(f[s[i]]) : i \in 1 .. Len(s)}
  BY FlatMapType, SMTT(60)
<1>3. Range(r) = {}
  BY <1>1, <1>2
<1> HIDE DEF r
<1>4. \A i \in 1 .. Len(r) : r[i] \in Range(r)
  BY <1>2 DEF Range
<1>5. Len(r) = 0
  <2>1. Len(r) \in Nat
    BY <1>2
  <2>2. 1 \notin 1 .. Len(r)
    BY <1>3, <1>4
  <2> QED
    BY <2>1, <2>2
<1>6. r = <<>>
  BY <1>2, <1>5
<1> QED
  BY <1>6 DEF r

(* Elements that give themselves. *)
LEMMA FlatMapItself ==
  ASSUME NEW S, NEW T, NEW s \in Seq(S), NEW f \in [S -> Seq(T)],
         \A i \in 1 .. Len(s) : f[s[i]] = <<s[i]>>
  PROVE  FlatMap(f, s) = s
<1>1. ASSUME NEW q \in Seq(S), NEW x \in S
       PROVE  FlatMap(f, Append(q, x)) = FlatMap(f, q) \o f[x]
  BY FlatMapAppend
<1> DEFINE Holds(c) == FlatMap(f, c) = c
           G == {n \in Nat : n <= Len(s) => Holds(SubSeq(s, 1, n))}
<1>2. 0 \in G
  <2>1. SubSeq(s, 1, 0) = <<>>
    OBVIOUS
  <2>2. Holds(<<>>)
    BY FlatMapEmpty
  <2> HIDE DEF Holds
  <2> QED
    BY <2>1, <2>2
<1>3. ASSUME NEW n \in Nat, n \in G PROVE n + 1 \in G
  <2> SUFFICES ASSUME n + 1 <= Len(s) PROVE Holds(SubSeq(s, 1, n + 1))
    OBVIOUS
  <2> DEFINE p == SubSeq(s, 1, n)
             e == s[n + 1]
  <2>1. p \in Seq(S) /\ e \in S /\ SubSeq(s, 1, n + 1) = Append(p, e)
    BY NextPrefix
  <2>2. Holds(p)
    BY <1>3
  <2>3. f[e] = <<e>>
    OBVIOUS
  <2> HIDE DEF p, e
  <2>4. FlatMap(f, Append(p, e)) = FlatMap(f, p) \o f[e]
    BY <2>1, <1>1
  <2>5. p \o <<e>> = Append(p, e)
    BY <2>1
  <2> QED
    BY <2>1, <2>2, <2>3, <2>4, <2>5
<1>4. Len(s) \in G
  <2> HIDE DEF G
  <2>1. Nat \subseteq G
    BY <1>2, <1>3, FromZeroOn
  <2> QED
    BY <2>1
<1>5. SubSeq(s, 1, Len(s)) = s /\ Len(s) <= Len(s)
  OBVIOUS
<1>6. Holds(SubSeq(s, 1, Len(s)))
  <2> HIDE DEF Holds
  <2> QED
    BY <1>4, <1>5
<1> QED
  BY <1>5, <1>6, Zenon

(* For use where the provers would expand the set of functions. *)
MapsTo(f, S, T) == f \in [S -> Seq(T)]

(* One map after the other is one map. *)
LEMMA FlatMapTwice ==
  ASSUME NEW S, NEW T, NEW U, NEW s \in Seq(S),
         NEW g, MapsTo(g, S, T), NEW f, MapsTo(f, T, U), NEW h, MapsTo(h, S, U),
         \A x \in S : h[x] = FlatMap(f, g[x])
  PROVE  FlatMap(f, FlatMap(g, s)) = FlatMap(h, s)
<1> USE DEF MapsTo
<1> DEFINE Holds(c) == FlatMap(f, FlatMap(g, c)) = FlatMap(h, c)
           G == {n \in Nat : n <= Len(s) => Holds(SubSeq(s, 1, n))}
<1>1. 0 \in G
  <2>1. SubSeq(s, 1, 0) = <<>>
    OBVIOUS
  <2>2. Holds(<<>>)
    BY FlatMapEmpty
  <2> HIDE DEF Holds
  <2> QED
    BY <2>1, <2>2
<1>2. ASSUME NEW n \in Nat, n \in G PROVE n + 1 \in G
  <2> SUFFICES ASSUME n + 1 <= Len(s) PROVE Holds(SubSeq(s, 1, n + 1))
    OBVIOUS
  <2> DEFINE p == SubSeq(s, 1, n)
             e == s[n + 1]
  <2>1. p \in Seq(S) /\ e \in S /\ SubSeq(s, 1, n + 1) = Append(p, e)
    BY NextPrefix
  <2>2. Holds(p)
    BY <1>2
  <2> HIDE DEF p, e
  <2>3. FlatMap(g, p) \in Seq(T) /\ g[e] \in Seq(T)
    BY <2>1, FlatMapType
  <2>4. FlatMap(g, Append(p, e)) = FlatMap(g, p) \o g[e]
    BY <2>1, FlatMapAppend
  <2>5. FlatMap(f, FlatMap(g, p) \o g[e]) = FlatMap(f, FlatMap(g, p)) \o FlatMap(f, g[e])
    BY <2>3, FlatMapConcat
  <2>6. FlatMap(h, Append(p, e)) = FlatMap(h, p) \o h[e]
    BY <2>1, FlatMapAppend
  <2>7. h[e] = FlatMap(f, g[e])
    BY <2>1
  <2> QED
    BY <2>1, <2>2, <2>4, <2>5, <2>6, <2>7
<1>3. Len(s) \in G
  <2> HIDE DEF G
  <2>1. Nat \subseteq G
    BY <1>1, <1>2, FromZeroOn
  <2> QED
    BY <2>1
<1>4. SubSeq(s, 1, Len(s)) = s /\ Len(s) <= Len(s)
  OBVIOUS
<1>5. Holds(SubSeq(s, 1, Len(s)))
  <2> HIDE DEF Holds
  <2> QED
    BY <1>3, <1>4
<1> QED
  BY <1>4, <1>5, Zenon

-----------------------------------------------------------------------------
(* Sequences element by element.                                           *)

(* Two sequences, one after the other, element by element. *)
LEMMA ConcatElements ==
  ASSUME NEW S, NEW T, NEW a \in Seq(S), NEW b \in Seq(T)
  PROVE  /\ a \o b \in Seq(S \cup T) /\ Len(a \o b) = Len(a) + Len(b)
         /\ Len(a) \in Nat /\ Len(b) \in Nat
         /\ \A i \in 1 .. Len(a) : (a \o b)[i] = a[i]
         /\ \A i \in 1 .. Len(b) : (a \o b)[Len(a) + i] = b[i]
<1>1. a \in Seq(S \cup T) /\ b \in Seq(S \cup T)
  OBVIOUS
<1>2. a \o b \in Seq(S \cup T) /\ Len(a \o b) = Len(a) + Len(b)
  BY <1>1, ConcatProperties, Zenon
<1>3. \A i \in 1 .. Len(a) + Len(b) : (a \o b)[i] = IF i <= Len(a) THEN a[i] ELSE b[i - Len(a)]
  BY <1>1, ConcatProperties, Zenon
<1>4. Len(a) \in Nat /\ Len(b) \in Nat
  OBVIOUS
<1> DEFINE c == a \o b
<1> HIDE DEF c
<1>5. \A i \in 1 .. Len(a) : c[i] = a[i]
  BY <1>3, <1>4 DEF c
<1>6. ASSUME NEW i \in 1 .. Len(b) PROVE c[Len(a) + i] = b[i]
  <2>1. Len(a) + i \in 1 .. Len(a) + Len(b) /\ ~ (Len(a) + i <= Len(a)) /\ Len(a) + i - Len(a) = i
    BY <1>4
  <2> QED
    BY <1>3, <2>1 DEF c
<1> QED
  BY <1>2, <1>4, <1>5, <1>6 DEF c

(* An index of two sequences put together is one of the first or the second. *)
LEMMA FirstOrSecond ==
  ASSUME NEW m \in Nat, NEW n \in Nat, NEW i \in 1 .. m + n, i \notin 1 .. m
  PROVE  \E k \in 1 .. n : i = m + k
<1>1. i - m \in 1 .. n /\ i = m + (i - m)
  OBVIOUS
<1> QED
  BY <1>1

(* A sequence is a sequence over what it holds. *)
LEMMA OverItsRange ==
  ASSUME NEW S, NEW s \in Seq(S)
  PROVE  /\ s \in Seq(Range(s)) /\ Len(s) \in Nat
         /\ \A i \in 1 .. Len(s) : s[i] \in S
<1>1. /\ Len(s) \in Nat /\ s = [i \in 1 .. Len(s) |-> s[i]]
      /\ \A i \in 1 .. Len(s) : s[i] \in Range(s) /\ s[i] \in S
  BY DEF Range
<1> DEFINE t == [i \in 1 .. Len(s) |-> s[i]]
<1>2. t \in Seq(Range(s))
  BY <1>1
<1> QED
  BY <1>1, <1>2

(* A sequence that has the elements of a and then those of b. *)
LEMMA PutTogether ==
  ASSUME NEW S, NEW a \in Seq(S), NEW b \in Seq(S), NEW c \in Seq(S), Len(c) = Len(a) + Len(b),
         \A i \in 1 .. Len(a) : c[i] = a[i], \A i \in 1 .. Len(b) : c[Len(a) + i] = b[i]
  PROVE  c = a \o b
<1> DEFINE d == a \o b
           S2 == S
<1>1. b \in Seq(S2)
  OBVIOUS
<1> HIDE DEF S2
<1>2. /\ d \in Seq(S \cup S2) /\ Len(d) = Len(a) + Len(b) /\ Len(a) \in Nat /\ Len(b) \in Nat
  BY <1>1, ConcatElements
<1>3. /\ \A i \in 1 .. Len(a) : d[i] = a[i]
      /\ \A i \in 1 .. Len(b) : d[Len(a) + i] = b[i]
  BY <1>1, ConcatElements
<1> HIDE DEF d
<1>4. ASSUME NEW i \in 1 .. Len(c) PROVE c[i] = d[i]
  <2>1. CASE i \in 1 .. Len(a)
    BY <1>3, <2>1
  <2>2. CASE i \notin 1 .. Len(a)
    <3>1. PICK k \in 1 .. Len(b) : i = Len(a) + k
      <4>1. i \in 1 .. Len(a) + Len(b)
        OBVIOUS
      <4> HIDE DEF S2
      <4> QED
        BY <1>2, <2>2, <4>1, FirstOrSecond
    <3> QED
      BY <1>3, <3>1
  <2> QED
    BY <2>1, <2>2
<1>5. c \in Seq(S \cup S2)
  OBVIOUS
<1>6. c = d
  BY <1>2, <1>4, <1>5, SeqEqual
<1> QED
  BY <1>6 DEF d

-----------------------------------------------------------------------------
(* FlatMap of one element, FlattenSeq of nothing.                          *)

(* A function of one element. *)
LEMMA FlatMapOne ==
  ASSUME NEW S, NEW T, NEW f \in [S -> Seq(T)], NEW x \in S
  PROVE  FlatMap(f, <<x>>) = f[x]
<1> DEFINE none == <<>>
<1>1. none \in Seq(S) /\ Append(none, x) = <<x>>
  OBVIOUS
<1> HIDE DEF none
<1>2. FlatMap(f, Append(none, x)) = FlatMap(f, none) \o f[x]
  <2>1. ASSUME NEW s \in Seq(S), NEW e \in S
        PROVE  FlatMap(f, Append(s, e)) = FlatMap(f, s) \o f[e]
    BY FlatMapAppend
  <2> QED
    BY <1>1, <2>1, Zenon
<1>3. f[x] \in Seq(T)
  OBVIOUS
<1>4. <<>> \o f[x] = f[x]
  BY <1>3
<1> QED
  BY <1>1, <1>2, <1>4, FlatMapEmpty DEF none

(* Nothing, any number of times. *)
LEMMA FlattenNothing ==
  ASSUME NEW n \in Nat
  PROVE  FlattenSeq([i \in 1 .. n |-> <<>>]) = <<>>
<1> DEFINE s == [i \in 1 .. n |-> 0]
           f == [x \in {0} |-> <<>>]
<1>1. s \in Seq({0}) /\ DOMAIN s = 1 .. n /\ Len(s) = n /\ \A i \in 1 .. n : f[s[i]] = <<>>
  OBVIOUS
<1>2. f \in [{0} -> Seq({1})]
  OBVIOUS
<1>3. [i \in DOMAIN s |-> f[s[i]]] = [i \in 1 .. n |-> <<>>]
  BY <1>1
<1> HIDE DEF s, f
<1>4. FlatMap(f, s) = <<>>
  BY <1>1, <1>2, FlatMapNothing
<1> QED
  BY <1>3, <1>4 DEF FlatMap
-----------------------------------------------------------------------------
(* Sequences that are cut.                                                 *)

(* What is behind the first n elements.                                    *)
Behind(s, n) == SubSeq(s, n + 1, Len(s))

(* It is the elements from n + 1 on. *)
LEMMA BehindElements ==
  ASSUME NEW S, NEW s \in Seq(S), NEW n \in Nat, n <= Len(s)
  PROVE  /\ Behind(s, n) \in Seq(S) /\ Len(Behind(s, n)) = Len(s) - n
         /\ \A i \in 1 .. Len(s) - n : Behind(s, n)[i] = s[n + i]
<1>1. Len(s) \in Nat /\ \A i \in n + 1 .. Len(s) : s[i] \in S
  OBVIOUS
<1>2. /\ Behind(s, n) \in Seq(S)
      /\ Len(Behind(s, n)) = IF n + 1 <= Len(s) THEN Len(s) - (n + 1) + 1 ELSE 0
      /\ \A i \in 1 .. Len(s) - (n + 1) + 1 : Behind(s, n)[i] = s[n + 1 + i - 1]
  BY <1>1, SubSeqProperties DEF Behind
<1> QED
  BY <1>1, <1>2

(* The first n elements. *)
LEMMA FirstElements ==
  ASSUME NEW S, NEW s \in Seq(S), NEW n \in Nat, n <= Len(s)
  PROVE  /\ SubSeq(s, 1, n) \in Seq(S) /\ Len(SubSeq(s, 1, n)) = n
         /\ \A i \in 1 .. n : SubSeq(s, 1, n)[i] = s[i]
<1>1. Len(s) \in Nat /\ \A i \in 1 .. n : s[i] \in S
  OBVIOUS
<1>2. /\ SubSeq(s, 1, n) \in Seq(S)
      /\ Len(SubSeq(s, 1, n)) = IF 1 <= n THEN n - 1 + 1 ELSE 0
      /\ \A i \in 1 .. n - 1 + 1 : SubSeq(s, 1, n)[i] = s[1 + i - 1]
  BY <1>1, SubSeqProperties
<1> QED
  BY <1>1, <1>2

(* Equal sequences, element by element up to a bound. *)
LEMMA SameElements ==
  ASSUME NEW S, NEW s \in Seq(S), NEW t \in Seq(S), NEW n \in Nat, Len(s) = n, Len(t) = n,
         \A i \in 1 .. n : s[i] = t[i]
  PROVE  s = t
BY SeqEqual

(* Both pieces make the whole. *)
LEMMA CutAndJoined ==
  ASSUME NEW S, NEW s \in Seq(S), NEW n \in Nat, n <= Len(s)
  PROVE  SubSeq(s, 1, n) \o Behind(s, n) = s
<1> DEFINE a == SubSeq(s, 1, n)
           b == Behind(s, n)
           c == a \o b
<1>1. /\ a \in Seq(S) /\ Len(a) = n /\ \A i \in 1 .. n : a[i] = s[i]
      /\ b \in Seq(S) /\ Len(b) = Len(s) - n /\ \A i \in 1 .. Len(s) - n : b[i] = s[n + i]
      /\ Len(s) \in Nat
  BY BehindElements, FirstElements
<1> HIDE DEF a, b
<1>2. /\ a \o b \in Seq(S) /\ Len(a \o b) = Len(a) + Len(b)
      /\ \A i \in 1 .. Len(a) + Len(b) : (a \o b)[i] = IF i <= Len(a) THEN a[i] ELSE b[i - Len(a)]
  BY <1>1, ConcatProperties, Zenon
<1>3. c \in Seq(S) /\ Len(c) = Len(s)
  BY <1>1, <1>2
<1>4. ASSUME NEW i \in 1 .. Len(s) PROVE c[i] = s[i]
  <2>1. i \in 1 .. Len(a) + Len(b)
    BY <1>1
  <2>2. c[i] = IF i <= Len(a) THEN a[i] ELSE b[i - Len(a)]
    BY <1>2, <2>1
  <2> HIDE DEF c
  <2>3. CASE i <= n
    BY <1>1, <2>2, <2>3
  <2>4. CASE ~(i <= n)
    <3>1. i - n \in 1 .. Len(s) - n /\ n + (i - n) = i
      BY <1>1, <2>4
    <3> QED
      BY <1>1, <2>2, <2>4, <3>1
  <2> QED
    BY <2>3, <2>4
<1> HIDE DEF c
<1>5. c = s
  BY <1>1, <1>3, <1>4, SameElements
<1> QED
  BY <1>5 DEF c, a, b

(* A piece that is cut again. *)
LEMMA BehindBehind ==
  ASSUME NEW S, NEW s \in Seq(S), NEW m \in Nat, NEW n \in Nat, m + n <= Len(s)
  PROVE  Behind(Behind(s, m), n) = Behind(s, m + n)
<1> DEFINE b == Behind(s, m)
           c == Behind(b, n)
           d == Behind(s, m + n)
<1>1. Len(s) \in Nat /\ m <= Len(s) /\ m + n \in Nat
  OBVIOUS
<1>2. b \in Seq(S) /\ Len(b) = Len(s) - m /\ \A i \in 1 .. Len(s) - m : b[i] = s[m + i]
  BY <1>1, BehindElements
<1>3. d \in Seq(S) /\ Len(d) = Len(s) - (m + n) /\ \A i \in 1 .. Len(s) - (m + n) : d[i] = s[m + n + i]
  BY <1>1, BehindElements
<1> HIDE DEF b, d
<1>4. n <= Len(b)
  BY <1>1, <1>2
<1>5. c \in Seq(S) /\ Len(c) = Len(b) - n /\ \A i \in 1 .. Len(b) - n : c[i] = b[n + i]
  BY <1>2, <1>4, BehindElements
<1> HIDE DEF c
<1> DEFINE k == Len(s) - (m + n)
<1>6. k \in Nat /\ Len(c) = k /\ Len(d) = k /\ Len(b) - n = k
  BY <1>1, <1>2, <1>3, <1>5
<1>7. ASSUME NEW i \in 1 .. k PROVE c[i] = d[i]
  <2>1. n + i \in 1 .. Len(s) - m /\ m + (n + i) = m + n + i /\ i \in 1 .. Len(b) - n
    BY <1>1, <1>6
  <2> QED
    BY <1>2, <1>3, <1>5, <2>1
<1> HIDE DEF k
<1>8. c = d
  BY <1>3, <1>5, <1>6, <1>7, SameElements
<1> QED
  BY <1>8 DEF b, c, d

(* Two sequences over the same elements, one after the other. *)
LEMMA ConcatParts ==
  ASSUME NEW S, NEW a \in Seq(S), NEW b \in Seq(S)
  PROVE  /\ \A i \in 1 .. Len(a) : (a \o b)[i] = a[i]
         /\ \A i \in 1 .. Len(b) : (a \o b)[Len(a) + i] = b[i]
<1> DEFINE T == S
<1>1. b \in Seq(T)
  OBVIOUS
<1> HIDE DEF T
<1> QED
  BY <1>1, ConcatElements

(* Four sequences put together from the back or from the front. *)
LEMMA FourTogether ==
  ASSUME NEW S, NEW a \in Seq(S), NEW b \in Seq(S), NEW c \in Seq(S), NEW d \in Seq(S)
  PROVE  a \o (b \o (c \o d)) = ((a \o b) \o c) \o d
<1>1. a \o b \in Seq(S) /\ c \o d \in Seq(S)
  OBVIOUS
<1>2. (a \o b) \o (c \o d) = a \o (b \o (c \o d))
  BY <1>1, ConcatAssociative, SMTT(60)
<1>3. ((a \o b) \o c) \o d = (a \o b) \o (c \o d)
  BY <1>1, ConcatAssociative, SMTT(60)
<1> QED
  BY <1>2, <1>3

(* What is put after a sequence that is cut stays after it. *)
LEMMA BehindConcat ==
  ASSUME NEW S, NEW a \in Seq(S), NEW b \in Seq(S), NEW n \in Nat, n <= Len(a)
  PROVE  Behind(a \o b, n) = Behind(a, n) \o b
<1> DEFINE c == a \o b
           x == SubSeq(a, 1, n)
           y == Behind(a, n)
           z == y \o b
<1>1. x \in Seq(S) /\ y \in Seq(S) /\ x \o y = a /\ Len(x) = n
  BY FirstElements, BehindElements, CutAndJoined
<1> HIDE DEF x, y
<1>2. z \in Seq(S) /\ Len(z) \in Nat
  BY <1>1
<1>3. c = x \o z
  <2>0. x \in Seq(S) /\ y \in Seq(S)
    BY <1>1
  <2>1. (x \o y) \o b = x \o (y \o b)
    BY <2>0, ConcatAssociative
  <2> QED
    BY <1>1, <2>1
<1> HIDE DEF z, c
<1>4. /\ x \o z \in Seq(S) /\ Len(x \o z) = Len(x) + Len(z)
      /\ \A i \in 1 .. Len(z) : (x \o z)[Len(x) + i] = z[i]
  <2>2. x \o z \in Seq(S) /\ Len(x \o z) = Len(x) + Len(z)
    BY <1>1, <1>2, ConcatProperties, Zenon
  <2>3. \A i \in 1 .. Len(z) : (x \o z)[Len(x) + i] = z[i]
    BY <1>1, <1>2, ConcatParts
  <2> QED
    BY <2>2, <2>3
<1>5. n <= Len(c) /\ c \in Seq(S) /\ Len(c) - n = Len(z)
  BY <1>1, <1>2, <1>3, <1>4
<1>6. Behind(c, n) \in Seq(S) /\ Len(Behind(c, n)) = Len(z)
      /\ \A i \in 1 .. Len(z) : Behind(c, n)[i] = c[n + i]
  BY <1>5, BehindElements, ZenonT(60)
<1>7. \A i \in 1 .. Len(z) : Behind(c, n)[i] = z[i]
  BY <1>1, <1>3, <1>4, <1>6
<1>8. Behind(c, n) = z
  BY <1>2, <1>6, <1>7, SameElements
<1> QED
  BY <1>8 DEF c, z, y

(* The first of two sequences loses its head. *)
LEMMA TailOfConcat ==
  ASSUME NEW S, NEW a \in Seq(S), NEW b \in Seq(S), a # <<>>
  PROVE  Tail(a \o b) = Tail(a) \o b
<1> DEFINE c == a \o b
<1>1. 1 \in Nat /\ 1 <= Len(a)
  OBVIOUS
<1>2. Behind(c, 1) = Behind(a, 1) \o b
  BY <1>1, BehindConcat
<1>3. c \in Seq(S) /\ Len(c) >= 1
  BY <1>1, ConcatProperties
<1> HIDE DEF c
<1>4. c # <<>>
  BY <1>3
<1>5. Tail(c) = Behind(c, 1) /\ Tail(a) = Behind(a, 1)
  BY <1>3, <1>4, TailIsSubSeq DEF Behind
<1> QED
  BY <1>2, <1>5 DEF c

(* When the same is cut in two ways, the shorter head is the start of the  *)
(* longer one, and the rest of that comes first behind it.                 *)
LEMMA CutTwice ==
  ASSUME NEW S, NEW a \in Seq(S), NEW b \in Seq(S), NEW c \in Seq(S), NEW d \in Seq(S),
         a \o b = c \o d, Len(c) <= Len(a)
  PROVE  SubSeq(a, 1, Len(c)) = c /\ Behind(a, Len(c)) \o b = d
<1> DEFINE n == Len(c)
           x == SubSeq(a, 1, n)
           y == Behind(a, n)
           z == y \o b
<1>1. n \in Nat /\ n <= Len(a)
  OBVIOUS
<1> HIDE DEF n
<1>2. x \in Seq(S) /\ Len(x) = n /\ y \in Seq(S) /\ x \o y = a
  BY <1>1, FirstElements, BehindElements, CutAndJoined
<1> HIDE DEF x, y
<1>3. z \in Seq(S)
  BY <1>2
<1>4. x \o z = c \o d
  <2>0. x \in Seq(S) /\ y \in Seq(S)
    BY <1>2
  <2>1. (x \o y) \o b = x \o (y \o b)
    BY <2>0, ConcatAssociative, SMTT(60)
  <2> QED
    BY <1>2, <2>1
<1> HIDE DEF z
<1>5. \A i \in 1 .. Len(x) : (x \o z)[i] = x[i]
  BY <1>2, <1>3, ConcatParts
<1>6. \A i \in 1 .. Len(c) : (c \o d)[i] = c[i]
  BY ConcatParts
<1>7. Len(c) = n
  BY DEF n
<1>8. \A i \in 1 .. n : x[i] = c[i]
  <2> SUFFICES ASSUME NEW i \in 1 .. n PROVE x[i] = c[i]
    OBVIOUS
  <2>1. (x \o z)[i] = x[i]
    BY <1>2, <1>5
  <2>2. (c \o d)[i] = c[i]
    BY <1>6, <1>7
  <2> QED
    BY <1>4, <2>1, <2>2, Zenon
<1>9. x = c
  <2>1. x \in Seq(S) /\ Len(x) = n
    BY <1>2
  <2> QED
    BY <1>1, <1>7, <1>8, <2>1, SameElements
<1>10. c \o z = c \o d
  BY <1>4, <1>9
<1>11. z = d
  BY <1>3, <1>10, ConcatSimplifications, Zenon
<1> QED
  BY <1>9, <1>11 DEF x, y, z, n

(* When the same is cut in two ways and nothing is missing of the shorter  *)
(* head, both begin alike; what is missing comes first behind the other.   *)
LEMMA HeadsAlike ==
  ASSUME NEW S, NEW a \in Seq(S), NEW b \in Seq(S), NEW c \in Seq(S), NEW d \in Seq(S),
         a \o b = c \o d
  PROVE  /\ \A i \in 1 .. Len(a) : i <= Len(c) => a[i] = c[i]
         /\ Len(a) < Len(c) => b # <<>> /\ b[1] = c[Len(a) + 1]
<1>0. ASSUME NEW x \in Seq(S), NEW y \in Seq(S)
      PROVE  /\ Len(x \o y) = Len(x) + Len(y)
             /\ \A i \in 1 .. Len(x) : (x \o y)[i] = x[i]
             /\ \A i \in 1 .. Len(y) : (x \o y)[Len(x) + i] = y[i]
  <2>1. Len(x \o y) = Len(x) + Len(y)
    BY ConcatProperties, Zenon
  <2> QED
    BY <2>1, ConcatParts
<1>1. /\ \A i \in 1 .. Len(a) : (a \o b)[i] = a[i]
      /\ \A i \in 1 .. Len(b) : (a \o b)[Len(a) + i] = b[i]
  BY <1>0, Zenon
<1>2. \A i \in 1 .. Len(c) : (c \o d)[i] = c[i]
  BY <1>0, Zenon
<1>3. Len(a \o b) = Len(a) + Len(b) /\ Len(c \o d) = Len(c) + Len(d)
  BY <1>0, Zenon
<1> DEFINE w == a \o b
           k == Len(a)
           l == Len(c)
<1>4. /\ k \in Nat /\ l \in Nat /\ Len(b) \in Nat /\ Len(d) \in Nat
      /\ Len(w) = k + Len(b) /\ Len(w) = l + Len(d)
      /\ \A i \in 1 .. k : w[i] = a[i]
      /\ \A i \in 1 .. Len(b) : w[k + i] = b[i]
      /\ \A i \in 1 .. l : w[i] = c[i]
  <2>1. Len(w) = l + Len(d) /\ \A i \in 1 .. l : w[i] = c[i]
    BY <1>2, <1>3, Zenon
  <2>2. /\ Len(w) = k + Len(b)
        /\ \A i \in 1 .. k : w[i] = a[i]
        /\ \A i \in 1 .. Len(b) : w[k + i] = b[i]
    BY <1>1, <1>3, Zenon
  <2>3. k \in Nat /\ l \in Nat /\ Len(b) \in Nat /\ Len(d) \in Nat
    OBVIOUS
  <2> HIDE DEF w, k, l
  <2> QED
    BY <2>1, <2>2, <2>3
<1> HIDE DEF w, k, l
<1>5. \A i \in 1 .. k : i <= l => a[i] = c[i]
  BY <1>4
<1>6. ASSUME k < l PROVE b # <<>> /\ b[1] = c[k + 1]
  <2>1. Len(b) > 0 /\ k + 1 \in 1 .. l /\ 1 \in 1 .. Len(b)
    BY <1>4, <1>6
  <2>2. w[k + 1] = b[1] /\ w[k + 1] = c[k + 1]
    BY <1>4, <2>1
  <2> QED
    BY <2>1, <2>2
<1> QED
  BY <1>5, <1>6 DEF k, l

(* FlattenSeq of one sequence. *)
LEMMA FlattenSeqOne ==
  ASSUME NEW S, NEW e \in Seq(S)
  PROVE  FlattenSeq(<<e>>) = e
<1> DEFINE none == <<>>
<1>1. none \in Seq(Seq(S)) /\ Append(none, e) = <<e>>
  OBVIOUS
<1> HIDE DEF none
<1>2. FlattenSeq(Append(none, e)) = FlattenSeq(none) \o e
  BY <1>1, FlattenSeqAppend
<1>3. <<>> \o e = e
  OBVIOUS
<1> QED
  BY <1>1, <1>2, <1>3, FlattenSeqEmpty DEF none

(* FlattenSeq of all sequences behind the first n begins with the next.    *)
LEMMA FlattenSeqBehind ==
  ASSUME NEW S, NEW seqs \in Seq(Seq(S)), NEW n \in Nat
  PROVE  /\ n <= Len(seqs) => FlattenSeq(Behind(seqs, n)) \in Seq(S)
         /\ n < Len(seqs) => /\ seqs[n + 1] \in Seq(S)
                             /\ FlattenSeq(Behind(seqs, n)) =
                                  seqs[n + 1] \o FlattenSeq(Behind(seqs, n + 1))
         /\ n = Len(seqs) => FlattenSeq(Behind(seqs, n)) = <<>>
<1> DEFINE T == Seq(S)
<1>1. seqs \in Seq(T) /\ Len(seqs) \in Nat
  OBVIOUS
<1>2. ASSUME n <= Len(seqs) PROVE FlattenSeq(Behind(seqs, n)) \in Seq(S)
  <2>1. Behind(seqs, n) \in Seq(T)
    <3> HIDE DEF T
    <3> QED
      BY <1>1, <1>2, BehindElements
  <2> QED
    BY <2>1, FlattenSeqType
<1>3. ASSUME n < Len(seqs)
      PROVE  /\ seqs[n + 1] \in Seq(S)
             /\ FlattenSeq(Behind(seqs, n)) = seqs[n + 1] \o FlattenSeq(Behind(seqs, n + 1))
  <2> DEFINE b == Behind(seqs, n)
             e == seqs[n + 1]
             x == <<e>>
             y == Behind(seqs, n + 1)
  <2>1. n + 1 \in Nat /\ n <= Len(seqs) /\ n + 1 <= Len(seqs) /\ e \in T
    BY <1>1, <1>3
  <2>2. /\ b \in Seq(T) /\ Len(b) = Len(seqs) - n /\ \A i \in 1 .. Len(seqs) - n : b[i] = seqs[n + i]
    <3> HIDE DEF T, e
    <3> QED
      BY <1>1, <2>1, BehindElements
  <2>3. /\ y \in Seq(T) /\ Len(y) = Len(seqs) - (n + 1)
        /\ \A i \in 1 .. Len(seqs) - (n + 1) : y[i] = seqs[(n + 1) + i]
    <3> HIDE DEF T, e
    <3> QED
      BY <1>1, <2>1, BehindElements
  <2> HIDE DEF T, b, y
  <2>4. x \in Seq(T) /\ Len(x) = 1 /\ x[1] = e
    BY <2>1
  <2> HIDE DEF x
  <2>5. Len(b) = Len(x) + Len(y)
    BY <1>1, <2>2, <2>3, <2>4
  <2>6. \A i \in 1 .. Len(x) : b[i] = x[i]
    BY <1>1, <2>1, <2>2, <2>4 DEF e
  <2>7. \A i \in 1 .. Len(y) : b[Len(x) + i] = y[i]
    <3> SUFFICES ASSUME NEW i \in 1 .. Len(y) PROVE b[1 + i] = y[i]
      BY <2>4
    <3>1. 1 + i \in 1 .. Len(seqs) - n /\ n + (1 + i) = (n + 1) + i
      BY <1>1, <2>3
    <3> QED
      BY <2>2, <2>3, <3>1
  <2>8. b = x \o y
    BY <2>2, <2>3, <2>4, <2>5, <2>6, <2>7, PutTogether
  <2>9. FlattenSeq(x \o y) = FlattenSeq(x) \o FlattenSeq(y)
    BY <2>3, <2>4, FlattenSeqConcat DEF T
  <2>10. FlattenSeq(x) = e
    BY <2>1, FlattenSeqOne DEF x, T
  <2> QED
    BY <2>1, <2>8, <2>9, <2>10 DEF b, y, e, T
<1>4. ASSUME n = Len(seqs) PROVE FlattenSeq(Behind(seqs, n)) = <<>>
  <2>1. Behind(seqs, n) = <<>>
    BY <1>1, <1>4 DEF Behind
  <2> QED
    BY <2>1, FlattenSeqEmpty
<1> QED
  BY <1>2, <1>3, <1>4

(* What FlattenSeq holds behind the first n sequences.                     *)
LEMMA FlattenSeqBehindHolds ==
  ASSUME NEW S, NEW seqs \in Seq(Seq(S)), NEW n \in Nat, n <= Len(seqs),
         NEW i \in 1 .. Len(FlattenSeq(Behind(seqs, n)))
  PROVE  \E k \in n + 1 .. Len(seqs) : FlattenSeq(Behind(seqs, n))[i] \in Range(seqs[k])
<1> DEFINE T == Seq(S)
           b == Behind(seqs, n)
<1>1. seqs \in Seq(T) /\ Len(seqs) \in Nat
  OBVIOUS
<1> HIDE DEF T
<1>2. b \in Seq(T) /\ Len(b) = Len(seqs) - n /\ \A k \in 1 .. Len(seqs) - n : b[k] = seqs[n + k]
  BY <1>1, BehindElements
<1> HIDE DEF b
<1>3. Range(FlattenSeq(b)) = UNION {Range(b[k]) : k \in 1 .. Len(b)} /\ FlattenSeq(b) \in Seq(S)
  BY <1>2, FlattenSeqRange, FlattenSeqType DEF T
<1>4. FlattenSeq(b)[i] \in Range(FlattenSeq(b))
  BY <1>3 DEF Range, b
<1>5. PICK k \in 1 .. Len(b) : FlattenSeq(b)[i] \in Range(b[k])
  BY <1>3, <1>4
<1>6. n + k \in n + 1 .. Len(seqs) /\ b[k] = seqs[n + k]
  <2>1. k \in 1 .. Len(seqs) - n
    BY <1>2
  <2>2. b[k] = seqs[n + k]
    BY <1>2, <2>1
  <2>3. n + k \in n + 1 .. Len(seqs)
    BY <1>1, <2>1
  <2> QED
    BY <2>2, <2>3
<1> QED
  BY <1>5, <1>6 DEF b

-----------------------------------------------------------------------------
(* The first n numbers.                                                    *)
UpTo(n) == [i \in 1 .. n |-> i]

(* They start with fewer of them.                                          *)
LEMMA UpToIsPrefix ==
  ASSUME NEW m \in Nat, NEW n \in Nat, m <= n
  PROVE  /\ UpTo(n) \in Seq(Nat) /\ Len(UpTo(n)) = n
         /\ IsPrefix(UpTo(m), UpTo(n))
         /\ m < n => IsStrictPrefix(UpTo(m), UpTo(n))
<1>1. /\ UpTo(m) \in Seq(Nat) /\ Len(UpTo(m)) = m /\ \A i \in 1 .. m : UpTo(m)[i] = i
      /\ UpTo(n) \in Seq(Nat) /\ Len(UpTo(n)) = n /\ \A i \in 1 .. n : UpTo(n)[i] = i
  BY DEF UpTo
<1> DEFINE s == SubSeq(UpTo(m), 1, m)
           t == SubSeq(UpTo(n), 1, m)
<1>2. s \in Seq(Nat) /\ Len(s) = m /\ \A i \in 1 .. m : s[i] = UpTo(m)[i]
  BY <1>1, FirstElements
<1>3. t \in Seq(Nat) /\ Len(t) = m /\ \A i \in 1 .. m : t[i] = UpTo(n)[i]
  BY <1>1, FirstElements
<1>4. \A i \in 1 .. m : s[i] = t[i]
  BY <1>1, <1>2, <1>3
<1> HIDE DEF s, t
<1>5. s = t
  BY <1>2, <1>3, <1>4, SameElements
<1> QED
  BY <1>1, <1>5 DEF IsPrefix, IsStrictPrefix, s, t
=============================================================================
