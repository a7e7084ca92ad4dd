-------------------------- MODULE IrcGrammarProofs --------------------------
(***************************************************************************)
(* For lines of any length, over any alphabets: what a client puts behind  *)
(* the colon of a command reaches the bridge as it was written, and the    *)
(* rules of the grammar read a line as splitting it at its spaces does.    *)
(***************************************************************************)
EXTENDS IrcGrammar, SequenceLemmas, FiniteSetTheorems

Chars == word \cup space \cup {"bad"}

TypeInv == alphabet \in Alphabets /\ line \in Seq(Chars)

-----------------------------------------------------------------------------
(* Repetition.                                                             *)

(* Where class* ends is the one place that is like the end of it.          *)
LEMMA StarEnds ==
  ASSUME NEW s, NEW S, s \in Seq(S), NEW class, NEW i \in Nat, NEW j \in i .. Len(s) + 1,
         \A k \in i .. j - 1 : s[k] \in class,
         j \in DOMAIN s => s[j] \notin class, i # 0
  PROVE  Star(s, i, class) = j
<1> DEFINE E(n) == /\ \A k \in i .. n - 1 : s[k] \in class
                   /\ n \in DOMAIN s => s[n] \notin class
           x == CHOOSE n \in i .. Len(s) + 1 : E(n)
<1>1. Len(s) \in Nat /\ DOMAIN s = 1 .. Len(s)
  OBVIOUS
<1>2. j \in i .. Len(s) + 1 /\ E(j)
  OBVIOUS
<1>3. x \in i .. Len(s) + 1 /\ E(x)
  BY <1>2
<1>4. Star(s, i, class) = x
  BY DEF Star
<1> HIDE DEF x
<1>5. ~ (x < j)
  <2> SUFFICES ASSUME x < j PROVE FALSE
    OBVIOUS
  <2>1. x \in i .. j - 1 /\ x \in DOMAIN s
    BY <1>1, <1>3
  <2> QED
    BY <1>3, <2>1
<1>6. ~ (j < x)
  <2> SUFFICES ASSUME j < x PROVE FALSE
    OBVIOUS
  <2>1. j \in i .. x - 1 /\ j \in DOMAIN s
    BY <1>1, <1>3
  <2> QED
    BY <1>3, <2>1
<1>7. x \in Int /\ j \in Int
  BY <1>1, <1>3
<1> QED
  BY <1>4, <1>5, <1>6, <1>7

(* class* ends somewhere. *)
LEMMA StarIs ==
  ASSUME NEW s, NEW S, s \in Seq(S), NEW class, NEW i \in 1 .. Len(s) + 1
  PROVE  /\ Star(s, i, class) \in i .. Len(s) + 1
         /\ \A k \in i .. Star(s, i, class) - 1 : s[k] \in class
         /\ Star(s, i, class) \in DOMAIN s => s[Star(s, i, class)] \notin class
<1>1. Len(s) \in Nat /\ DOMAIN s = 1 .. Len(s) /\ i \in Nat /\ i # 0
  OBVIOUS
<1> DEFINE Ends == {n \in i .. Len(s) + 1 : n \in DOMAIN s => s[n] \notin class}
<1>2. Ends \in SUBSET Nat
  BY <1>1
<1>3. Len(s) + 1 \in Ends
  BY <1>1
<1>4. PICK j \in Ends : \A n \in Ends : j <= n
  BY <1>2, <1>3, LeastNumber
<1>5. j \in i .. Len(s) + 1 /\ (j \in DOMAIN s => s[j] \notin class)
  OBVIOUS
<1>6. ASSUME NEW k \in i .. j - 1 PROVE s[k] \in class
  <2>1. k \in i .. Len(s) + 1 /\ ~ (j <= k) /\ k \in DOMAIN s
    BY <1>1, <1>5
  <2>2. k \notin Ends
    BY <1>4, <2>1
  <2> QED
    BY <2>1, <2>2
<1>7. Star(s, i, class) = j
  BY <1>1, <1>5, <1>6, StarEnds
<1> QED
  BY <1>5, <1>6, <1>7


-----------------------------------------------------------------------------
(* Parameters.                                                             *)

(* What the parameters from b on are, if f says it of the places behind b. *)
ParamsFrom(s, b, f) ==
  LET p == Star(s, b, space)
      e == Star(s, p, word)
  IN  IF p > b /\ At(s, p, nospcrlfcl)
      THEN [args |-> <<SubSeq(s, p, e - 1)>> \o f[e].args, next |-> f[e].next]
      ELSE [args |-> <<>>, next |-> b]

(* The recursion of params from position m on. *)
ParamsBehind(f, s, m) == f = [b \in m .. Len(s) + 1 |-> ParamsFrom(s, b, f)]

(* A parameter ends behind the spaces before it. *)
LEMMA ParamIsLater ==
  ASSUME NEW s, NEW S, s \in Seq(S), NEW b \in 1 .. Len(s) + 1,
         NEW p, p = Star(s, b, space), NEW e, e = Star(s, p, word), p > b, At(s, p, nospcrlfcl)
  PROVE  p \in b + 1 .. Len(s) /\ e \in b + 1 .. Len(s) + 1
<1>1. Len(s) \in Nat /\ DOMAIN s = 1 .. Len(s) /\ b \in Nat
  OBVIOUS
<1>2. p \in b .. Len(s) + 1
  BY StarIs
<1>3. p \in 1 .. Len(s) + 1
  BY <1>1, <1>2
<1>4. e \in p .. Len(s) + 1
  BY <1>3, StarIs
<1>5. p \in DOMAIN s
  BY DEF At
<1> QED
  BY <1>1, <1>2, <1>4, <1>5

(* The places behind b are all that counts. *)
LEMMA ParamsFromBehind ==
  ASSUME NEW s, NEW S, s \in Seq(S), NEW b \in 1 .. Len(s) + 1, NEW f, NEW g,
         \A e \in b + 1 .. Len(s) + 1 : f[e] = g[e]
  PROVE  ParamsFrom(s, b, f) = ParamsFrom(s, b, g)
<1> DEFINE p == Star(s, b, space)
           e == Star(s, p, word)
<1>1. ASSUME p > b, At(s, p, nospcrlfcl)
      PROVE  f[e] = g[e]
  <2>1. e \in b + 1 .. Len(s) + 1
    BY <1>1, ParamIsLater
  <2> QED
    BY <2>1
<1>2. CASE p > b /\ At(s, p, nospcrlfcl)
  BY <1>1, <1>2 DEF ParamsFrom
<1>3. CASE ~ (p > b /\ At(s, p, nospcrlfcl))
  BY <1>3 DEF ParamsFrom
<1> QED
  BY <1>2, <1>3

(* The recursion has a solution, for it has one from each place further to the front. *)
LEMMA ParamsExist ==
  ASSUME NEW s, NEW S, s \in Seq(S)
  PROVE  \E f : ParamsBehind(f, s, 1)
<1> DEFINE L == Len(s) + 1
           Good == {k \in Nat : k <= L => \E f : ParamsBehind(f, s, L + 1 - k)}
<1>1. L \in Nat /\ L >= 1 /\ L = Len(s) + 1
  OBVIOUS
<1> HIDE DEF L
<1>2. 0 \in Good
  <2>1. L + 1 - 0 .. L = {}
    BY <1>1
  <2> DEFINE f == [b \in {} |-> <<>>]
  <2>2. f = [b \in {} |-> ParamsFrom(s, b, f)]
    OBVIOUS
  <2> HIDE DEF f
  <2>3. ParamsBehind(f, s, L + 1 - 0)
    BY <1>1, <2>1, <2>2 DEF ParamsBehind
  <2> QED
    BY <2>3
<1>3. ASSUME NEW k \in Nat, k \in Good PROVE k + 1 \in Good
  <2> SUFFICES ASSUME k + 1 <= L PROVE \E f : ParamsBehind(f, s, L + 1 - (k + 1))
    BY <1>3
  <2> DEFINE m == L - k
  <2>1. /\ m \in Nat /\ m >= 1 /\ m <= L /\ L + 1 - k = m + 1 /\ L + 1 - (k + 1) = m /\ k <= L
    BY <1>1
  <2> HIDE DEF m
  <2>2. PICK f : ParamsBehind(f, s, m + 1)
    BY <1>3, <2>1
  <2>3. \A b \in m + 1 .. L : f[b] = ParamsFrom(s, b, f)
    BY <1>1, <2>2 DEF ParamsBehind
  <2> DEFINE g == [b \in m .. L |-> ParamsFrom(s, b, f)]
  <2>4. \A e \in m + 1 .. L : f[e] = g[e]
    BY <1>1, <2>1, <2>3
  <2>5. \A b \in m .. L : ParamsFrom(s, b, f) = ParamsFrom(s, b, g)
    <3> TAKE b \in m .. L
    <3>1. b \in 1 .. Len(s) + 1
      BY <1>1, <2>1
    <3>2. ASSUME NEW e \in b + 1 .. Len(s) + 1 PROVE f[e] = g[e]
      <4>1. b \in m .. L /\ e \in b + 1 .. L
        BY <1>1
      <4>2. e \in m + 1 .. L
        BY <1>1, <2>1, <4>1
      <4> QED
        BY <2>4, <4>2
    <3> HIDE DEF g
    <3> QED
      BY <3>1, <3>2, ParamsFromBehind
  <2>6. g = [b \in m .. L |-> ParamsFrom(s, b, g)]
    BY <2>5
  <2> HIDE DEF g
  <2>7. ParamsBehind(g, s, m)
    BY <1>1, <2>6 DEF ParamsBehind
  <2> QED
    BY <2>1, <2>7
<1> HIDE DEF Good
<1>4. Nat \subseteq Good
  BY <1>2, <1>3, FromZeroOn
<1>5. L \in Good /\ L <= L /\ L + 1 - L = 1
  BY <1>1, <1>4
<1> QED
  BY <1>5 DEF Good

(* The parameters from a place on are found by the recursion.              *)
LEMMA ParamsRecur ==
  ASSUME NEW s, NEW S, s \in Seq(S)
  PROVE  \E f : /\ \A i \in 1 .. Len(s) + 1 : params(s, i) = f[i]
                /\ ParamsBehind(f, s, 1)
<1> DEFINE f == CHOOSE f : f = [b \in 1 .. Len(s) + 1 |->
                  LET p == Star(s, b, space)
                      e == Star(s, p, word)
                  IN  IF p > b /\ At(s, p, nospcrlfcl)
                      THEN [args |-> <<SubSeq(s, p, e - 1)>> \o f[e].args, next |-> f[e].next]
                      ELSE [args |-> <<>>, next |-> b]]
<1>1. \A i : params(s, i) = f[i]
  BY DEF params
<1>2. \E g : g = [b \in 1 .. Len(s) + 1 |->
                  LET p == Star(s, b, space)
                      e == Star(s, p, word)
                  IN  IF p > b /\ At(s, p, nospcrlfcl)
                      THEN [args |-> <<SubSeq(s, p, e - 1)>> \o g[e].args, next |-> g[e].next]
                      ELSE [args |-> <<>>, next |-> b]]
  BY ParamsExist DEF ParamsBehind, ParamsFrom
<1>3. f = [b \in 1 .. Len(s) + 1 |->
                  LET p == Star(s, b, space)
                      e == Star(s, p, word)
                  IN  IF p > b /\ At(s, p, nospcrlfcl)
                      THEN [args |-> <<SubSeq(s, p, e - 1)>> \o f[e].args, next |-> f[e].next]
                      ELSE [args |-> <<>>, next |-> b]]
  BY <1>2
<1> HIDE DEF f
<1>4. ParamsBehind(f, s, 1)
  BY <1>3 DEF ParamsBehind, ParamsFrom
<1> QED
  BY <1>1, <1>4

(* From b on there is a parameter from p to before e.                      *)
Takes(s, b, p, e) ==
  p = Star(s, b, space) /\ e = Star(s, p, word) /\ p > b /\ At(s, p, nospcrlfcl)

LEMMA ParamTaken ==
  ASSUME NEW S, NEW s \in Seq(S), NEW b \in 1 .. Len(s) + 1, NEW p, NEW e, Takes(s, b, p, e)
  PROVE  params(s, b) = [args |-> <<SubSeq(s, p, e - 1)>> \o params(s, e).args,
                         next |-> params(s, e).next]
<1>1. PICK f : /\ \A i \in 1 .. Len(s) + 1 : params(s, i) = f[i]
               /\ ParamsBehind(f, s, 1)
  BY ParamsRecur
<1>2. e \in 1 .. Len(s) + 1
  <2>1. e \in b + 1 .. Len(s) + 1
    BY ParamIsLater DEF Takes
  <2> QED
    BY <2>1
<1>3. f[b] = ParamsFrom(s, b, f)
  BY <1>1 DEF ParamsBehind
<1>4. ParamsFrom(s, b, f) = [args |-> <<SubSeq(s, p, e - 1)>> \o f[e].args, next |-> f[e].next]
  BY Zenon DEF ParamsFrom, Takes
<1>5. params(s, b) = f[b] /\ params(s, e) = f[e]
  BY <1>1, <1>2
<1> QED
  BY <1>3, <1>4, <1>5, Zenon

LEMMA NoneTaken ==
  ASSUME NEW S, NEW s \in Seq(S), NEW b \in 1 .. Len(s) + 1,
         ~ (Star(s, b, space) > b /\ At(s, Star(s, b, space), nospcrlfcl))
  PROVE  params(s, b) = [args |-> <<>>, next |-> b]
<1>1. PICK f : /\ \A i \in 1 .. Len(s) + 1 : params(s, i) = f[i]
               /\ ParamsBehind(f, s, 1)
  BY ParamsRecur
<1>2. f[b] = ParamsFrom(s, b, f)
  BY <1>1 DEF ParamsBehind
<1>3. ParamsFrom(s, b, f) = [args |-> <<>>, next |-> b]
  BY Zenon DEF ParamsFrom
<1> QED
  BY <1>1, <1>2, <1>3, Zenon

-----------------------------------------------------------------------------
(* A command as a client writes it: words, a space behind each, a colon.   *)

(* A word and the space behind it. *)
Pair(w) == <<w, " ">>

Pairs(words) == [i \in DOMAIN words |-> Pair(words[i])]

Opening(words) == FlattenSeq(Pairs(words)) \o <<":">>

(* What the characters are to the rules. *)
LEMMA Classes ==
  /\ word \subseteq Chars /\ space \subseteq Chars /\ nospcrlfcl \subseteq word
  /\ Named \subseteq upper /\ upper \subseteq nospcrlfcl
  /\ \A c \in space : c \notin word
  /\ ":" \in word /\ ":" \notin nospcrlfcl
<1>1. " " \notin word
  BY DEF word, nospcrlfcl, upper, digit, Named
<1>2. \A c \in space : c \notin word
  BY <1>1, Zenon DEF space
<1>3. ":" \in word /\ ":" \notin nospcrlfcl
  BY DEF word, nospcrlfcl, upper, digit, Named
<1>4. Named \subseteq upper /\ upper \subseteq nospcrlfcl /\ nospcrlfcl \subseteq word
  BY DEF word, nospcrlfcl, upper
<1>5. word \subseteq Chars /\ space \subseteq Chars
  BY DEF Chars
<1> QED
  BY <1>2, <1>3, <1>4, <1>5

LEMMA PairIs ==
  ASSUME NEW w \in word
  PROVE  Pair(w) \in Seq(Chars) /\ Len(Pair(w)) = 2 /\ Pair(w)[1] = w /\ Pair(w)[2] \in space
<1> DEFINE sp == " "
<1>1. sp \in space
  BY Zenon DEF space
<1>2. Pair(w) = <<w, sp>>
  BY DEF Pair
<1> HIDE DEF sp
<1>3. w \in Chars /\ sp \in Chars
  BY <1>1, Classes
<1> QED
  BY <1>1, <1>2, <1>3

(* The words stand at the odd places, spaces at the even ones.             *)
Spaced(s, words) ==
  /\ s \in Seq(Chars) /\ Len(s) = 2 * Len(words)
  /\ \A i \in 1 .. Len(words) : s[2 * i - 1] = words[i] /\ s[2 * i] \in space

LEMMA OneBehind ==
  ASSUME NEW a \in Seq(Chars), NEW b \in Seq(Chars), Len(b) >= 1
  PROVE  (a \o b)[Len(a) + 1] = b[1]
<1>1. \A i \in 1 .. Len(b) : (a \o b)[Len(a) + i] = b[i]
  BY ConcatParts
<1>2. 1 \in 1 .. Len(b)
  OBVIOUS
<1> QED
  BY <1>1, <1>2

LEMMA TwoBehind ==
  ASSUME NEW a \in Seq(Chars), NEW b \in Seq(Chars), Len(b) >= 2
  PROVE  (a \o b)[Len(a) + 1] = b[1] /\ (a \o b)[Len(a) + 2] = b[2]
<1>1. \A i \in 1 .. Len(b) : (a \o b)[Len(a) + i] = b[i]
  BY ConcatParts
<1>2. 1 \in 1 .. Len(b) /\ 2 \in 1 .. Len(b)
  OBVIOUS
<1> QED
  BY <1>1, <1>2

LEMMA PairsAreSpaced ==
  ASSUME NEW words \in Seq(word)
  PROVE  Spaced(FlattenSeq(Pairs(words)), words)
<1> DEFINE Good == {n \in Nat : \A ws \in Seq(word) :
                      Len(ws) = n => Spaced(FlattenSeq(Pairs(ws)), ws)}
<1>1. 0 \in Good
  <2> SUFFICES ASSUME NEW ws \in Seq(word), Len(ws) = 0
               PROVE  Spaced(FlattenSeq(Pairs(ws)), ws)
    OBVIOUS
  <2>1. ws = <<>>
    BY EmptySeq
  <2>2. Pairs(ws) = <<>>
    BY <2>1 DEF Pairs
  <2>3. FlattenSeq(Pairs(ws)) = <<>>
    BY <2>2, FlattenSeqEmpty
  <2> DEFINE s == FlattenSeq(Pairs(ws))
  <2>4. s \in Seq(Chars) /\ Len(s) = 0
    BY <2>3
  <2>5. 1 .. Len(ws) = {} /\ 2 * Len(ws) = 0
    OBVIOUS
  <2> HIDE DEF s
  <2>6. Spaced(s, ws)
    BY <2>4, <2>5, Zenon DEF Spaced
  <2> QED
    BY <2>6 DEF s
<1>2. ASSUME NEW n \in Nat, n \in Good PROVE n + 1 \in Good
  <2> SUFFICES ASSUME NEW ws \in Seq(word), Len(ws) = n + 1
               PROVE  Spaced(FlattenSeq(Pairs(ws)), ws)
    BY <1>2
  <2> DEFINE vs == SubSeq(ws, 1, n)
             w == ws[n + 1]
             a == FlattenSeq(Pairs(vs))
             b == Pair(w)
             s == FlattenSeq(Pairs(ws))
  <2>1. vs \in Seq(word) /\ w \in word /\ Len(vs) = n /\ \A i \in 1 .. n : vs[i] = ws[i]
    BY FirstElements
  <2>2. Spaced(a, vs)
    BY <1>2, <2>1
  <2>3. b \in Seq(Chars) /\ Len(b) = 2 /\ b[1] = w /\ b[2] \in space
    BY <2>1, PairIs
  <2>4. Pairs(vs) \in Seq(Seq(Chars))
    <3>1. \A i \in 1 .. n : Pair(vs[i]) \in Seq(Chars)
      BY <2>1, PairIs
    <3>2. DOMAIN vs = 1 .. n
      BY <2>1
    <3> QED
      BY <3>1, <3>2 DEF Pairs
  <2>5. Pairs(ws) = Append(Pairs(vs), b)
    <3>1. DOMAIN ws = 1 .. n + 1 /\ DOMAIN vs = 1 .. n
      BY <2>1
    <3>2. Len(Pairs(vs)) = n /\ \A i \in 1 .. n : Pairs(vs)[i] = Pair(ws[i])
      BY <2>1, <3>1 DEF Pairs
    <3>3. DOMAIN Pairs(ws) = 1 .. n + 1 /\ \A i \in 1 .. n + 1 : Pairs(ws)[i] = Pair(ws[i])
      BY <3>1 DEF Pairs
    <3>4. Pairs(ws) = [i \in 1 .. n + 1 |-> Pair(ws[i])]
      BY <3>1 DEF Pairs
    <3> HIDE DEF vs, b
    <3> DEFINE y == Pairs(vs)
               x == Append(y, b)
    <3>9. y \in Seq(Seq(Chars)) /\ b \in Seq(Chars) /\ Len(y) = n
      BY <2>3, <2>4, <3>2
    <3> HIDE DEF y
    <3>5. /\ x = [i \in 1 .. n + 1 |-> x[i]] /\ \A i \in 1 .. n : x[i] = y[i]
          /\ x[n + 1] = b
      <4>1. x \in Seq(Seq(Chars)) /\ Len(x) = Len(y) + 1
        BY <3>9, AppendProperties
      <4>3. \A i \in 1 .. n : x[i] = y[i]
        BY <3>9, AppendProperties
      <4>4. x[Len(y) + 1] = b
        BY <3>9, AppendProperties
      <4> HIDE DEF x
      <4>2. DOMAIN x = 1 .. n + 1 /\ x = [i \in DOMAIN x |-> x[i]]
        BY <3>9, <4>1
      <4> QED
        BY <3>9, <4>2, <4>3, <4>4
    <3>6. \A i \in 1 .. n : x[i] = Pairs(vs)[i]
      BY <3>5 DEF y
    <3>7. \A i \in 1 .. n + 1 : x[i] = Pair(ws[i])
      <4>1. ASSUME NEW i \in 1 .. n + 1, i # n + 1 PROVE x[i] = Pair(ws[i])
        <5>1. i \in 1 .. n
          BY <4>1
        <5> QED
          BY <3>2, <3>6, <5>1
      <4> QED
        BY <3>5, <4>1 DEF b
    <3> HIDE DEF x
    <3>8. [i \in 1 .. n + 1 |-> x[i]] = [i \in 1 .. n + 1 |-> Pair(ws[i])]
      BY <3>7, Zenon
    <3> QED
      BY <3>4, <3>5, <3>8 DEF x, y
  <2>6. s = a \o b
    BY <2>3, <2>4, <2>5, FlattenSeqAppend
  <2> HIDE DEF vs, w, a, b, s
  <2>7. /\ a \in Seq(Chars) /\ Len(a) = 2 * n
        /\ \A i \in 1 .. n : a[2 * i - 1] = vs[i] /\ a[2 * i] \in space
    BY <2>1, <2>2, Zenon DEF Spaced
  <2>8. s \in Seq(Chars) /\ Len(s) = 2 * n + 2 /\ \A i \in 1 .. Len(a) : s[i] = a[i]
    <3>1. Len(s) = Len(a) + Len(b) /\ s \in Seq(Chars)
      BY <2>3, <2>6, <2>7, ConcatProperties
    <3>2. \A i \in 1 .. Len(a) : s[i] = a[i]
      BY <2>3, <2>6, <2>7, ConcatParts
    <3> QED
      BY <2>3, <2>7, <3>1, <3>2
  <2>9. s[2 * n + 1] = b[1] /\ s[2 * n + 2] = b[2]
    <3>1. (a \o b)[Len(a) + 1] = b[1] /\ (a \o b)[Len(a) + 2] = b[2]
      <4>1. a \in Seq(Chars) /\ b \in Seq(Chars) /\ Len(b) >= 2
        BY <2>3, <2>7
      <4> QED
        BY <4>1, TwoBehind
    <3> QED
      BY <2>6, <2>7, <3>1, Zenon
  <2>10. ASSUME NEW i \in 1 .. n + 1 PROVE s[2 * i - 1] = ws[i] /\ s[2 * i] \in space
    <3>1. CASE i = n + 1
      <4>1. 2 * i - 1 = 2 * n + 1 /\ 2 * i = 2 * n + 2
        BY <3>1
      <4> QED
        BY <2>3, <2>9, <3>1, <4>1 DEF w
    <3>2. CASE i \in 1 .. n
      <4>1. 2 * i - 1 \in 1 .. Len(a) /\ 2 * i \in 1 .. Len(a)
        BY <2>7, <3>2
      <4> QED
        BY <2>1, <2>7, <2>8, <3>2, <4>1
    <3> QED
      BY <3>1, <3>2
  <2> QED
    BY <2>8, <2>10 DEF Spaced, s
<1> HIDE DEF Good
<1>3. Nat \subseteq Good
  BY <1>1, <1>2, FromZeroOn
<1>4. Len(words) \in Good
  BY <1>3
<1> QED
  BY <1>4 DEF Good

(* A line of those words and, behind a colon, the text.                    *)
IsSent(s, words, text) ==
  /\ s \in Seq(Chars) /\ Len(s) = 2 * Len(words) + 1 + Len(text)
  /\ \A i \in 1 .. Len(words) : s[2 * i - 1] = words[i] /\ s[2 * i] \in space
  /\ s[2 * Len(words) + 1] = ":"
  /\ \A k \in 1 .. Len(text) : s[2 * Len(words) + 1 + k] = text[k]
  /\ SubSeq(s, 2 * Len(words) + 2, Len(s)) = text

LEMMA SentIs ==
  ASSUME NEW words \in Seq(word), NEW text \in Seq(Chars)
  PROVE  IsSent(Opening(words) \o text, words, text)
<1> DEFINE a == FlattenSeq(Pairs(words))
           colon == <<":">>
           o == a \o colon
           s == o \o text
           n == Len(words)
<1>1. Spaced(a, words) /\ n \in Nat
  BY PairsAreSpaced
<1>2. colon \in Seq(Chars) /\ Len(colon) = 1 /\ colon[1] = ":"
  <2>1. ":" \in Chars
    BY Classes
  <2> QED
    BY <2>1
<1>3. o = Opening(words)
  BY DEF Opening
<1> HIDE DEF a, colon
<1>4. a \in Seq(Chars) /\ Len(a) = 2 * n
  BY <1>1, Zenon DEF Spaced
<1>5. \A i \in 1 .. n : a[2 * i - 1] = words[i] /\ a[2 * i] \in space
  BY <1>1, Zenon DEF Spaced
<1>6. /\ o \in Seq(Chars) /\ Len(o) = 2 * n + 1 /\ o[2 * n + 1] = ":"
      /\ \A i \in 1 .. 2 * n : o[i] = a[i]
  <2>1. o \in Seq(Chars) /\ Len(o) = Len(a) + Len(colon)
    BY <1>2, <1>4, ConcatProperties
  <2>2. a \in Seq(Chars) /\ colon \in Seq(Chars) /\ Len(colon) >= 1
    BY <1>2, <1>4
  <2>3. o[Len(a) + 1] = colon[1]
    BY <2>2, OneBehind
  <2>4. \A i \in 1 .. Len(a) : o[i] = a[i]
    BY <2>2, ConcatParts
  <2> QED
    BY <1>2, <1>4, <2>1, <2>3, <2>4, Zenon
<1> HIDE DEF o
<1>7. /\ s \in Seq(Chars) /\ Len(s) = Len(o) + Len(text)
      /\ \A i \in 1 .. Len(o) : s[i] = o[i]
      /\ \A k \in 1 .. Len(text) : s[Len(o) + k] = text[k]
  <2>1. o \in Seq(Chars)
    BY <1>6
  <2>2. s \in Seq(Chars) /\ Len(s) = Len(o) + Len(text)
    BY <2>1, ConcatProperties
  <2>3. /\ \A i \in 1 .. Len(o) : s[i] = o[i]
        /\ \A k \in 1 .. Len(text) : s[Len(o) + k] = text[k]
    BY <2>1, ConcatParts
  <2> QED
    BY <2>2, <2>3
<1>8. SubSeq(s, Len(o) + 1, Len(s)) = text
  <2>1. o \in Seq(Chars) /\ Len(o) \in Nat /\ Len(o) <= Len(o)
    BY <1>6
  <2>2. Behind(s, Len(o)) = Behind(o, Len(o)) \o text
    BY <2>1, BehindConcat
  <2>3. Behind(o, Len(o)) = <<>>
    <3>1. Behind(o, Len(o)) \in Seq(Chars) /\ Len(Behind(o, Len(o))) = Len(o) - Len(o)
      BY <2>1, BehindElements, Zenon
    <3>2. Len(o) - Len(o) = 0
      BY <2>1
    <3> QED
      BY <3>1, <3>2, EmptySeq
  <2>4. <<>> \o text = text
    OBVIOUS
  <2>5. Behind(s, Len(o)) = text
    BY <2>2, <2>3, <2>4
  <2> QED
    BY <2>5 DEF Behind
<1> HIDE DEF s
<1>9. /\ Len(s) = 2 * n + 1 + Len(text) /\ SubSeq(s, 2 * n + 1 + 1, Len(s)) = text
      /\ \A i \in 1 .. 2 * n + 1 : s[i] = o[i]
      /\ \A k \in 1 .. Len(text) : s[2 * n + 1 + k] = text[k]
  BY <1>6, <1>7, <1>8, Zenon
<1>10. 2 * n + 1 + 1 = 2 * n + 2 /\ 2 * n + 1 \in 1 .. 2 * n + 1
  BY <1>1
<1>11. s[2 * n + 1] = ":"
  BY <1>6, <1>9, <1>10
<1>12. ASSUME NEW i \in 1 .. n PROVE s[2 * i - 1] = words[i] /\ s[2 * i] \in space
  <2>1. /\ 2 * i - 1 \in 1 .. 2 * n /\ 2 * i \in 1 .. 2 * n
        /\ 2 * i - 1 \in 1 .. 2 * n + 1 /\ 2 * i \in 1 .. 2 * n + 1
    BY <1>1
  <2>2. s[2 * i - 1] = o[2 * i - 1] /\ s[2 * i] = o[2 * i]
    BY <1>9, <2>1
  <2>3. o[2 * i - 1] = a[2 * i - 1] /\ o[2 * i] = a[2 * i]
    BY <1>6, <2>1
  <2> QED
    BY <1>5, <2>2, <2>3, Zenon
<1>13. IsSent(s, words, text)
  BY <1>7, <1>9, <1>10, <1>11, <1>12, Zenon DEF IsSent
<1> QED
  BY <1>3, <1>13 DEF s

-----------------------------------------------------------------------------
(* Such a line, read.                                                      *)

LEMMA OneElement ==
  ASSUME NEW S, NEW s \in Seq(S), NEW n \in DOMAIN s
  PROVE  SubSeq(s, n, n) = <<s[n]>>
<1>1. n \in 1 .. Len(s) /\ Len(s) \in Nat
  OBVIOUS
<1>2. SubSeq(s, n, n) = [i \in 1 .. 1 |-> s[n + i - 1]]
  BY <1>1
<1>3. n + 1 - 1 = n
  BY <1>1
<1> QED
  BY <1>2, <1>3

(* A parameter of one character is taken, and the reading goes on behind it. *)
LEMMA OneParam ==
  ASSUME NEW s \in Seq(Chars), NEW b \in Nat, b >= 1, b + 2 <= Len(s),
         s[b] \in space, s[b + 1] \in nospcrlfcl, s[b + 2] \in space
  PROVE  params(s, b) = [args |-> <<<<s[b + 1]>>>> \o params(s, b + 2).args,
                         next |-> params(s, b + 2).next]
<1> DEFINE p == b + 1
           e == b + 2
<1>1. /\ Len(s) \in Nat /\ DOMAIN s = 1 .. Len(s) /\ p \in Nat /\ e \in Nat
      /\ p # 0 /\ b # 0 /\ p \in b .. Len(s) + 1 /\ e \in p .. Len(s) + 1
      /\ p \in DOMAIN s /\ e \in DOMAIN s /\ p > b
      /\ b .. p - 1 = {b} /\ p .. e - 1 = {p} /\ e - 1 = p
  OBVIOUS
<1>2. b \in 1 .. Len(s) + 1 /\ e \in 1 .. Len(s) + 1
  OBVIOUS
<1>4. /\ s[b] \in space /\ s[e] \notin word
      /\ s[p] \in nospcrlfcl /\ s[p] \in word /\ s[p] \notin space
  BY Classes
<1> HIDE DEF p, e
<1>5. Star(s, b, space) = p
  BY <1>1, <1>4, StarEnds
<1>6. Star(s, p, word) = e
  BY <1>1, <1>4, StarEnds
<1>7. At(s, p, nospcrlfcl)
  BY <1>1, <1>4 DEF At
<1>8. Takes(s, b, p, e)
  BY <1>1, <1>5, <1>6, <1>7, Zenon DEF Takes
<1>9. params(s, b) = [args |-> <<SubSeq(s, p, e - 1)>> \o params(s, e).args,
                      next |-> params(s, e).next]
  <2> DEFINE S == Chars
  <2>1. s \in Seq(S)
    OBVIOUS
  <2> HIDE DEF S
  <2>2. b \in 1 .. Len(s) + 1
    BY <1>2
  <2> QED
    BY <1>8, <2>1, <2>2, ParamTaken
<1>10. SubSeq(s, p, p) = <<s[p]>>
  BY <1>1, OneElement
<1>12. params(s, b) = [args |-> <<<<s[p]>>>> \o params(s, e).args, next |-> params(s, e).next]
  BY <1>1, <1>9, <1>10, Zenon
<1> QED
  BY <1>12 DEF p, e

(* None is taken from a colon on. *)
LEMMA NoParam ==
  ASSUME NEW s \in Seq(Chars), NEW b \in Nat, b >= 1, b + 1 <= Len(s),
         s[b] \in space, s[b + 1] = ":"
  PROVE  params(s, b) = [args |-> <<>>, next |-> b] /\ Star(s, b, space) = b + 1
<1> DEFINE p == b + 1
<1>1. /\ Len(s) \in Nat /\ DOMAIN s = 1 .. Len(s) /\ p \in Nat
      /\ p # 0 /\ b # 0 /\ p \in b .. Len(s) + 1 /\ p \in DOMAIN s /\ b .. p - 1 = {b}
  OBVIOUS
<1>2. b \in 1 .. Len(s) + 1
  OBVIOUS
<1>4. s[b] \in space /\ s[p] \notin nospcrlfcl /\ s[p] \notin space
  BY Classes
<1> HIDE DEF p
<1>5. Star(s, b, space) = p
  BY <1>1, <1>4, StarEnds
<1>6. ~ At(s, p, nospcrlfcl)
  BY <1>4 DEF At
<1>7. params(s, b) = [args |-> <<>>, next |-> b]
  BY <1>2, <1>5, <1>6, NoneTaken
<1> QED
  BY <1>5, <1>7 DEF p

(* The words behind the first i, each an argument. *)
ArgsFrom(words, i) == [k \in 1 .. Len(words) - i |-> <<words[i + k]>>]

LEMMA ArgsFromIs ==
  ASSUME NEW words \in Seq(word), NEW i \in Nat, i <= Len(words)
  PROVE  ArgsFrom(words, i) \in Seq(Seq(Chars)) /\ Len(ArgsFrom(words, i)) = Len(words) - i
<1>1. Len(words) - i \in Nat /\ DOMAIN words = 1 .. Len(words)
  OBVIOUS
<1>2. ASSUME NEW k \in 1 .. Len(words) - i PROVE <<words[i + k]>> \in Seq(Chars)
  <2>1. i + k \in 1 .. Len(words)
    BY <1>1
  <2>2. words[i + k] \in Chars
    BY <2>1, Classes
  <2> QED
    BY <2>2
<1> QED
  BY <1>1, <1>2 DEF ArgsFrom

LEMMA ArgsFromNext ==
  ASSUME NEW words \in Seq(word), NEW i \in Nat, i < Len(words)
  PROVE  <<<<words[i + 1]>>>> \o ArgsFrom(words, i + 1) = ArgsFrom(words, i)
<1> DEFINE q == i + 1
           m == Len(words) - q
           a == <<<<words[q]>>>>
           b == ArgsFrom(words, q)
           c == a \o b
<1>1. /\ q \in Nat /\ m \in Nat /\ Len(words) - i = m + 1 /\ q = i + 1 /\ q <= Len(words)
      /\ q \in 1 .. Len(words)
  OBVIOUS
<1>2. <<words[q]>> \in Seq(Chars)
  BY <1>1, Classes
<1>3. a \in Seq(Seq(Chars)) /\ Len(a) = 1 /\ a[1] = <<words[q]>>
  BY <1>2
<1>4. b \in Seq(Seq(Chars)) /\ Len(b) = m
  BY <1>1, ArgsFromIs
<1>5. \A k \in 1 .. m : b[k] = <<words[q + k]>>
  BY <1>1 DEF ArgsFrom
<1> HIDE DEF a, b, q
<1>6. c \in Seq(Seq(Chars)) /\ Len(c) = Len(a) + Len(b)
  BY <1>3, <1>4, ConcatProperties
<1>7. /\ \A k \in 1 .. Len(a) : c[k] = a[k]
      /\ \A k \in 1 .. Len(b) : c[Len(a) + k] = b[k]
  <2>1. a \in Seq(Seq(Chars)) /\ b \in Seq(Seq(Chars))
    BY <1>3, <1>4
  <2> QED
    BY <2>1, ConcatParts
<1> HIDE DEF c, m
<1>8. Len(c) = m + 1 /\ DOMAIN c = 1 .. m + 1 /\ c = [k \in DOMAIN c |-> c[k]]
  BY <1>1, <1>3, <1>4, <1>6
<1>9. ASSUME NEW k \in 1 .. m + 1 PROVE c[k] = <<words[i + k]>>
  <2>1. CASE k = 1
    <3>1. 1 \in 1 .. Len(a)
      BY <1>3
    <3> QED
      BY <1>1, <1>3, <1>7, <2>1, <3>1
  <2>2. CASE k # 1
    <3> DEFINE l == k - 1
    <3>1. l \in 1 .. m /\ 1 + l = k /\ q + l = i + k
      BY <1>1, <2>2
    <3> HIDE DEF l
    <3>2. c[1 + l] = b[l]
      BY <1>3, <1>4, <1>7, <3>1
    <3> QED
      BY <1>5, <3>1, <3>2
  <2> QED
    BY <2>1, <2>2
<1>10. c = [k \in 1 .. m + 1 |-> <<words[i + k]>>]
  BY <1>8, <1>9
<1>11. ArgsFrom(words, i) = [k \in 1 .. m + 1 |-> <<words[i + k]>>]
  BY <1>1 DEF ArgsFrom
<1>12. c = <<<<words[i + 1]>>>> \o ArgsFrom(words, i + 1)
  BY DEF c, a, b, q
<1> QED
  BY <1>10, <1>11, <1>12

(* Behind a word, the words that follow are the parameters. *)
LEMMA SentParams ==
  ASSUME NEW words \in Seq(nospcrlfcl), NEW text \in Seq(Chars), NEW s, IsSent(s, words, text),
         NEW n, n = Len(words), NEW i \in 1 .. n
  PROVE  params(s, 2 * i) = [args |-> ArgsFrom(words, i), next |-> 2 * n]
<1> DEFINE Good == {k \in Nat : k < n =>
                      params(s, 2 * (n - k)) = [args |-> ArgsFrom(words, n - k), next |-> 2 * n]}
<1>1. n \in Nat /\ n >= 1 /\ words \in Seq(word)
  BY Classes
<1>2. s \in Seq(Chars) /\ Len(s) = 2 * n + 1 + Len(text) /\ s[2 * n + 1] = ":"
  BY Zenon DEF IsSent
<1>3. \A j \in 1 .. n : s[2 * j - 1] = words[j] /\ s[2 * j] \in space
  BY Zenon DEF IsSent
<1>4. Len(s) \in Nat /\ Len(s) >= 2 * n + 1
  BY <1>1, <1>2
<1>5. 0 \in Good
  <2> DEFINE b == 2 * n
  <2>1. n \in 1 .. n /\ b \in Nat /\ b >= 1 /\ b + 1 <= Len(s) /\ n - 0 = n
    BY <1>1, <1>4
  <2>2. s[b] \in space /\ s[b + 1] = ":"
    BY <1>2, <1>3, <2>1
  <2> HIDE DEF b
  <2>3. params(s, b) = [args |-> <<>>, next |-> b]
    BY <1>2, <2>1, <2>2, NoParam
  <2>4. Len(words) - n = 0 /\ 1 .. 0 = {}
    BY <1>1
  <2>5. ArgsFrom(words, n) = <<>>
    BY <2>4 DEF ArgsFrom
  <2>6. params(s, 2 * (n - 0)) = [args |-> ArgsFrom(words, n - 0), next |-> 2 * n]
    BY <2>1, <2>3, <2>5, Zenon DEF b
  <2> QED
    BY <2>6
<1>6. ASSUME NEW k \in Nat, k \in Good PROVE k + 1 \in Good
  <2> SUFFICES ASSUME k + 1 < n
               PROVE  params(s, 2 * (n - (k + 1))) =
                        [args |-> ArgsFrom(words, n - (k + 1)), next |-> 2 * n]
    BY <1>6
  <2> DEFINE j == n - (k + 1)
             q == j + 1
             b == 2 * j
  <2>1. /\ j \in 1 .. n /\ q \in 1 .. n /\ j \in Nat /\ n - k = q /\ k < n
        /\ b \in Nat /\ b >= 1 /\ b + 2 <= Len(s) /\ 2 * q = b + 2 /\ 2 * q - 1 = b + 1
        /\ j < n
    BY <1>1, <1>4
  <2>2. params(s, 2 * q) = [args |-> ArgsFrom(words, q), next |-> 2 * n]
    BY <1>6, <2>1
  <2>3. s[b] \in space
    BY <1>3, <2>1
  <2>4. s[b + 1] = words[q] /\ s[b + 2] \in space
    BY <1>3, <2>1, Zenon
  <2>5. words[q] \in nospcrlfcl
    BY <2>1
  <2>6. <<<<words[q]>>>> \o ArgsFrom(words, q) = ArgsFrom(words, j)
    BY <1>1, <2>1, ArgsFromNext
  <2> HIDE DEF b, q, j
  <2>7. params(s, b) = [args |-> <<<<s[b + 1]>>>> \o params(s, b + 2).args,
                        next |-> params(s, b + 2).next]
    BY <1>2, <2>1, <2>3, <2>4, <2>5, OneParam
  <2>8. params(s, b + 2) = [args |-> ArgsFrom(words, q), next |-> 2 * n]
    BY <2>1, <2>2, Zenon
  <2>9. params(s, b + 2).args = ArgsFrom(words, q) /\ params(s, b + 2).next = 2 * n
    BY <2>8
  <2>10. params(s, b) = [args |-> ArgsFrom(words, j), next |-> 2 * n]
    BY <2>4, <2>6, <2>7, <2>9, Zenon
  <2> QED
    BY <2>10 DEF b, j
<1> HIDE DEF Good
<1>7. Nat \subseteq Good
  BY <1>5, <1>6, FromZeroOn
<1>8. n - i \in Nat /\ n - i < n /\ n - (n - i) = i
  BY <1>1
<1>9. n - i \in Good
  BY <1>7, <1>8
<1> QED
  BY <1>8, <1>9 DEF Good

(* Behind the last word comes the text, to the end of the line. *)
LEMMA SentTrailing ==
  ASSUME NEW words \in Seq(word), words # <<>>, NEW text \in Seq(word \cup space),
         NEW s, IsSent(s, words, text)
  PROVE  trailing_param(s, 2 * Len(words)) = [args |-> <<text>>, next |-> Len(s) + 1]
<1> DEFINE n == Len(words)
           b == 2 * n
           p == b + 1
           q == p + 1
           z == Len(s) + 1
<1>1. n \in Nat /\ n >= 1
  BY EmptySeq
<1>2. s \in Seq(Chars) /\ Len(s) = 2 * n + 1 + Len(text) /\ s[2 * n + 1] = ":"
  BY Zenon DEF IsSent
<1>3. \A j \in 1 .. n : s[2 * j - 1] = words[j] /\ s[2 * j] \in space
  BY Zenon DEF IsSent
<1>4. /\ \A k \in 1 .. Len(text) : s[2 * n + 1 + k] = text[k]
      /\ SubSeq(s, 2 * n + 2, Len(s)) = text
  BY Zenon DEF IsSent
<1>5. Len(text) \in Nat /\ \A k \in 1 .. Len(text) : text[k] \in word \cup space
  OBVIOUS
<1>6. n \in 1 .. n
  BY <1>1
<1>7. s[b] \in space /\ s[p] = ":" /\ s[p] \in {":"}
  BY <1>2, <1>3, <1>6, Zenon
<1>8. /\ b \in Nat /\ b >= 1 /\ b + 1 <= Len(s) /\ p > b /\ p \in 1 .. Len(s)
      /\ q \in Nat /\ q # 0 /\ z \in q .. Len(s) + 1 /\ z - 1 = Len(s) /\ q = 2 * n + 2
      /\ z \notin 1 .. Len(s)
  BY <1>1, <1>2, <1>5
<1>9. ASSUME NEW k \in q .. z - 1 PROVE s[k] \in word \cup space
  <2>1. k - p \in 1 .. Len(text) /\ 2 * n + 1 + (k - p) = k
    BY <1>1, <1>2, <1>5
  <2>2. s[k] = text[k - p]
    BY <1>4, <2>1, Zenon
  <2> QED
    BY <1>5, <2>1, <2>2
<1>10. DOMAIN s = 1 .. Len(s)
  BY <1>2
<1> HIDE DEF n, b, p, q, z
<1>11. Star(s, b, space) = p
  BY <1>2, <1>7, <1>8, NoParam DEF p
<1>12. Star(s, q, word \cup space) = z
  BY <1>2, <1>8, <1>9, <1>10, StarEnds
<1>13. At(s, p, {":"})
  BY <1>7, <1>8, <1>10, Zenon DEF At
<1>14. trailing_param(s, b) = [args |-> <<SubSeq(s, q, z - 1)>>, next |-> z]
  BY <1>8, <1>11, <1>12, <1>13, Zenon DEF trailing_param, q
<1>15. SubSeq(s, q, z - 1) = text
  BY <1>4, <1>8, Zenon
<1> QED
  BY <1>14, <1>15, Zenon DEF b, n, z

(* In front of the parameters is the command alone. *)
LEMMA SentCommand ==
  ASSUME NEW words \in Seq(word), words # <<>>, words[1] \in Named, NEW text \in Seq(Chars),
         NEW s, IsSent(s, words, text)
  PROVE  /\ prefix(s) = [text |-> {}, next |-> 1]
         /\ command(s, 1) = 2
         /\ CommandOf(SubSeq(s, 1, 1)) = words[1]
<1> DEFINE n == Len(words)
           c == words[1]
<1>1. n \in Nat /\ n >= 1
  BY EmptySeq
<1>2. s \in Seq(Chars) /\ Len(s) = 2 * n + 1 + Len(text)
  BY Zenon DEF IsSent
<1>3. \A j \in 1 .. n : s[2 * j - 1] = words[j] /\ s[2 * j] \in space
  BY Zenon DEF IsSent
<1>4. 1 \in 1 .. n /\ 2 * 1 - 1 = 1 /\ 2 * 1 = 2
  BY <1>1
<1>5. s[1] = c /\ s[2] \in space
  BY <1>3, <1>4
<1>6. c \in Named /\ c \in upper /\ c # ":"
  BY Classes
<1>7. s[2] \notin upper
  BY <1>5, Classes
<1>8. /\ Len(s) \in Nat /\ DOMAIN s = 1 .. Len(s) /\ 1 \in DOMAIN s /\ 2 \in 1 .. Len(s) + 1
      /\ 1 .. 2 - 1 = {1} /\ 2 > 1 /\ 2 - 1 = 1
  BY <1>1, <1>2
<1> HIDE DEF c, n
<1>9. Star(s, 1, upper) = 2
  BY <1>2, <1>5, <1>6, <1>7, <1>8, StarEnds
<1>10. ~ At(s, 1, {":"})
  BY <1>5, <1>6, Zenon DEF At
<1>11. prefix(s) = [text |-> {}, next |-> 1]
  BY <1>10, Zenon DEF prefix
<1>12. command(s, 1) = 2
  BY <1>8, <1>9, Zenon DEF command
<1>13. SubSeq(s, 1, 1) = <<c>>
  BY <1>2, <1>5, <1>8, OneElement
<1>14. CommandOf(SubSeq(s, 1, 1)) = c
  <2>1. Len(<<c>>) = 1 /\ <<c>>[1] = c
    OBVIOUS
  <2> QED
    BY <1>6, <1>13, <2>1, Zenon DEF CommandOf
<1> QED
  BY <1>11, <1>12, <1>14 DEF c

(* A command with words and a text is read as that, whatever the text is.  *)
LEMMA SentIsParsed ==
  ASSUME NEW words \in Seq(nospcrlfcl), words # <<>>, words[1] \in Named,
         NEW text \in Seq(word \cup space), NEW s, s = Opening(words) \o text
  PROVE  parse_irc_line(s) =
           {[prefix |-> {}, command |-> words[1], args |-> Append(ArgsFrom(words, 1), text)]}
<1>1. words \in Seq(word) /\ text \in Seq(Chars)
  BY Classes DEF Chars
<1>2. IsSent(s, words, text)
  BY <1>1, SentIs
<1>3. Len(words) \in Nat /\ 1 \in 1 .. Len(words) /\ 1 <= Len(words) /\ 2 * 1 = 2 /\ 2 > 1
      /\ 2 - 1 = 1
  BY EmptySeq
<1>4. params(s, 2 * 1) = [args |-> ArgsFrom(words, 1), next |-> 2 * Len(words)]
  BY <1>1, <1>2, <1>3, SentParams
<1>5. trailing_param(s, 2 * Len(words)) = [args |-> <<text>>, next |-> Len(s) + 1]
  BY <1>1, <1>2, SentTrailing
<1>6. /\ prefix(s) = [text |-> {}, next |-> 1]
      /\ command(s, 1) = 2
      /\ CommandOf(SubSeq(s, 1, 1)) = words[1]
  BY <1>1, <1>2, SentCommand
<1>7. ArgsFrom(words, 1) \o <<text>> = Append(ArgsFrom(words, 1), text)
  <2>1. ArgsFrom(words, 1) \in Seq(Seq(Chars))
    BY <1>1, <1>3, ArgsFromIs
  <2> QED
    BY <1>1, <2>1, AppendIsConcat
<1> DEFINE middle == params(s, 2)
           last == trailing_param(s, middle.next)
<1>8. middle.args = ArgsFrom(words, 1) /\ middle.next = 2 * Len(words)
  BY <1>3, <1>4
<1>9. last.args = <<text>> /\ last.next = Len(s) + 1
  BY <1>5, <1>8
<1>10. prefix(s).text = {} /\ prefix(s).next = 1
  BY <1>6
<1> HIDE DEF middle, last
<1>11. parse_irc_line(s) =
         {[prefix |-> {}, command |-> words[1], args |-> middle.args \o last.args]}
  BY <1>3, <1>6, <1>9, <1>10, Zenon DEF parse_irc_line, middle, last
<1> QED
  BY <1>7, <1>8, <1>9, <1>11, Zenon

-----------------------------------------------------------------------------
(* What the bridge makes of it.                                            *)

(* The arguments, by their places. *)
AreArgs(it, words, text) ==
  /\ it \in Seq(Seq(Chars)) /\ Len(it) = Len(words)
  /\ \A k \in 1 .. Len(words) - 1 : it[k] = <<words[k + 1]>>
  /\ it[Len(words)] = text

LEMMA ArgsAre ==
  ASSUME NEW words \in Seq(word), words # <<>>, NEW text \in Seq(Chars)
  PROVE  AreArgs(Append(ArgsFrom(words, 1), text), words, text)
<1> DEFINE a == ArgsFrom(words, 1)
           n == Len(words)
           it == Append(a, text)
<1>1. n \in Nat /\ n >= 1
  BY EmptySeq
<1>2. a \in Seq(Seq(Chars)) /\ Len(a) = n - 1
  BY <1>1, ArgsFromIs
<1>3. \A k \in 1 .. n - 1 : a[k] = <<words[1 + k]>>
  BY DEF ArgsFrom
<1>4. it = Append(ArgsFrom(words, 1), text)
  OBVIOUS
<1> HIDE DEF a
<1>5. it \in Seq(Seq(Chars)) /\ Len(it) = Len(a) + 1
  BY <1>2, AppendProperties
<1>6. \A k \in 1 .. Len(a) : it[k] = a[k]
  BY <1>2, AppendProperties
<1>7. it[Len(a) + 1] = text
  BY <1>2, AppendProperties
<1> HIDE DEF it, n
<1>8. Len(a) + 1 = n
  BY <1>1, <1>2
<1>9. ASSUME NEW k \in 1 .. n - 1 PROVE it[k] = <<words[k + 1]>>
  <2>1. 1 + k = k + 1 /\ k \in 1 .. Len(a)
    BY <1>1, <1>2
  <2> QED
    BY <1>3, <1>6, <2>1, Zenon
<1>10. AreArgs(it, words, text)
  BY <1>5, <1>7, <1>8, <1>9, Zenon DEF AreArgs, n
<1> QED
  BY <1>4, <1>10

(* The n-th, counted behind the first.                                     *)
LEMMA NthBehindFirst ==
  ASSUME NEW S, NEW it \in Seq(S), NEW n \in Nat, n + 2 <= Len(it)
  PROVE  Nth(it, 0) = {it[1]} /\ Nth(After(it, 0), n) = {it[n + 2]}
<1> DEFINE b == Behind(it, 1)
<1>0. 1 \in Nat /\ 1 <= Len(it)
  OBVIOUS
<1>1. /\ b \in Seq(S) /\ Len(b) = Len(it) - 1
      /\ \A i \in 1 .. Len(it) - 1 : b[i] = it[1 + i]
  BY <1>0, BehindElements, Zenon
<1>2. b = After(it, 0)
  BY DEF Behind, After
<1>3. n + 1 \in 1 .. Len(it) - 1 /\ 1 + (n + 1) = n + 2 /\ n < Len(it) - 1 /\ 0 < Len(it)
  OBVIOUS
<1> HIDE DEF b
<1>4. b[n + 1] = it[n + 2]
  BY <1>1, <1>3, Zenon
<1>5. Nth(b, n) = {it[n + 2]}
  BY <1>1, <1>3, <1>4 DEF Nth
<1>6. Nth(it, 0) = {it[1]}
  BY <1>3 DEF Nth
<1> QED
  BY <1>2, <1>5, <1>6

LEMMA AllOfOne ==
  ASSUME NEW name, NEW x
  PROVE  AllSome(name, <<{x}>>) = {[command |-> name, fields |-> <<x>>]}
<1> DEFINE o == <<{x}>>
<1>1. {} \notin Range(o) /\ [i \in DOMAIN o |-> CHOOSE arg \in o[i] : TRUE] = <<x>>
  <2>1. \A i \in DOMAIN o : o[i] = {x}
    OBVIOUS
  <2>2. (CHOOSE arg \in {x} : TRUE) = x
    OBVIOUS
  <2>3. DOMAIN o = 1 .. 1
    OBVIOUS
  <2>4. {} \notin Range(o)
    BY <2>1 DEF Range
  <2>5. [i \in DOMAIN o |-> CHOOSE arg \in o[i] : TRUE] = [i \in 1 .. 1 |-> x]
    BY <2>1, <2>2, <2>3
  <2>6. [i \in 1 .. 1 |-> x] = <<x>>
    OBVIOUS
  <2> QED
    BY <2>4, <2>5, <2>6
<1> QED
  BY <1>1, Zenon DEF AllSome

LEMMA AllOfTwo ==
  ASSUME NEW name, NEW x, NEW y
  PROVE  AllSome(name, <<{x}, {y}>>) = {[command |-> name, fields |-> <<x, y>>]}
<1> DEFINE o == <<{x}, {y}>>
           v == <<x, y>>
<1>1. {} \notin Range(o) /\ [i \in DOMAIN o |-> CHOOSE arg \in o[i] : TRUE] = v
  <2>1. \A i \in DOMAIN o : o[i] = {v[i]}
    OBVIOUS
  <2>2. \A z : (CHOOSE arg \in {z} : TRUE) = z
    OBVIOUS
  <2>3. DOMAIN o = 1 .. 2 /\ DOMAIN v = 1 .. 2 /\ v = [i \in DOMAIN v |-> v[i]]
    OBVIOUS
  <2>4. {} \notin Range(o)
    BY <2>1 DEF Range
  <2> HIDE DEF o, v
  <2>5. \A i \in DOMAIN o : (CHOOSE arg \in o[i] : TRUE) = v[i]
    BY <2>1, <2>2
  <2>6. [i \in DOMAIN o |-> CHOOSE arg \in o[i] : TRUE] = [i \in DOMAIN o |-> v[i]]
    BY <2>5, Zenon
  <2> QED
    BY <2>3, <2>4, <2>6
<1> QED
  BY <1>1, Zenon DEF AllSome

(* What the bridge takes from a line with those arguments. *)
LEMMA Understood ==
  ASSUME NEW it, NEW name, NEW l, l = [prefix |-> {}, command |-> name, args |-> it]
  PROVE  /\ name \in {"PRIVMSG", "TOPIC"} =>
              from_irc_line(l) = AllSome(name, <<Nth(it, 0), Nth(After(it, 0), 0)>>)
         /\ name = "USER" => from_irc_line(l) = AllSome(name, <<Nth(it, 0), Nth(After(it, 0), 2)>>)
         /\ name = "PASS" => from_irc_line(l) = AllSome(name, <<Nth(it, 0)>>)
         /\ name = "AWAY" /\ it # <<>> =>
              from_irc_line(l) = {[command |-> name, fields |-> <<it[1]>>]}
<1>1. l.command = name /\ l.args = it
  OBVIOUS
<1> QED
  BY <1>1 DEF from_irc_line, UserArgs, TwoArgs

(* The line of a command is understood as that command. *)
LEMMA SentIsUnderstood ==
  ASSUME NEW words \in Seq(nospcrlfcl), words # <<>>, words[1] \in Named,
         NEW text \in Seq(word \cup space)
  PROVE  \E it : /\ AreArgs(it, words, text)
                 /\ from_str(Opening(words) \o text) =
                      from_irc_line([prefix |-> {}, command |-> words[1], args |-> it])
<1> DEFINE s == Opening(words) \o text
           it == Append(ArgsFrom(words, 1), text)
           l == [prefix |-> {}, command |-> words[1], args |-> it]
<1>1. words \in Seq(word) /\ text \in Seq(Chars)
  BY Classes DEF Chars
<1>2. AreArgs(it, words, text)
  BY <1>1, ArgsAre
<1>3. parse_irc_line(s) = {l}
  BY SentIsParsed
<1> HIDE DEF s, it, l
<1>4. from_str(s) = from_irc_line(l)
  BY <1>3 DEF from_str
<1> QED
  BY <1>2, <1>4 DEF s, l

(* Two words: the second and the text. *)
LEMMA SaysToTarget ==
  ASSUME NEW words \in Seq(nospcrlfcl), Len(words) = 2, words[1] \in {"PRIVMSG", "TOPIC"},
         NEW text \in Seq(word \cup space)
  PROVE  from_str(Opening(words) \o text) =
           {[command |-> words[1], fields |-> <<<<words[2]>>, text>>]}
<1>1. words # <<>> /\ words[1] \in Named
  <2>1. words[1] \in Named
    BY DEF Named
  <2>2. Len(<<>>) = 0 /\ Len(words) # 0
    OBVIOUS
  <2> QED
    BY <2>1, <2>2, Zenon
<1>2. PICK it : /\ AreArgs(it, words, text)
                /\ from_str(Opening(words) \o text) =
                     from_irc_line([prefix |-> {}, command |-> words[1], args |-> it])
  BY <1>1, SentIsUnderstood
<1>3. it \in Seq(Seq(Chars)) /\ Len(it) = 2 /\ it[1] = <<words[2]>> /\ it[2] = text
  BY <1>2 DEF AreArgs
<1>4. Nth(it, 0) = {it[1]} /\ Nth(After(it, 0), 0) = {it[0 + 2]}
  <2>1. it \in Seq(Seq(Chars)) /\ 0 \in Nat /\ 0 + 2 <= Len(it)
    BY <1>3
  <2> QED
    BY <2>1, NthBehindFirst, Zenon
<1>5. Nth(After(it, 0), 0) = {it[2]}
  BY <1>4
<1>6. from_str(Opening(words) \o text) = AllSome(words[1], <<{it[1]}, {it[2]}>>)
  <2>1. from_str(Opening(words) \o text)
          = AllSome(words[1], <<Nth(it, 0), Nth(After(it, 0), 0)>>)
    BY <1>2, Understood, Zenon
  <2> QED
    BY <1>4, <1>5, <2>1, Zenon
<1> DEFINE x == it[1]
           y == it[2]
           name == words[1]
<1>7. x = <<words[2]>> /\ y = text
  BY <1>3
<1>8. from_str(Opening(words) \o text) = AllSome(name, <<{x}, {y}>>)
  BY <1>6
<1>9. {[command |-> name, fields |-> <<<<words[2]>>, text>>]}
        = {[command |-> words[1], fields |-> <<<<words[2]>>, text>>]}
  OBVIOUS
<1> HIDE DEF x, y, name
<1>10. AllSome(name, <<{x}, {y}>>) = {[command |-> name, fields |-> <<x, y>>]}
  BY AllOfTwo
<1> QED
  BY <1>7, <1>8, <1>9, <1>10, Zenon

(* USER: the second word and the text. *)
LEMMA SaysRealName ==
  ASSUME NEW words \in Seq(nospcrlfcl), Len(words) = 4, words[1] = "USER",
         NEW text \in Seq(word \cup space)
  PROVE  from_str(Opening(words) \o text) =
           {[command |-> words[1], fields |-> <<<<words[2]>>, text>>]}
<1>1. words # <<>> /\ words[1] \in Named
  <2>1. words[1] \in Named
    BY DEF Named
  <2>2. Len(<<>>) = 0 /\ Len(words) # 0
    OBVIOUS
  <2> QED
    BY <2>1, <2>2, Zenon
<1>2. PICK it : /\ AreArgs(it, words, text)
                /\ from_str(Opening(words) \o text) =
                     from_irc_line([prefix |-> {}, command |-> words[1], args |-> it])
  BY <1>1, SentIsUnderstood
<1>3. it \in Seq(Seq(Chars)) /\ Len(it) = 4 /\ it[1] = <<words[2]>> /\ it[4] = text
  BY <1>2 DEF AreArgs
<1>4. Nth(it, 0) = {it[1]} /\ Nth(After(it, 0), 2) = {it[2 + 2]}
  <2>1. it \in Seq(Seq(Chars)) /\ 2 \in Nat /\ 2 + 2 <= Len(it)
    BY <1>3
  <2> QED
    BY <2>1, NthBehindFirst, Zenon
<1>5. Nth(After(it, 0), 2) = {it[4]}
  BY <1>4
<1>6. from_str(Opening(words) \o text) = AllSome(words[1], <<{it[1]}, {it[4]}>>)
  <2>1. from_str(Opening(words) \o text)
          = AllSome(words[1], <<Nth(it, 0), Nth(After(it, 0), 2)>>)
    BY <1>2, Understood, Zenon
  <2> QED
    BY <1>4, <1>5, <2>1, Zenon
<1> DEFINE x == it[1]
           y == it[4]
           name == words[1]
<1>7. x = <<words[2]>> /\ y = text
  BY <1>3
<1>8. from_str(Opening(words) \o text) = AllSome(name, <<{x}, {y}>>)
  BY <1>6
<1>9. {[command |-> name, fields |-> <<<<words[2]>>, text>>]}
        = {[command |-> words[1], fields |-> <<<<words[2]>>, text>>]}
  OBVIOUS
<1> HIDE DEF x, y, name
<1>10. AllSome(name, <<{x}, {y}>>) = {[command |-> name, fields |-> <<x, y>>]}
  BY AllOfTwo
<1> QED
  BY <1>7, <1>8, <1>9, <1>10, Zenon

(* The command alone: the text. *)
LEMMA SaysText ==
  ASSUME NEW words \in Seq(nospcrlfcl), Len(words) = 1, words[1] \in {"PASS", "AWAY"},
         NEW text \in Seq(word \cup space)
  PROVE  from_str(Opening(words) \o text) = {[command |-> words[1], fields |-> <<text>>]}
<1>1. words # <<>> /\ words[1] \in Named
  <2>1. words[1] \in Named
    BY DEF Named
  <2>2. Len(<<>>) = 0 /\ Len(words) # 0
    OBVIOUS
  <2> QED
    BY <2>1, <2>2, Zenon
<1>2. PICK it : /\ AreArgs(it, words, text)
                /\ from_str(Opening(words) \o text) =
                     from_irc_line([prefix |-> {}, command |-> words[1], args |-> it])
  BY <1>1, SentIsUnderstood
<1>3. it \in Seq(Seq(Chars)) /\ Len(it) = 1 /\ it[1] = text /\ it # <<>>
  BY <1>2 DEF AreArgs
<1>4. Nth(it, 0) = {it[1]}
  BY <1>3 DEF Nth
<1>5. CASE words[1] = "AWAY"
  BY <1>2, <1>3, <1>5, Understood, Zenon
<1>6. CASE words[1] = "PASS"
  <2>1. from_str(Opening(words) \o text) = AllSome(words[1], <<{it[1]}>>)
    BY <1>2, <1>4, <1>6, Understood, Zenon
  <2> QED
    BY <1>3, <2>1, AllOfOne, Zenon
<1> QED
  BY <1>5, <1>6

-----------------------------------------------------------------------------
(* What is typed is made of the characters the rules know, and of "bad".   *)
LEMMA Typing == Spec => []TypeInv
<1>1. Init => TypeInv
  BY EmptySeq DEF Init, TypeInv
<1>2. TypeInv /\ [Type]_vars => TypeInv'
  <2> SUFFICES ASSUME TypeInv, [Type]_vars PROVE TypeInv'
    OBVIOUS
  <2>1. CASE UNCHANGED vars
    BY <2>1 DEF vars, TypeInv
  <2>2. CASE Type
    <3>1. PICK unit \in alphabet.units : line' = Append(line, unit) /\ alphabet' = alphabet
      BY <2>2 DEF Type
    <3>2. unit \in Chars
      BY AlphabetsAssumption DEF TypeInv, Chars
    <3> QED
      BY <3>1, <3>2 DEF TypeInv
  <2> QED
    BY <2>1, <2>2
<1> QED
  BY <1>1, <1>2, PTL DEF Spec

(* What a command says. *)
SentAs(words, fields, text) ==
  from_str(FlattenSeq([i \in DOMAIN words |-> <<words[i], " ">>]) \o <<":">> \o text)
    = {[command |-> words[1], fields |-> fields]}

LEMMA SentAsIs ==
  ASSUME NEW words, NEW fields, NEW text
  PROVE  SentAs(words, fields, text) <=>
           from_str(Opening(words) \o text) = {[command |-> words[1], fields |-> fields]}
BY Zenon DEF SentAs, Opening, Pairs, Pair

LEMMA TextsAreWhole ==
  ASSUME NEW text \in Seq(word \cup space)
  PROVE  /\ SentAs(<<"PRIVMSG", "x">>, <<<<"x">>, text>>, text)
         /\ SentAs(<<"TOPIC", "x">>, <<<<"x">>, text>>, text)
         /\ SentAs(<<"AWAY">>, <<text>>, text)
         /\ SentAs(<<"PASS">>, <<text>>, text)
         /\ SentAs(<<"USER", "x", "7", "x">>, <<<<"x">>, text>>, text)
<1>1. {"PRIVMSG", "TOPIC", "AWAY", "PASS", "USER", "x", "7"} \subseteq nospcrlfcl
  BY DEF nospcrlfcl, upper, digit, Named
<1>2. ASSUME NEW name \in {"PRIVMSG", "TOPIC"}
      PROVE  SentAs(<<name, "x">>, <<<<"x">>, text>>, text)
  <2> DEFINE words == <<name, "x">>
  <2>1. words \in Seq(nospcrlfcl) /\ Len(words) = 2 /\ words[1] = name /\ words[2] = "x"
    BY <1>1
  <2> HIDE DEF words
  <2>2. words[1] \in {"PRIVMSG", "TOPIC"}
    BY <2>1
  <2>3. from_str(Opening(words) \o text) =
          {[command |-> words[1], fields |-> <<<<words[2]>>, text>>]}
    BY <2>1, <2>2, SaysToTarget
  <2>4. SentAs(words, <<<<"x">>, text>>, text)
    BY <2>1, <2>3, SentAsIs, Zenon
  <2> QED
    BY <2>4 DEF words
<1>3. ASSUME NEW name \in {"AWAY", "PASS"} PROVE SentAs(<<name>>, <<text>>, text)
  <2> DEFINE words == <<name>>
  <2>1. words \in Seq(nospcrlfcl) /\ Len(words) = 1 /\ words[1] = name
    BY <1>1
  <2> HIDE DEF words
  <2>2. words[1] \in {"PASS", "AWAY"}
    BY <2>1
  <2>3. from_str(Opening(words) \o text) = {[command |-> words[1], fields |-> <<text>>]}
    BY <2>1, <2>2, SaysText
  <2>4. SentAs(words, <<text>>, text)
    BY <2>3, SentAsIs, Zenon
  <2> QED
    BY <2>4 DEF words
<1>4. SentAs(<<"USER", "x", "7", "x">>, <<<<"x">>, text>>, text)
  <2> DEFINE words == <<"USER", "x", "7", "x">>
  <2>1. words \in Seq(nospcrlfcl) /\ Len(words) = 4 /\ words[1] = "USER" /\ words[2] = "x"
    BY <1>1
  <2> HIDE DEF words
  <2>2. from_str(Opening(words) \o text) =
          {[command |-> words[1], fields |-> <<<<words[2]>>, text>>]}
    BY <2>1, SaysRealName
  <2>3. SentAs(words, <<<<"x">>, text>>, text)
    BY <2>1, <2>2, SentAsIs, Zenon
  <2> QED
    BY <2>3 DEF words
<1> QED
  BY <1>2, <1>3, <1>4, Zenon

(* Whatever a user says, however long and with however many spaces and     *)
(* colons, and even if it is empty, from_str gives the bridge as he wrote  *)
(* it, and so a real name and a password (protocol.rs, the grammar and     *)
(* IrcCommand::from_irc_line).                                             *)
THEOREM TextsReachTheBridge == Spec => []TextsArriveWhole
<1>1. TypeInv => TextsArriveWhole
  <2> SUFFICES ASSUME TypeInv, "bad" \notin Range(line) PROVE TextsArriveWhole
    BY DEF TextsArriveWhole
  <2>1. line \in Seq(word \cup space)
    <3>1. line \in Seq(Chars) /\ \A i \in DOMAIN line : line[i] # "bad"
      BY DEF TypeInv, Range
    <3>2. \A i \in DOMAIN line : line[i] \in word \cup space
      BY <3>1 DEF Chars
    <3> QED
      BY <3>1, <3>2
  <2> DEFINE text == line
             Sent == {[words |-> <<"PRIVMSG", "x">>, fields |-> <<<<"x">>, text>>],
                      [words |-> <<"TOPIC", "x">>, fields |-> <<<<"x">>, text>>],
                      [words |-> <<"AWAY">>, fields |-> <<text>>],
                      [words |-> <<"PASS">>, fields |-> <<text>>],
                      [words |-> <<"USER", "x", "7", "x">>, fields |-> <<<<"x">>, text>>]}
  <2>2. \A sent \in Sent : SentAs(sent.words, sent.fields, text)
    <3>1. ASSUME NEW words, NEW fields, SentAs(words, fields, text),
                 NEW sent, sent = [words |-> words, fields |-> fields]
          PROVE  SentAs(sent.words, sent.fields, text)
      <4>1. sent.words = words /\ sent.fields = fields
        BY <3>1
      <4> QED
        BY <3>1, <4>1, Zenon
    <3> QED
      BY <2>1, <3>1, TextsAreWhole, Zenon
  <2> QED
    BY <2>2, Zenon DEF TextsArriveWhole, SentAs
<1> QED
  BY <1>1, Typing, PTL

-----------------------------------------------------------------------------
(* The words of a line.                                                    *)

(* The m elements of S, from the least on; none is above n.                *)
Counts(f, m, n, S) ==
  /\ n \in Nat /\ m \in Nat /\ f \in [1 .. m -> 1 .. n]
  /\ \A j, k \in 1 .. m : j < k => f[j] < f[k]
  /\ \A x : x \in S <=> \E k \in 1 .. m : x = f[k]

LEMMA InOrderIs ==
  ASSUME NEW n, NEW m, NEW f, NEW S, Counts(f, m, n, S)
  PROVE  InOrder(S) = f
<1>0. /\ n \in Nat /\ m \in Nat /\ f \in [1 .. m -> 1 .. n]
      /\ \A j, k \in 1 .. m : j < k => f[j] < f[k]
      /\ \A x : x \in S <=> \E k \in 1 .. m : x = f[k]
  BY DEF Counts
<1> USE <1>0
<1>1. f \in [1 .. m -> S] /\ S \subseteq 1 .. n
  OBVIOUS
<1>2. Cardinality(S) = m
  <2>1. \A j, k \in 1 .. m : f[j] = f[k] => j = k
    <3> SUFFICES ASSUME NEW j \in 1 .. m, NEW k \in 1 .. m, f[j] = f[k], j # k PROVE FALSE
      OBVIOUS
    <3>1. j < k \/ k < j
      OBVIOUS
    <3>2. f[j] \in Nat /\ f[k] \in Nat
      OBVIOUS
    <3>3. f[j] < f[k] \/ f[k] < f[j]
      BY <3>1
    <3> QED
      BY <3>2, <3>3
  <2>2. f \in Bijection(1 .. m, S)
    <3>1. f \in Injection(1 .. m, S)
      BY <1>1, <2>1 DEF Injection, IsInjective
    <3>2. f \in Surjection(1 .. m, S)
      BY <1>1 DEF Surjection
    <3> QED
      BY <3>1, <3>2 DEF Bijection
  <2>3. ExistsBijection(1 .. m, S)
    BY <2>2 DEF ExistsBijection
  <2> QED
    BY <2>3, FS_CountingElements
<1> DEFINE g == InOrder(S)
           Rising(h) == \A j, k \in DOMAIN h : j < k => h[j] < h[k]
<1>3. f \in [1 .. m -> S] /\ Rising(f)
  BY <1>1
<1>4. g \in [1 .. m -> S] /\ Rising(g)
  <2>1. \E h \in [1 .. m -> S] : Rising(h)
    BY <1>3
  <2>2. g = CHOOSE h \in [1 .. m -> S] : Rising(h)
    BY <1>2 DEF InOrder
  <2> HIDE DEF g, Rising
  <2> QED
    BY <2>1, <2>2
<1>5. \A j, k \in 1 .. m : j < k => g[j] < g[k]
  BY <1>4
<1>6. \A k \in 1 .. m : \E j \in 1 .. m : g[k] = f[j]
  BY <1>4
<1>7. \A k \in 1 .. m : g[k] \in Nat /\ f[k] \in Nat
  BY <1>1, <1>4
<1> HIDE DEF g, Rising
<1>8. ASSUME NEW k \in 1 .. m PROVE ~ (g[k] < f[k])
  <2> SUFFICES ASSUME g[k] < f[k] PROVE FALSE
    OBVIOUS
  <2> DEFINE Less == {l \in 1 .. m : g[l] < f[l]}
  <2>1. Less \in SUBSET Nat /\ Less # {}
    OBVIOUS
  <2>2. PICK l \in Less : \A i \in Less : l <= i
    BY <2>1, LeastNumber
  <2>3. l \in 1 .. m /\ g[l] < f[l]
    OBVIOUS
  <2>4. PICK j \in 1 .. m : g[l] = f[j]
    BY <1>6, <2>3
  <2>5. j < l
    <3> SUFFICES ASSUME j >= l PROVE FALSE
      BY <2>3
    <3>1. j = l \/ l < j
      BY <2>3
    <3>2. f[j] = f[l] \/ f[l] < f[j]
      BY <2>3, <3>1
    <3> QED
      BY <1>7, <2>3, <2>4, <3>2
  <2>6. g[j] < g[l]
    BY <1>5, <2>3, <2>5
  <2>7. j \in Less
    BY <1>7, <2>3, <2>4, <2>6
  <2> QED
    BY <2>2, <2>3, <2>5, <2>7
<1>9. ASSUME NEW k \in 1 .. m PROVE ~ (f[k] < g[k])
  <2> SUFFICES ASSUME f[k] < g[k] PROVE FALSE
    OBVIOUS
  <2> DEFINE More == {i \in Nat : i <= m /\ f[m - i] < g[m - i] /\ m - i \in 1 .. m}
  <2>1. m - k \in Nat /\ m - k <= m /\ m - (m - k) = k
    OBVIOUS
  <2>2. More \in SUBSET Nat /\ m - k \in More
    BY <2>1
  <2>3. PICK i \in More : \A h \in More : i <= h
    BY <2>2, LeastNumber
  <2> DEFINE l == m - i
  <2>4. l \in 1 .. m /\ f[l] < g[l] /\ i = m - l /\ l \in Int
    OBVIOUS
  <2> HIDE DEF l
  <2>5. PICK j \in 1 .. m : g[l] = f[j]
    BY <1>6, <2>4
  <2>6. l < j
    <3> SUFFICES ASSUME j <= l PROVE FALSE
      BY <2>4
    <3>1. j = l \/ j < l
      BY <2>4
    <3>2. f[j] = f[l] \/ f[j] < f[l]
      BY <2>4, <3>1
    <3> QED
      BY <1>7, <2>4, <2>5, <3>2
  <2>7. g[l] < g[j]
    BY <1>5, <2>4, <2>6
  <2>8. f[j] < g[j]
    BY <1>7, <2>4, <2>5, <2>7
  <2>9. m - j \in Nat /\ m - j <= m /\ m - (m - j) = j
    OBVIOUS
  <2>10. m - j \in More
    BY <2>8, <2>9
  <2>11. i <= m - j
    BY <2>3, <2>10
  <2> QED
    BY <2>4, <2>6, <2>11
<1>10. \A k \in 1 .. m : g[k] = f[k]
  BY <1>7, <1>8, <1>9
<1>11. g = f
  BY <1>4, <1>10
<1> QED
  BY <1>11 DEF g

(* The first n characters are the words from a[k] to z[k], and spaces.     *)
Cut(s, n, m, a, z) ==
  /\ n \in Nat /\ m \in Nat /\ a \in [1 .. m -> 1 .. n] /\ z \in [1 .. m -> 1 .. n]
  /\ \A k \in 1 .. m : a[k] <= z[k]
  /\ \A k \in 1 .. m : \A i \in a[k] .. z[k] : s[i] \notin space
  /\ \A j, k \in 1 .. m : j < k => z[j] + 1 < a[k]
  /\ \A i \in 1 .. n : s[i] \notin space => \E k \in 1 .. m : i \in a[k] .. z[k]

LEMMA CutLonger ==
  ASSUME NEW s, NEW n, NEW m, NEW a, NEW z, Cut(s, n, m, a, z)
  PROVE  \E m2, a2, z2 : Cut(s, n + 1, m2, a2, z2)
<1> DEFINE q == n + 1
<1>1. n \in Nat /\ m \in Nat /\ a \in [1 .. m -> 1 .. n] /\ z \in [1 .. m -> 1 .. n]
  BY DEF Cut
<1>2. \A k \in 1 .. m : a[k] <= z[k]
  BY DEF Cut
<1>3. \A k \in 1 .. m : \A i \in a[k] .. z[k] : s[i] \notin space
  BY DEF Cut
<1>4. \A j, k \in 1 .. m : j < k => z[j] + 1 < a[k]
  BY DEF Cut
<1>5. \A i \in 1 .. n : s[i] \notin space => \E k \in 1 .. m : i \in a[k] .. z[k]
  BY DEF Cut
<1>6. \A k \in 1 .. m : a[k] \in 1 .. n /\ z[k] \in 1 .. n
  BY <1>1
<1>7. q \in Nat /\ q = n + 1 /\ \A i \in 1 .. q : i \in 1 .. n \/ i = q
  BY <1>1
<1> HIDE DEF q
<1>8. CASE s[q] \in space
  <2>1. a \in [1 .. m -> 1 .. q] /\ z \in [1 .. m -> 1 .. q]
    BY <1>1, <1>7
  <2>2. \A i \in 1 .. q : s[i] \notin space => \E k \in 1 .. m : i \in a[k] .. z[k]
    BY <1>5, <1>7, <1>8
  <2>3. Cut(s, q, m, a, z)
    BY <1>1, <1>2, <1>3, <1>4, <1>7, <2>1, <2>2 DEF Cut
  <2> QED
    BY <2>3 DEF q
<1>9. CASE s[q] \notin space /\ m \in 1 .. m /\ z[m] = n
  <2> DEFINE y == [z EXCEPT ![m] = q]
  <2>1. /\ y \in [1 .. m -> 1 .. q] /\ a \in [1 .. m -> 1 .. q] /\ y[m] = q
        /\ \A k \in 1 .. m : k # m => y[k] = z[k]
    BY <1>1, <1>7, <1>9
  <2> HIDE DEF y
  <2>2. ASSUME NEW k \in 1 .. m PROVE a[k] <= y[k] /\ a[k] .. z[k] \subseteq a[k] .. y[k]
    BY <1>2, <1>6, <1>7, <1>9, <2>1
  <2>3. ASSUME NEW k \in 1 .. m, NEW i \in a[k] .. y[k] PROVE s[i] \notin space
    <3>1. i \in a[k] .. z[k] \/ i = q
      BY <1>6, <1>7, <1>9, <2>1
    <3> QED
      BY <1>3, <1>9, <3>1
  <2>4. ASSUME NEW j \in 1 .. m, NEW k \in 1 .. m, j < k PROVE y[j] + 1 < a[k]
    <3>1. j # m
      BY <1>1, <2>4
    <3> QED
      BY <1>4, <2>1, <2>4, <3>1
  <2>5. ASSUME NEW i \in 1 .. q, s[i] \notin space PROVE \E k \in 1 .. m : i \in a[k] .. y[k]
    <3>1. CASE i = q
      <4>1. q \in a[m] .. y[m]
        BY <1>6, <1>7, <1>9, <2>1
      <4> QED
        BY <1>9, <3>1, <4>1
    <3>2. CASE i \in 1 .. n
      BY <1>5, <2>2, <2>5, <3>2
    <3> QED
      BY <1>7, <3>1, <3>2
  <2>6. Cut(s, q, m, a, y)
    BY <1>1, <1>7, <2>1, <2>2, <2>3, <2>4, <2>5 DEF Cut
  <2> QED
    BY <2>6 DEF q
<1>10. CASE s[q] \notin space /\ ~ (m \in 1 .. m /\ z[m] = n)
  <2> DEFINE l == m + 1
             b == [k \in 1 .. l |-> IF k = l THEN q ELSE a[k]]
             y == [k \in 1 .. l |-> IF k = l THEN q ELSE z[k]]
  <2>1. l \in Nat /\ l \in 1 .. l /\ l \notin 1 .. m /\ \A k \in 1 .. l : k # l => k \in 1 .. m
    BY <1>1
  <2>11. 1 .. m \subseteq 1 .. l /\ l = m + 1
    BY <1>1
  <2>2. b \in [1 .. l -> 1 .. q] /\ y \in [1 .. l -> 1 .. q]
    <3>1. q \in 1 .. q /\ 1 .. n \subseteq 1 .. q
      BY <1>1, <1>7
    <3>2. ASSUME NEW k \in 1 .. l
          PROVE  (IF k = l THEN q ELSE a[k]) \in 1 .. q /\ (IF k = l THEN q ELSE z[k]) \in 1 .. q
      <4>1. CASE k = l
        BY <3>1, <4>1, Zenon
      <4>2. CASE k # l
        <5>1. k \in 1 .. m
          BY <2>1, <4>2
        <5>2. a[k] \in 1 .. q /\ z[k] \in 1 .. q
          BY <1>6, <3>1, <5>1
        <5> QED
          BY <4>2, <5>2, Zenon
      <4> QED
        BY <4>1, <4>2
    <3> HIDE DEF l
    <3> QED
      BY <3>2
  <2>3. /\ b[l] = q /\ y[l] = q
        /\ \A k \in 1 .. m : b[k] = a[k] /\ y[k] = z[k]
    <3>1. b[l] = q /\ y[l] = q
      BY <2>1
    <3>2. ASSUME NEW k \in 1 .. m PROVE b[k] = a[k] /\ y[k] = z[k]
      <4>1. k # l /\ k \in 1 .. l
        BY <2>1, <2>11
      <4> HIDE DEF l
      <4> QED
        BY <4>1
    <3> QED
      BY <3>1, <3>2
  <2> HIDE DEF b, y, l
  <2>4. ASSUME NEW k \in 1 .. l
        PROVE  b[k] <= y[k] /\ \A i \in b[k] .. y[k] : s[i] \notin space
    <3>1. CASE k = l
      <4>1. q .. q = {q} /\ q <= q
        BY <1>7
      <4> QED
        BY <1>10, <2>3, <3>1, <4>1
    <3>2. CASE k # l
      BY <1>2, <1>3, <2>1, <2>3, <3>2
    <3> QED
      BY <3>1, <3>2
  <2>5. ASSUME NEW j \in 1 .. l, NEW k \in 1 .. l, j < k PROVE y[j] + 1 < b[k]
    <3>1. j \in 1 .. m
      BY <1>1, <2>1, <2>5
    <3>2. CASE k \in 1 .. m
      BY <1>4, <2>3, <2>5, <3>1, <3>2
    <3>3. CASE k = l
      <4>1. z[j] # n
        <5>1. CASE j = m
          BY <1>10, <3>1, <5>1
        <5>2. CASE j # m
          <6>1. j < m /\ m \in 1 .. m
            BY <1>1, <3>1, <5>2
          <6>2. z[j] + 1 < a[m]
            BY <1>4, <3>1, <6>1
          <6> QED
            BY <1>1, <1>6, <3>1, <6>1, <6>2
        <5> QED
          BY <5>1, <5>2
      <4>2. z[j] + 1 < q
        BY <1>1, <1>6, <1>7, <3>1, <4>1
      <4> QED
        BY <2>3, <3>1, <3>3, <4>2
    <3> QED
      BY <2>1, <3>2, <3>3
  <2>6. ASSUME NEW i \in 1 .. q, s[i] \notin space PROVE \E k \in 1 .. l : i \in b[k] .. y[k]
    <3>1. CASE i = q
      <4>1. q \in b[l] .. y[l]
        BY <1>7, <2>3
      <4> QED
        BY <2>1, <3>1, <4>1
    <3>2. CASE i \in 1 .. n
      <4>1. PICK k \in 1 .. m : i \in a[k] .. z[k]
        BY <1>5, <2>6, <3>2
      <4>2. i \in b[k] .. y[k] /\ k \in 1 .. l
        BY <2>3, <2>11, <4>1
      <4> QED
        BY <4>2
    <3> QED
      BY <1>7, <3>1, <3>2
  <2>7. Cut(s, q, l, b, y)
    BY <1>7, <2>1, <2>2, <2>4, <2>5, <2>6 DEF Cut
  <2> QED
    BY <2>7 DEF q
<1> QED
  BY <1>8, <1>9, <1>10

LEMMA CutExists ==
  ASSUME NEW s, NEW n \in Nat
  PROVE  \E m, a, z : Cut(s, n, m, a, z)
<1> DEFINE Good == {k \in Nat : \E m, a, z : Cut(s, k, m, a, z)}
<1>1. 0 \in Good
  <2> DEFINE e == [k \in 1 .. 0 |-> 1]
  <2>1. 1 .. 0 = {} /\ e \in [1 .. 0 -> 1 .. 0]
    OBVIOUS
  <2> HIDE DEF e
  <2>2. Cut(s, 0, 0, e, e)
    BY <2>1 DEF Cut
  <2> QED
    BY <2>2
<1>2. ASSUME NEW k \in Nat, k \in Good PROVE k + 1 \in Good
  <2>1. PICK m, a, z : Cut(s, k, m, a, z)
    BY <1>2
  <2>2. \E m2, a2, z2 : Cut(s, k + 1, m2, a2, z2)
    BY <2>1, CutLonger
  <2> QED
    BY <2>2
<1> HIDE DEF Good
<1>3. Nat \subseteq Good
  BY <1>1, <1>2, FromZeroOn
<1>4. n \in Good
  BY <1>3
<1> QED
  BY <1>4 DEF Good

(* A space is not in a word, and what is before, between and behind words is space. *)
LEMMA WordsApart ==
  ASSUME NEW s, NEW n, NEW m, NEW a, NEW z, Cut(s, n, m, a, z)
  PROVE  /\ n \in Nat /\ m \in Nat
         /\ \A k \in 1 .. m : /\ a[k] \in 1 .. n /\ z[k] \in 1 .. n /\ a[k] <= z[k]
                              /\ s[a[k]] \notin space /\ s[z[k]] \notin space
                              /\ a[k] # 1 => s[a[k] - 1] \in space
                              /\ z[k] # n => s[z[k] + 1] \in space
<1>1. n \in Nat /\ m \in Nat /\ a \in [1 .. m -> 1 .. n] /\ z \in [1 .. m -> 1 .. n]
  BY DEF Cut
<1>2. \A k \in 1 .. m : a[k] <= z[k]
  BY DEF Cut
<1>3. \A k \in 1 .. m : \A i \in a[k] .. z[k] : s[i] \notin space
  BY DEF Cut
<1>4. \A j, k \in 1 .. m : j < k => z[j] + 1 < a[k]
  BY DEF Cut
<1>5. \A i \in 1 .. n : s[i] \notin space => \E k \in 1 .. m : i \in a[k] .. z[k]
  BY DEF Cut
<1>6. \A k \in 1 .. m : a[k] \in 1 .. n /\ z[k] \in 1 .. n
  BY <1>1
<1>7. ASSUME NEW j \in 1 .. m, NEW k \in 1 .. m, NEW i \in a[j] .. z[j],
             i + 1 = a[k] \/ z[k] + 1 = i
      PROVE  FALSE
  <2>1. a[j] \in Nat /\ z[j] \in Nat /\ a[k] \in Nat /\ z[k] \in Nat /\ i \in Nat /\ a[k] <= z[k]
    BY <1>2, <1>6
  <2>2. CASE j = k
    BY <1>7, <2>1, <2>2
  <2>3. CASE j < k
    <3>1. z[j] + 1 < a[k]
      BY <1>4, <2>3
    <3> QED
      BY <1>7, <2>1, <3>1
  <2>4. CASE k < j
    <3>1. z[k] + 1 < a[j]
      BY <1>4, <2>4
    <3> QED
      BY <1>7, <2>1, <3>1
  <2>5. j < k \/ k < j \/ j = k
    OBVIOUS
  <2> QED
    BY <2>2, <2>3, <2>4, <2>5
<1>8. ASSUME NEW k \in 1 .. m
      PROVE  /\ s[a[k]] \notin space /\ s[z[k]] \notin space
             /\ a[k] # 1 => s[a[k] - 1] \in space
             /\ z[k] # n => s[z[k] + 1] \in space
  <2>1. a[k] \in 1 .. n /\ z[k] \in 1 .. n /\ a[k] <= z[k]
    BY <1>2, <1>6
  <2>2. a[k] \in a[k] .. z[k] /\ z[k] \in a[k] .. z[k]
    BY <2>1
  <2>3. ASSUME a[k] # 1, s[a[k] - 1] \notin space PROVE FALSE
    <3> DEFINE i == a[k] - 1
    <3>1. i \in 1 .. n /\ i + 1 = a[k]
      BY <1>1, <2>1, <2>3
    <3>2. s[i] \notin space
      BY <2>3
    <3> HIDE DEF i
    <3>3. PICK j \in 1 .. m : i \in a[j] .. z[j]
      BY <1>5, <3>1, <3>2
    <3> QED
      BY <1>7, <3>1, <3>3
  <2>4. ASSUME z[k] # n, s[z[k] + 1] \notin space PROVE FALSE
    <3> DEFINE i == z[k] + 1
    <3>1. i \in 1 .. n /\ z[k] + 1 = i
      BY <1>1, <2>1, <2>4
    <3>2. s[i] \notin space
      BY <2>4
    <3> HIDE DEF i
    <3>3. PICK j \in 1 .. m : i \in a[j] .. z[j]
      BY <1>5, <3>1, <3>2
    <3> QED
      BY <1>7, <3>1, <3>3
  <2> QED
    BY <1>3, <2>2, <2>3, <2>4
<1> QED
  BY <1>1, <1>2, <1>6, <1>8

(* The words that Words finds. *)
LEMMA WordsAre ==
  ASSUME NEW S, NEW t \in Seq(S), NEW n, n = Len(t), NEW m, NEW a, NEW z, Cut(t, n, m, a, z)
  PROVE  Words(t) = [k \in 1 .. m |-> SubSeq(t, a[k], z[k])]
<1> DEFINE starts == {i \in DOMAIN t : t[i] \notin space /\ (i = 1 \/ t[i - 1] \in space)}
           ends == {i \in DOMAIN t : t[i] \notin space /\ (i = Len(t) \/ t[i + 1] \in space)}
<1>1. n \in Nat /\ m \in Nat /\ a \in [1 .. m -> 1 .. n] /\ z \in [1 .. m -> 1 .. n]
  BY DEF Cut
<1>2. /\ \A k \in 1 .. m : \A i \in a[k] .. z[k] : t[i] \notin space
      /\ \A j, k \in 1 .. m : j < k => z[j] + 1 < a[k]
      /\ \A i \in 1 .. n : t[i] \notin space => \E k \in 1 .. m : i \in a[k] .. z[k]
  BY DEF Cut
<1>3. \A k \in 1 .. m : /\ a[k] \in 1 .. n /\ z[k] \in 1 .. n /\ a[k] <= z[k]
                        /\ t[a[k]] \notin space /\ t[z[k]] \notin space
                        /\ a[k] # 1 => t[a[k] - 1] \in space
                        /\ z[k] # n => t[z[k] + 1] \in space
  BY WordsApart
<1>4. DOMAIN t = 1 .. n
  OBVIOUS
<1>5. ASSUME NEW x PROVE x \in starts <=> \E k \in 1 .. m : x = a[k]
  <2>1. ASSUME NEW k \in 1 .. m, x = a[k] PROVE x \in starts
    BY <1>3, <1>4, <2>1
  <2>2. ASSUME x \in starts PROVE \E k \in 1 .. m : x = a[k]
    <3>1. x \in 1 .. n /\ t[x] \notin space /\ (x = 1 \/ t[x - 1] \in space)
      BY <1>4, <2>2
    <3>2. PICK k \in 1 .. m : x \in a[k] .. z[k]
      BY <1>2, <3>1
    <3>3. a[k] \in 1 .. n /\ z[k] \in 1 .. n
      BY <1>3
    <3>4. ASSUME x # a[k] PROVE FALSE
      <4>1. x # 1 /\ x - 1 \in a[k] .. z[k]
        BY <3>1, <3>2, <3>3, <3>4
      <4> QED
        BY <1>2, <3>1, <4>1
    <3> QED
      BY <3>4
  <2> HIDE DEF starts
  <2> QED
    BY <2>1, <2>2
<1>6. ASSUME NEW x PROVE x \in ends <=> \E k \in 1 .. m : x = z[k]
  <2>1. ASSUME NEW k \in 1 .. m, x = z[k] PROVE x \in ends
    BY <1>3, <1>4, <2>1
  <2>2. ASSUME x \in ends PROVE \E k \in 1 .. m : x = z[k]
    <3>1. x \in 1 .. n /\ t[x] \notin space /\ (x = n \/ t[x + 1] \in space)
      BY <1>4, <2>2
    <3>2. PICK k \in 1 .. m : x \in a[k] .. z[k]
      BY <1>2, <3>1
    <3>3. a[k] \in 1 .. n /\ z[k] \in 1 .. n
      BY <1>3
    <3>4. ASSUME x # z[k] PROVE FALSE
      <4>1. x # n /\ x + 1 \in a[k] .. z[k]
        BY <3>1, <3>2, <3>3, <3>4
      <4> QED
        BY <1>2, <3>1, <4>1
    <3> QED
      BY <3>4
  <2> HIDE DEF ends
  <2> QED
    BY <2>1, <2>2
<1> HIDE DEF starts, ends
<1>7. ASSUME NEW j \in 1 .. m, NEW k \in 1 .. m, j < k PROVE a[j] < a[k] /\ z[j] < z[k]
  <2>1. z[j] + 1 < a[k]
    BY <1>2, <1>7
  <2> QED
    BY <1>3, <2>1
<1>8. InOrder(starts) = a
  <2>1. \A j, k \in 1 .. m : j < k => a[j] < a[k]
    BY <1>7
  <2>2. \A x : x \in starts <=> \E k \in 1 .. m : x = a[k]
    BY <1>5, Zenon
  <2>3. Counts(a, m, n, starts)
    BY <1>1, <2>1, <2>2, Zenon DEF Counts
  <2> QED
    BY <2>3, InOrderIs
<1>9. InOrder(ends) = z
  <2>1. \A j, k \in 1 .. m : j < k => z[j] < z[k]
    BY <1>7
  <2>2. \A x : x \in ends <=> \E k \in 1 .. m : x = z[k]
    BY <1>6, Zenon
  <2>3. Counts(z, m, n, ends)
    BY <1>1, <2>1, <2>2, Zenon DEF Counts
  <2> QED
    BY <2>3, InOrderIs
<1>10. DOMAIN a = 1 .. m
  BY <1>1
<1>11. Words(t) = [k \in DOMAIN InOrder(starts) |-> SubSeq(t, InOrder(starts)[k], InOrder(ends)[k])]
  BY Zenon DEF Words, starts, ends
<1> QED
  BY <1>8, <1>9, <1>10, <1>11, Zenon

(* The words, given where they begin and end. *)
Texts(s, m, a, z) == [k \in 1 .. m |-> SubSeq(s, a[k], z[k])]

LEMMA SubOfFirst ==
  ASSUME NEW S, NEW s \in Seq(S), NEW n \in Nat, n <= Len(s), NEW i \in 1 .. n, NEW j \in i .. n
  PROVE  SubSeq(SubSeq(s, 1, n), i, j) = SubSeq(s, i, j)
<1> DEFINE t == SubSeq(s, 1, n)
<1>1. t \in Seq(S) /\ Len(t) = n /\ \A k \in 1 .. n : t[k] = s[k]
  BY FirstElements
<1> HIDE DEF t
<1>2. /\ SubSeq(t, i, j) \in Seq(S) /\ SubSeq(s, i, j) \in Seq(S)
      /\ Len(SubSeq(t, i, j)) = j - i + 1 /\ Len(SubSeq(s, i, j)) = j - i + 1
      /\ \A k \in 1 .. j - i + 1 : /\ SubSeq(t, i, j)[k] = t[i + k - 1]
                                   /\ SubSeq(s, i, j)[k] = s[i + k - 1]
  BY <1>1
<1>3. \A k \in 1 .. j - i + 1 : i + k - 1 \in 1 .. n
  OBVIOUS
<1>4. \A k \in 1 .. j - i + 1 : SubSeq(t, i, j)[k] = SubSeq(s, i, j)[k]
  BY <1>1, <1>2, <1>3
<1> DEFINE x == SubSeq(t, i, j)
           y == SubSeq(s, i, j)
           l == j - i + 1
<1>6. /\ x \in Seq(S) /\ y \in Seq(S) /\ l \in Nat /\ Len(x) = l /\ Len(y) = l
      /\ \A k \in 1 .. l : x[k] = y[k]
  <2>1. l \in Nat
    OBVIOUS
  <2>2. x \in Seq(S) /\ y \in Seq(S) /\ Len(x) = l /\ Len(y) = l
    BY <1>2, Zenon
  <2>3. \A k \in 1 .. l : x[k] = y[k]
    BY <1>4, Zenon
  <2> QED
    BY <2>1, <2>2, <2>3, Zenon
<1>7. x = y
  <2> HIDE DEF x, y, l
  <2> QED
    BY <1>6, SameElements
<1>5. SubSeq(t, i, j) = SubSeq(s, i, j)
  BY <1>7
<1> QED
  BY <1>5 DEF t

LEMMA WordsOfFirst ==
  ASSUME NEW S, NEW s \in Seq(S), NEW n, n <= Len(s), NEW m, NEW a, NEW z, Cut(s, n, m, a, z)
  PROVE  Words(SubSeq(s, 1, n)) = Texts(s, m, a, z)
<1> DEFINE t == SubSeq(s, 1, n)
<1>1. n \in Nat /\ m \in Nat /\ a \in [1 .. m -> 1 .. n] /\ z \in [1 .. m -> 1 .. n]
  BY DEF Cut
<1>2. /\ \A k \in 1 .. m : a[k] <= z[k]
      /\ \A k \in 1 .. m : \A i \in a[k] .. z[k] : s[i] \notin space
      /\ \A j, k \in 1 .. m : j < k => z[j] + 1 < a[k]
      /\ \A i \in 1 .. n : s[i] \notin space => \E k \in 1 .. m : i \in a[k] .. z[k]
  BY DEF Cut
<1>3. t \in Seq(S) /\ Len(t) = n /\ \A k \in 1 .. n : t[k] = s[k]
  BY <1>1, FirstElements
<1>4. \A k \in 1 .. m : a[k] \in 1 .. n /\ z[k] \in a[k] .. n
  BY <1>1, <1>2
<1>5. \A k \in 1 .. m : SubSeq(t, a[k], z[k]) = SubSeq(s, a[k], z[k])
  BY <1>1, <1>4, SubOfFirst
<1> HIDE DEF t
<1>6. \A k \in 1 .. m : \A i \in a[k] .. z[k] : t[i] \notin space
  <2> TAKE k \in 1 .. m
  <2> TAKE i \in a[k] .. z[k]
  <2>1. i \in 1 .. n
    BY <1>1, <1>4
  <2> QED
    BY <1>2, <1>3, <2>1
<1>7. \A i \in 1 .. n : t[i] \notin space => \E k \in 1 .. m : i \in a[k] .. z[k]
  BY <1>2, <1>3
<1>8. Cut(t, n, m, a, z)
  BY <1>1, <1>2, <1>6, <1>7 DEF Cut
<1>9. Words(t) = [k \in 1 .. m |-> SubSeq(t, a[k], z[k])]
  BY <1>3, <1>8, WordsAre
<1>10. Words(t) = Texts(s, m, a, z)
  BY <1>5, <1>9, Zenon DEF Texts
<1> QED
  BY <1>10 DEF t

-----------------------------------------------------------------------------
(* Lines of known characters, seen as words.                               *)

(* The words are before the place n; behind it is the end of the line or   *)
(* the colon that begins the last argument.                                *)
Frame(s, n, m, a, z) ==
  /\ s \in Seq(word \cup space) /\ n <= Len(s) /\ Cut(s, n, m, a, z)
  /\ n < Len(s) => n >= 1 /\ s[n] \in space /\ s[n + 1] = ":"
  /\ \A i \in 2 .. n : s[i - 1] \in space => s[i] # ":"

LEMMA FrameIs ==
  ASSUME NEW s, NEW n, NEW m, NEW a, NEW z, Frame(s, n, m, a, z)
  PROVE  /\ s \in Seq(word \cup space) /\ Len(s) \in Nat /\ DOMAIN s = 1 .. Len(s)
         /\ n \in Nat /\ n <= Len(s) /\ m \in Nat
         /\ a \in [1 .. m -> 1 .. n] /\ z \in [1 .. m -> 1 .. n]
         /\ \A k \in 1 .. m : a[k] \in 1 .. n /\ z[k] \in a[k] .. n
         /\ n + 1 \in DOMAIN s => s[n + 1] = ":" /\ n >= 1 /\ s[n] \in space
<1>1. Cut(s, n, m, a, z) /\ s \in Seq(word \cup space) /\ n <= Len(s)
  BY Zenon DEF Frame
<1>2. n < Len(s) => n >= 1 /\ s[n] \in space /\ s[n + 1] = ":"
  BY Zenon DEF Frame
<1>3. n \in Nat /\ m \in Nat /\ a \in [1 .. m -> 1 .. n] /\ z \in [1 .. m -> 1 .. n]
  BY <1>1 DEF Cut
<1>4. \A k \in 1 .. m : a[k] <= z[k]
  BY <1>1 DEF Cut
<1>5. Len(s) \in Nat /\ DOMAIN s = 1 .. Len(s)
  BY <1>1
<1>6. \A k \in 1 .. m : a[k] \in 1 .. n /\ z[k] \in a[k] .. n
  BY <1>3, <1>4
<1>7. n + 1 \in DOMAIN s => s[n + 1] = ":" /\ n >= 1 /\ s[n] \in space
  BY <1>2, <1>3, <1>5
<1> QED
  BY <1>1, <1>3, <1>5, <1>6, <1>7

(* A word is of word characters, stands between spaces, and begins with a colon only at the *)
(* beginning of the line.                                                                   *)
LEMMA FrameWord ==
  ASSUME NEW s, NEW n, NEW m, NEW a, NEW z, Frame(s, n, m, a, z), NEW k \in 1 .. m
  PROVE  /\ \A i \in a[k] .. z[k] : s[i] \in word /\ s[i] \notin space
         /\ z[k] + 1 \in DOMAIN s => s[z[k] + 1] \in space
         /\ a[k] # 1 => s[a[k]] \in nospcrlfcl
         /\ z[k] = n => n = Len(s)
<1>1. /\ s \in Seq(word \cup space) /\ Len(s) \in Nat /\ DOMAIN s = 1 .. Len(s)
      /\ n \in Nat /\ n <= Len(s) /\ a[k] \in 1 .. n /\ z[k] \in a[k] .. n
      /\ n + 1 \in DOMAIN s => s[n + 1] = ":" /\ n >= 1 /\ s[n] \in space
  BY FrameIs
<1>2. Cut(s, n, m, a, z)
  BY DEF Frame
<1>3. \A i \in a[k] .. z[k] : s[i] \notin space
  BY <1>2 DEF Cut
<1>4. /\ a[k] # 1 => s[a[k] - 1] \in space
      /\ z[k] # n => s[z[k] + 1] \in space
      /\ s[z[k]] \notin space
  BY <1>2, WordsApart
<1>5. ASSUME NEW i \in a[k] .. z[k] PROVE s[i] \in word
  <2>1. i \in DOMAIN s
    BY <1>1
  <2>2. s[i] \in word \cup space
    BY <1>1, <2>1
  <2> QED
    BY <1>3, <2>2
<1>6. ASSUME z[k] = n PROVE n = Len(s)
  <2>1. s[n] \notin space
    BY <1>4, <1>6, Zenon
  <2>2. n + 1 \notin DOMAIN s
    BY <1>1, <2>1, Zenon
  <2>3. n + 1 \notin 1 .. Len(s) /\ n \in Nat /\ Len(s) \in Nat /\ n <= Len(s)
    BY <1>1, <2>2, Zenon
  <2> QED
    BY <2>3
<1>7. z[k] + 1 \in DOMAIN s => s[z[k] + 1] \in space
  BY <1>1, <1>4, <1>6
<1>8. ASSUME a[k] # 1 PROVE s[a[k]] \in nospcrlfcl
  <2>1. a[k] \in 2 .. n /\ a[k] \in a[k] .. z[k]
    BY <1>1, <1>8
  <2>2. s[a[k]] # ":"
    BY <1>4, <1>8, <2>1 DEF Frame
  <2>3. s[a[k]] \in word
    BY <1>5, <2>1
  <2> QED
    BY <2>2, <2>3 DEF word
<1> QED
  BY <1>3, <1>5, <1>6, <1>7, <1>8

(* In a word, word characters reach to its end, and no space follows. *)
LEMMA StarInWord ==
  ASSUME NEW s, NEW n, NEW m, NEW a, NEW z, Frame(s, n, m, a, z), NEW k \in 1 .. m
  PROVE  /\ \A i \in a[k] .. z[k] + 1 : Star(s, i, word) = z[k] + 1
         /\ \A i \in a[k] .. z[k] : Star(s, i, space) = i
<1> DEFINE e == z[k] + 1
<1>1. /\ s \in Seq(word \cup space) /\ Len(s) \in Nat /\ DOMAIN s = 1 .. Len(s)
      /\ n \in Nat /\ n <= Len(s) /\ a[k] \in 1 .. n /\ z[k] \in a[k] .. n
  BY FrameIs
<1>2. /\ \A i \in a[k] .. z[k] : s[i] \in word /\ s[i] \notin space
      /\ e \in DOMAIN s => s[e] \in space
  BY FrameWord
<1>3. e \in DOMAIN s => s[e] \notin word
  BY <1>2, Classes
<1>4. ASSUME NEW i \in a[k] .. e PROVE Star(s, i, word) = e
  <2>1. i \in Nat /\ i # 0 /\ e \in i .. Len(s) + 1 /\ i .. e - 1 \subseteq a[k] .. z[k]
    BY <1>1
  <2>2. \A j \in i .. e - 1 : s[j] \in word
    BY <1>2, <2>1
  <2> HIDE DEF e
  <2> QED
    BY <1>1, <1>3, <2>1, <2>2, StarEnds
<1>5. ASSUME NEW i \in a[k] .. z[k] PROVE Star(s, i, space) = i
  <2>1. i \in Nat /\ i # 0 /\ i \in i .. Len(s) + 1 /\ i .. i - 1 = {}
    BY <1>1
  <2>2. i \in DOMAIN s => s[i] \notin space
    BY <1>2
  <2>3. \A j \in i .. i - 1 : s[j] \in space
    BY <2>1
  <2> QED
    BY <1>1, <2>1, <2>2, <2>3, StarEnds
<1> QED
  BY <1>4, <1>5

(* Behind a word, spaces reach to the next word, or to where the words end. *)
LEMMA StarToNextWord ==
  ASSUME NEW s, NEW n, NEW m, NEW a, NEW z, Frame(s, n, m, a, z), NEW k \in 1 .. m
  PROVE  /\ k < m => Star(s, z[k] + 1, space) = a[k + 1] /\ a[k + 1] > z[k] + 1
         /\ k = m => Star(s, z[k] + 1, space) = n + 1
<1> DEFINE b == z[k] + 1
<1>1. /\ s \in Seq(word \cup space) /\ Len(s) \in Nat /\ DOMAIN s = 1 .. Len(s)
      /\ n \in Nat /\ n <= Len(s) /\ m \in Nat
      /\ n + 1 \in DOMAIN s => s[n + 1] = ":" /\ n >= 1 /\ s[n] \in space
      /\ \A j \in 1 .. m : a[j] \in 1 .. n /\ z[j] \in a[j] .. n
  BY FrameIs
<1>2. Cut(s, n, m, a, z)
  BY DEF Frame
<1>3. \A i, j \in 1 .. m : i < j => z[i] + 1 < a[j]
  BY <1>2 DEF Cut
<1>4. \A i \in 1 .. n : s[i] \notin space => \E j \in 1 .. m : i \in a[j] .. z[j]
  BY <1>2 DEF Cut
<1>5. ASSUME NEW i \in b .. n, s[i] \notin space
      PROVE  k < m /\ a[k + 1] <= i
  <2>1. i \in 1 .. n
    BY <1>1
  <2>2. PICK j \in 1 .. m : i \in a[j] .. z[j]
    BY <1>4, <1>5, <2>1
  <2>3. k < j
    <3> SUFFICES ASSUME j <= k PROVE FALSE
      OBVIOUS
    <3>1. z[j] <= z[k]
      <4>1. CASE j = k
        BY <1>1, <4>1
      <4>2. CASE j < k
        <5>1. z[j] + 1 < a[k]
          BY <1>3, <4>2
        <5> QED
          BY <1>1, <5>1
      <4> QED
        BY <4>1, <4>2
    <3> QED
      BY <1>1, <2>2, <3>1
  <2>4. k + 1 \in 1 .. m
    BY <1>1, <2>3
  <2>5. a[k + 1] <= a[j]
    <3>1. CASE j = k + 1
      BY <1>1, <3>1
    <3>2. CASE k + 1 < j
      <4>1. z[k + 1] + 1 < a[j]
        BY <1>3, <2>4, <3>2
      <4> QED
        BY <1>1, <2>4, <4>1
    <3> QED
      BY <1>1, <2>3, <3>1, <3>2
  <2> QED
    BY <1>1, <2>2, <2>3, <2>4, <2>5
<1>6. CASE k < m
  <2> DEFINE p == a[k + 1]
  <2>1. k + 1 \in 1 .. m
    BY <1>1, <1>6
  <2>2. b < p
    BY <1>3, <1>6, <2>1
  <2>3. p \in 1 .. n /\ s[p] \notin space
    BY <1>1, <1>2, <2>1, WordsApart
  <2>4. /\ b \in Nat /\ b # 0 /\ p \in b .. Len(s) + 1 /\ b .. p - 1 \subseteq b .. n
        /\ \A i \in b .. p - 1 : ~ (p <= i)
    <3>1. /\ b \in Nat /\ b # 0 /\ p \in 1 .. n
          /\ Len(s) \in Nat /\ n \in Nat /\ n <= Len(s) /\ b < p
      BY <1>1, <2>2, <2>3
    <3> HIDE DEF b, p
    <3> QED
      BY <3>1
  <2>5. \A i \in b .. p - 1 : s[i] \in space
    BY <1>5, <2>4
  <2> HIDE DEF b, p
  <2>6. Star(s, b, space) = p
    BY <1>1, <2>3, <2>4, <2>5, StarEnds
  <2> QED
    BY <1>6, <2>2, <2>4, <2>6 DEF b, p
<1>7. CASE k = m
  <2> DEFINE p == n + 1
  <2>1. b \in Nat /\ b # 0 /\ p \in b .. Len(s) + 1 /\ b .. p - 1 = b .. n
    BY <1>1
  <2>2. ASSUME NEW i \in b .. p - 1 PROVE s[i] \in space
    <3>1. i \in b .. n /\ ~ (k < m)
      BY <1>1, <1>7, <2>1
    <3> QED
      BY <1>5, <3>1
  <2>3. p \in DOMAIN s => s[p] \notin space
    BY <1>1, Classes
  <2> HIDE DEF b, p
  <2>4. Star(s, b, space) = p
    BY <1>1, <2>1, <2>2, <2>3, StarEnds
  <2> QED
    BY <1>7, <2>4 DEF b, p
<1> QED
  BY <1>1, <1>6, <1>7

-----------------------------------------------------------------------------
(* What the rules take of such a line.                                     *)

LEMMA BehindNext ==
  ASSUME NEW S, NEW ws \in Seq(S), NEW k \in Nat, k < Len(ws)
  PROVE  <<ws[k + 1]>> \o Behind(ws, k + 1) = Behind(ws, k)
<1> DEFINE l == k + 1
           h == <<ws[l]>>
           b == Behind(ws, l)
           c == Behind(ws, k)
           n == Len(ws) - l
<1>1. /\ l \in Nat /\ l <= Len(ws) /\ k <= Len(ws) /\ n \in Nat /\ Len(ws) - k = 1 + n
      /\ l = k + 1 /\ ws[l] \in S /\ Len(ws) \in Nat
  OBVIOUS
<1>2. h \in Seq(S) /\ Len(h) = 1 /\ h[1] = ws[l]
  BY <1>1
<1>3. b \in Seq(S) /\ Len(b) = n /\ \A i \in 1 .. n : b[i] = ws[l + i]
  BY <1>1, BehindElements
<1>4. c \in Seq(S) /\ Len(c) = 1 + n /\ \A i \in 1 .. 1 + n : c[i] = ws[k + i]
  <2>1. /\ c \in Seq(S) /\ Len(c) = Len(ws) - k
        /\ \A i \in 1 .. Len(ws) - k : c[i] = ws[k + i]
    BY <1>1, BehindElements
  <2> HIDE DEF c, n
  <2> QED
    BY <1>1, <2>1, Zenon
<1> HIDE DEF h, b, c, n, l
<1>5. \A i \in 1 .. 1 : c[i] = h[i]
  BY <1>1, <1>2, <1>4
<1>6. \A i \in 1 .. n : c[1 + i] = b[i]
  <2> TAKE i \in 1 .. n
  <2>1. 1 + i \in 1 .. 1 + n /\ k + (1 + i) = l + i
    BY <1>1
  <2>2. c[1 + i] = ws[k + (1 + i)]
    BY <1>4, <2>1
  <2> QED
    BY <1>3, <2>1, <2>2
<1>7. Len(c) = Len(h) + Len(b)
  BY <1>2, <1>3, <1>4
<1>8. /\ \A i \in 1 .. Len(h) : c[i] = h[i]
      /\ \A i \in 1 .. Len(b) : c[Len(h) + i] = b[i]
  BY <1>2, <1>3, <1>5, <1>6, Zenon
<1>9. c = h \o b
  BY <1>2, <1>3, <1>4, <1>7, <1>8, PutTogether
<1> QED
  BY <1>9 DEF h, b, c, l

LEMMA WordIs ==
  ASSUME NEW s, NEW n, NEW m, NEW a, NEW z, Frame(s, n, m, a, z), NEW k \in 1 .. m,
         NEW w, w = Texts(s, m, a, z)[k]
  PROVE  /\ w \in Seq(word \cup space) /\ w = SubSeq(s, a[k], z[k])
         /\ Len(w) = z[k] - a[k] + 1
         /\ \A i \in 1 .. z[k] - a[k] + 1 : w[i] = s[a[k] + i - 1]
<1> DEFINE i == a[k]
           j == z[k]
<1>1. /\ s \in Seq(word \cup space) /\ Len(s) \in Nat /\ n \in Nat /\ n <= Len(s)
      /\ i \in 1 .. n /\ j \in i .. n
  BY FrameIs
<1>2. w = SubSeq(s, i, j)
  BY DEF Texts
<1> HIDE DEF i, j
<1>3. i \in 1 .. Len(s) /\ j \in 1 .. Len(s) /\ i <= j
  BY <1>1
<1>4. /\ SubSeq(s, i, j) \in Seq(word \cup space)
      /\ Len(SubSeq(s, i, j)) = j - i + 1
      /\ \A l \in 1 .. j - i + 1 : SubSeq(s, i, j)[l] = s[i + l - 1]
  BY <1>1, <1>3
<1> QED
  BY <1>2, <1>4, Zenon DEF i, j

LEMMA TextsAre ==
  ASSUME NEW s, NEW n, NEW m, NEW a, NEW z, Frame(s, n, m, a, z)
  PROVE  /\ Texts(s, m, a, z) \in Seq(Seq(word \cup space))
         /\ Len(Texts(s, m, a, z)) = m
         /\ \A k \in 1 .. m : Texts(s, m, a, z)[k] = SubSeq(s, a[k], z[k])
<1> DEFINE ws == Texts(s, m, a, z)
           T == Seq(word \cup space)
<1>1. m \in Nat
  BY FrameIs
<1>2. ASSUME NEW k \in 1 .. m PROVE ws[k] \in T /\ ws[k] = SubSeq(s, a[k], z[k])
  <2> DEFINE w == ws[k]
  <2>1. w = Texts(s, m, a, z)[k]
    OBVIOUS
  <2> HIDE DEF w
  <2>2. w \in Seq(word \cup space) /\ w = SubSeq(s, a[k], z[k])
    BY <2>1, WordIs
  <2> QED
    BY <2>2 DEF w
<1>3. ws = [k \in 1 .. m |-> SubSeq(s, a[k], z[k])]
  BY DEF Texts
<1> HIDE DEF ws, T
<1>4. ws \in Seq(T) /\ Len(ws) = m
  BY <1>1, <1>2, <1>3
<1> QED
  BY <1>2, <1>4 DEF ws, T

(* Behind a word, the words that follow are the parameters. *)
LEMMA ParamsAreWords ==
  ASSUME NEW s, NEW n, NEW m, NEW a, NEW z, Frame(s, n, m, a, z), NEW k \in 1 .. m
  PROVE  params(s, z[k] + 1) = [args |-> Behind(Texts(s, m, a, z), k), next |-> z[m] + 1]
<1> DEFINE ws == Texts(s, m, a, z)
           Is(j) == params(s, z[j] + 1) = [args |-> Behind(ws, j), next |-> z[m] + 1]
           Good == {i \in Nat : i < m => Is(m - i)}
<1>1. /\ s \in Seq(word \cup space) /\ Len(s) \in Nat /\ DOMAIN s = 1 .. Len(s)
      /\ n \in Nat /\ n <= Len(s) /\ m \in Nat
      /\ n + 1 \in DOMAIN s => s[n + 1] = ":" /\ n >= 1 /\ s[n] \in space
      /\ \A j \in 1 .. m : a[j] \in 1 .. n /\ z[j] \in a[j] .. n
  BY FrameIs
<1>2. /\ ws \in Seq(Seq(word \cup space)) /\ Len(ws) = m
      /\ \A j \in 1 .. m : ws[j] = SubSeq(s, a[j], z[j])
  BY TextsAre
<1>3. ASSUME NEW j \in 1 .. m PROVE z[j] + 1 \in 1 .. Len(s) + 1
  <2>1. /\ a[j] \in 1 .. n /\ z[j] \in a[j] .. n
        /\ Len(s) \in Nat /\ n \in Nat /\ n <= Len(s)
    BY <1>1
  <2> QED
    BY <2>1
<1>4. m \in 1 .. m
  BY <1>1
<1>5. 0 \in Good
  <2> DEFINE b == z[m] + 1
  <2>1. b \in 1 .. Len(s) + 1
    BY <1>3, <1>4
  <2>2. Star(s, b, space) = n + 1
    BY <1>4, StarToNextWord
  <2>3. ~ At(s, n + 1, nospcrlfcl)
    BY <1>1, Classes DEF At
  <2>4. b = z[m] + 1 /\ m - 0 = m
    BY <1>1
  <2> HIDE DEF b
  <2>5. params(s, b) = [args |-> <<>>, next |-> b]
    BY <1>1, <2>1, <2>2, <2>3, NoneTaken
  <2>6. Behind(ws, m) = <<>>
    <3> HIDE DEF ws
    <3>1. Behind(ws, m) \in Seq(Seq(word \cup space)) /\ Len(Behind(ws, m)) = Len(ws) - m
      <4>1. m <= Len(ws)
        BY <1>1, <1>2
      <4> QED
        BY <1>1, <1>2, <4>1, BehindElements, Zenon
    <3>2. Len(ws) - m = 0
      BY <1>1, <1>2
    <3> QED
      BY <3>1, <3>2, EmptySeq
  <2> HIDE DEF ws
  <2>7. Is(m)
    BY <2>4, <2>5, <2>6, Zenon
  <2>8. Is(m - 0)
    BY <2>4, <2>7, Zenon
  <2> HIDE DEF Is
  <2> QED
    BY <2>8
<1>6. ASSUME NEW i \in Nat, i \in Good PROVE i + 1 \in Good
  <2> SUFFICES ASSUME i + 1 < m PROVE Is(m - (i + 1))
    BY <1>6
  <2> DEFINE j == m - (i + 1)
             l == j + 1
             b == z[j] + 1
             p == a[l]
             e == z[l] + 1
  <2>1. j \in 1 .. m /\ l \in 1 .. m /\ j < m /\ j \in Nat /\ m - i = l /\ i < m /\ j + 1 = l
    BY <1>1
  <2>2. Is(l)
    BY <1>6, <2>1
  <2>3. j = m - (i + 1)
    OBVIOUS
  <2> HIDE DEF j, l
  <2>4. Star(s, b, space) = p /\ p > b
    BY <2>1, StarToNextWord
  <2>5. p \in 1 .. n /\ z[l] \in p .. n /\ p \in p .. z[l] + 1 /\ e - 1 = z[l] /\ p # 1
    <3>1. z[j] \in Nat
      BY <1>1, <2>1
    <3> QED
      BY <1>1, <2>1, <2>4, <3>1
  <2>6. Star(s, p, word) = e
    BY <2>1, <2>5, StarInWord
  <2>7. At(s, p, nospcrlfcl)
    <3>1. s[p] \in nospcrlfcl
      BY <2>1, <2>5, FrameWord
    <3>2. p \in DOMAIN s
      BY <1>1, <2>5
    <3> QED
      BY <3>1, <3>2 DEF At
  <2>8. b \in 1 .. Len(s) + 1
    BY <1>3, <2>1
  <2>9. SubSeq(s, p, e - 1) = ws[l]
    BY <1>2, <2>1, <2>5, Zenon
  <2>10. b = z[j] + 1 /\ e = z[l] + 1
    OBVIOUS
  <2> HIDE DEF b, p, e
  <2>11. params(s, b) = [args |-> <<SubSeq(s, p, e - 1)>> \o params(s, e).args,
                         next |-> params(s, e).next]
    <3>1. Takes(s, b, p, e)
      BY <2>4, <2>6, <2>7, Zenon DEF Takes
    <3> QED
      <4> DEFINE S == word \cup space
      <4>1. s \in Seq(S)
        BY <1>1
      <4> HIDE DEF S
      <4> QED
        BY <2>8, <3>1, <4>1, ParamTaken
  <2>12. params(s, e) = [args |-> Behind(ws, l), next |-> z[m] + 1]
    BY <2>2, <2>10, Zenon
  <2>13. <<ws[l]>> \o Behind(ws, l) = Behind(ws, j)
    <3> HIDE DEF ws
    <3>1. <<ws[j + 1]>> \o Behind(ws, j + 1) = Behind(ws, j)
      BY <1>2, <2>1, BehindNext
    <3> QED
      BY <2>1, <3>1, Zenon
  <2> HIDE DEF ws
  <2>14. params(s, e).args = Behind(ws, l) /\ params(s, e).next = z[m] + 1
    BY <2>12
  <2>15. params(s, b) = [args |-> Behind(ws, j), next |-> z[m] + 1]
    BY <2>9, <2>11, <2>13, <2>14, Zenon
  <2>16. Is(j)
    BY <2>10, <2>15, Zenon
  <2> HIDE DEF Is
  <2> QED
    BY <2>3, <2>16
<1> HIDE DEF Good
<1>7. Nat \subseteq Good
  BY <1>5, <1>6, FromZeroOn
<1>8. m - k \in Nat /\ m - k < m /\ m - (m - k) = k
  BY <1>1
<1>9. m - k \in Good
  BY <1>7, <1>8
<1> HIDE DEF Is
<1>10. Is(k)
  BY <1>8, <1>9 DEF Good
<1> QED
  BY <1>10 DEF Is

(* What is behind the colon, if there is one. *)
LastArg(s, n) == IF n < Len(s) THEN <<SubSeq(s, n + 2, Len(s))>> ELSE <<>>

(* No space is left over. *)
Complete(s, n) == n < Len(s) \/ s[n] \notin space

(* The last argument is the trailing parameter, and the line ends behind it. *)
LEMMA TrailingIsLast ==
  ASSUME NEW s, NEW n, NEW m, NEW a, NEW z, Frame(s, n, m, a, z), m # 0
  PROVE  /\ trailing_param(s, z[m] + 1).args = LastArg(s, n)
         /\ trailing_param(s, z[m] + 1).next = Len(s) + 1 <=> Complete(s, n)
<1> DEFINE b == z[m] + 1
           p == n + 1
           t == trailing_param(s, b)
<1>8. m \in 1 .. m
  <2>1. m \in Nat
    BY FrameIs
  <2> QED
    BY <2>1
<1>1. /\ s \in Seq(word \cup space) /\ Len(s) \in Nat /\ DOMAIN s = 1 .. Len(s)
      /\ n \in Nat /\ n <= Len(s) /\ m \in Nat
      /\ a[m] \in 1 .. n /\ z[m] \in a[m] .. n
      /\ p \in DOMAIN s => s[p] = ":" /\ n >= 1 /\ s[n] \in space
  BY <1>8, FrameIs
<1>0. n \in Nat /\ Len(s) \in Nat /\ DOMAIN s = 1 .. Len(s) /\ n <= Len(s)
  BY FrameIs
<1>2. /\ \A i \in a[m] .. z[m] : s[i] \in word /\ s[i] \notin space
      /\ z[m] = n => n = Len(s)
  BY <1>8, FrameWord
<1>3. Star(s, b, space) = p
  BY <1>8, StarToNextWord
<1>4. b \in 1 .. Len(s) + 1 /\ b <= p /\ (z[m] # n => b <= n) /\ p = n + 1 /\ b = z[m] + 1
  BY <1>1
<1> HIDE DEF b, p
<1>5. CASE n < Len(s)
  <2> DEFINE q == p + 1
             e == Len(s) + 1
  <2>0. p \in DOMAIN s /\ p > b
    <3>1. n \in Nat /\ Len(s) \in Nat /\ DOMAIN s = 1 .. Len(s) /\ p = n + 1
      BY <1>0, <1>4
    <3>4. n # Len(s)
      <4> DEFINE l == Len(s)
      <4>1. n \in Nat /\ l \in Nat /\ n < l
        BY <1>5, <3>1
      <4> HIDE DEF l
      <4>2. n # l
        BY <4>1
      <4> QED
        BY <4>2 DEF l
    <3>2. z[m] # n
      BY <1>2, <3>4, Zenon
    <3>3. b <= n /\ b \in Nat
      BY <1>4, <3>2
    <3> QED
      BY <1>5, <3>1, <3>3
  <2>1. /\ p \in DOMAIN s /\ p > b /\ s[p] \in {":"} /\ q \in Nat /\ q # 0 /\ e \in q .. Len(s) + 1
        /\ e \notin DOMAIN s /\ q .. e - 1 \subseteq 1 .. Len(s) /\ e - 1 = Len(s) /\ q = n + 2
    <3>1. s[p] \in {":"}
      BY <1>1, <2>0, Zenon
    <3>2. n \in Nat /\ Len(s) \in Nat /\ DOMAIN s = 1 .. Len(s) /\ p = n + 1
      BY <1>0, <1>4
    <3> QED
      BY <1>5, <2>0, <3>1, <3>2
  <2>2. \A i \in q .. e - 1 : s[i] \in word \cup space
    <3> TAKE i \in q .. e - 1
    <3>1. i \in 1 .. Len(s)
      BY <2>1
    <3> QED
      BY <1>1, <3>1
  <2>3. At(s, p, {":"})
    BY <2>1, Zenon DEF At
  <2> HIDE DEF q, e
  <2>4. Star(s, q, word \cup space) = e
    BY <1>1, <2>1, <2>2, StarEnds
  <2>5. t = [args |-> <<SubSeq(s, q, e - 1)>>, next |-> e]
    BY <1>3, <2>1, <2>3, <2>4, Zenon DEF trailing_param, q
  <2>6. SubSeq(s, q, e - 1) = SubSeq(s, n + 2, Len(s))
    BY <2>1, Zenon
  <2> HIDE DEF t
  <2>7. t.args = <<SubSeq(s, n + 2, Len(s))>> /\ t.next = e
    BY <2>5, <2>6
  <2>8. t.args = LastArg(s, n) /\ t.next = Len(s) + 1 /\ Complete(s, n)
    BY <1>5, <2>7, Zenon DEF LastArg, Complete, e
  <2> QED
    BY <1>4, <2>8, Zenon DEF t
<1>6. CASE n = Len(s)
  <2>1. p \notin DOMAIN s
    BY <1>1, <1>4, <1>6
  <2>2. ~ At(s, p, {":"})
    BY <2>1, Zenon DEF At
  <2>3. t = [args |-> <<>>, next |-> b]
    BY <1>3, <2>2, Zenon DEF trailing_param
  <2> HIDE DEF t
  <2>4. t.args = <<>> /\ t.next = b /\ ~ (n < Len(s))
    BY <1>1, <1>6, <2>3
  <2>5. t.args = LastArg(s, n)
    BY <2>4, Zenon DEF LastArg
  <2>6. ASSUME z[m] = n PROVE t.next = Len(s) + 1 /\ s[n] \notin space
    <3>1. z[m] \in a[m] .. z[m]
      BY <1>1
    <3>2. s[z[m]] \notin space
      BY <1>2, <3>1
    <3>3. s[n] \notin space
      BY <2>6, <3>2, Zenon
    <3> QED
      BY <1>4, <1>6, <2>4, <2>6, <3>3
  <2>7. ASSUME z[m] # n PROVE t.next # Len(s) + 1 /\ s[n] \in space
    <3>1. \A i \in b .. p - 1 : s[i] \in space
      BY <1>1, <1>3, <1>4, StarIs
    <3>2. n \in b .. p - 1 /\ b # Len(s) + 1
      BY <1>1, <1>4, <1>6, <2>7
    <3> QED
      BY <2>4, <3>1, <3>2
  <2>8. t.next = Len(s) + 1 <=> Complete(s, n)
    BY <2>4, <2>6, <2>7, Zenon DEF Complete
  <2> QED
    BY <1>4, <2>5, <2>8, Zenon DEF t
<1>7. n < Len(s) \/ n = Len(s)
  <2> DEFINE l == Len(s)
  <2>1. n \in Nat /\ l \in Nat /\ n <= l
    BY <1>0
  <2> HIDE DEF l
  <2>2. n < l \/ n = l
    BY <2>1
  <2> QED
    BY <2>2 DEF l
<1> QED
  BY <1>5, <1>6, <1>7

LEMMA RangeOfWord ==
  ASSUME NEW s, NEW n, NEW m, NEW a, NEW z, Frame(s, n, m, a, z), NEW k \in 1 .. m, NEW class
  PROVE  Range(Texts(s, m, a, z)[k]) \subseteq class <=> \A i \in a[k] .. z[k] : s[i] \in class
<1> DEFINE w == Texts(s, m, a, z)[k]
           l == z[k] - a[k] + 1
<1>2. n \in Nat /\ a[k] \in 1 .. n /\ z[k] \in a[k] .. n
  BY FrameIs
<1>3. w \in Seq(word \cup space) /\ Len(w) = l /\ \A i \in 1 .. l : w[i] = s[a[k] + i - 1]
  BY WordIs
<1> HIDE DEF w
<1>4. DOMAIN w = 1 .. l
  BY <1>3
<1>5. ASSUME Range(w) \subseteq class, NEW i \in a[k] .. z[k] PROVE s[i] \in class
  <2> DEFINE j == i - a[k] + 1
  <2>1. j \in 1 .. l /\ a[k] + j - 1 = i
    BY <1>2
  <2> HIDE DEF j, l
  <2>2. w[j] = s[i]
    BY <1>3, <2>1
  <2> QED
    BY <1>4, <1>5, <2>1, <2>2 DEF Range
<1>6. ASSUME \A i \in a[k] .. z[k] : s[i] \in class PROVE Range(w) \subseteq class
  <2> SUFFICES ASSUME NEW j \in 1 .. l PROVE w[j] \in class
    BY <1>4 DEF Range
  <2>1. a[k] + j - 1 \in a[k] .. z[k]
    BY <1>2
  <2> QED
    BY <1>3, <1>6, <2>1
<1>7. Range(w) \subseteq class <=> \A i \in a[k] .. z[k] : s[i] \in class
  BY <1>5, <1>6
<1> QED
  BY <1>7 DEF w

(* A word that is a command is taken whole as one; of another word the     *)
(* rule takes less, or nothing.                                            *)
LEMMA CommandOfWord ==
  ASSUME NEW s, NEW n, NEW m, NEW a, NEW z, Frame(s, n, m, a, z), NEW k \in 1 .. m
  PROVE  IF IsCommand(Texts(s, m, a, z)[k]) THEN command(s, a[k]) = z[k] + 1
         ELSE command(s, a[k]) \in a[k] .. z[k]
<1> DEFINE i == a[k]
           y == z[k]
           w == Texts(s, m, a, z)[k]
           e == Star(s, i, upper)
           Digits == \A j \in i .. i + 2 : At(s, j, digit)
<1>1. /\ s \in Seq(word \cup space) /\ Len(s) \in Nat /\ DOMAIN s = 1 .. Len(s)
      /\ n \in Nat /\ n <= Len(s) /\ i \in 1 .. n /\ y \in i .. n
  BY FrameIs
<1>2. /\ \A j \in i .. y : s[j] \in word /\ s[j] \notin space
      /\ y + 1 \in DOMAIN s => s[y + 1] \in space
  BY FrameWord
<1>3. \A class : Range(w) \subseteq class <=> \A j \in i .. y : s[j] \in class
  BY RangeOfWord, Zenon
<1>4. Len(w) = y - i + 1
  BY WordIs
<1>5. i \in 1 .. Len(s) + 1 /\ i \in DOMAIN s
  BY <1>1
<1>6. /\ e \in i .. Len(s) + 1 /\ \A j \in i .. e - 1 : s[j] \in upper
      /\ e \in DOMAIN s => s[e] \notin upper
  BY <1>1, <1>5, StarIs
<1>7. IsCommand(w) <=> \/ \A j \in i .. y : s[j] \in upper
                       \/ y - i + 1 = 3 /\ \A j \in i .. y : s[j] \in digit
  BY <1>3, <1>4, Zenon DEF IsCommand
<1>8. command(s, i) = IF e > i THEN e ELSE IF Digits THEN i + 3 ELSE i
  BY Zenon DEF command
<1>9. (\A c \in space : c \notin upper /\ c \notin digit) /\ (\A c \in digit : c \notin upper)
  <2>1. upper \subseteq word /\ digit \subseteq word /\ \A c \in digit : c \notin upper
    BY DEF word, nospcrlfcl, upper, digit, Named
  <2> QED
    BY <2>1, Classes
<1> HIDE DEF i, y, w, e
<1>10. CASE e > i
  <2>1. command(s, i) = e
    BY <1>8, <1>10
  <2>2. e <= y + 1
    <3> SUFFICES ASSUME y + 1 < e PROVE FALSE
      BY <1>1, <1>6
    <3>1. y + 1 \in i .. e - 1 /\ y + 1 \in DOMAIN s
      BY <1>1, <1>6
    <3> QED
      BY <1>2, <1>6, <1>9, <3>1
  <2>3. s[i] \in upper /\ i \in i .. y
    <3>1. i \in i .. e - 1
      BY <1>1, <1>6, <1>10
    <3> QED
      BY <1>1, <1>6, <3>1
  <2>4. IsCommand(w) <=> \A j \in i .. y : s[j] \in upper
    BY <1>7, <1>9, <2>3
  <2>5. ASSUME \A j \in i .. y : s[j] \in upper PROVE e = y + 1
    <3> SUFFICES ASSUME e # y + 1 PROVE FALSE
      OBVIOUS
    <3>1. e \in i .. y /\ e \in DOMAIN s
      BY <1>1, <1>6, <2>2
    <3> QED
      BY <1>6, <2>5, <3>1
  <2>6. ASSUME NEW j \in i .. y, s[j] \notin upper PROVE e \in i .. y
    <3>1. j \notin i .. e - 1
      BY <1>6, <2>6
    <3> QED
      BY <1>1, <1>6, <2>2, <3>1
  <2>7. CASE IsCommand(w)
    BY <2>1, <2>4, <2>5, <2>7 DEF i, y, w
  <2>8. CASE ~ IsCommand(w)
    BY <2>1, <2>4, <2>6, <2>8 DEF i, y, w
  <2> QED
    BY <2>7, <2>8
<1>11. CASE ~ (e > i)
  <2>1. e = i /\ i \in i .. y
    BY <1>1, <1>6, <1>11
  <2>2. s[i] \notin upper
    BY <1>5, <1>6, <2>1, Zenon
  <2>3. IsCommand(w) <=> y - i + 1 = 3 /\ \A j \in i .. y : s[j] \in digit
    BY <1>7, <2>1, <2>2
  <2>4. CASE Digits
    <3>1. command(s, i) = i + 3
      BY <1>8, <1>11, <2>4
    <3>2. i + 2 <= y
      <4> SUFFICES ASSUME y < i + 2 PROVE FALSE
        BY <1>1
      <4>1. y + 1 \in i .. i + 2
        BY <1>1
      <4>2. y + 1 \in DOMAIN s /\ s[y + 1] \in digit
        BY <2>4, <4>1 DEF At
      <4> QED
        BY <1>2, <1>9, <4>2
    <3>3. y - i + 1 = 3 => \A j \in i .. y : s[j] \in digit
      <4> SUFFICES ASSUME y - i + 1 = 3, NEW j \in i .. y PROVE s[j] \in digit
        OBVIOUS
      <4>1. j \in i .. i + 2
        BY <1>1
      <4> QED
        BY <2>4, <4>1 DEF At
    <3>4. IsCommand(w) <=> y - i + 1 = 3
      BY <2>3, <3>3
    <3>5. IsCommand(w) => i + 3 = y + 1
      BY <1>1, <3>4
    <3>6. ~ IsCommand(w) => i + 3 \in i .. y
      BY <1>1, <3>2, <3>4
    <3> QED
      BY <3>1, <3>5, <3>6, Zenon DEF i, y, w
  <2>5. CASE ~ Digits
    <3>1. command(s, i) = i
      BY <1>8, <1>11, <2>5
    <3>2. ~ IsCommand(w)
      <4> SUFFICES ASSUME y - i + 1 = 3, \A j \in i .. y : s[j] \in digit PROVE Digits
        BY <2>3, <2>5
      <4> TAKE j \in i .. i + 2
      <4>1. j \in i .. y /\ j \in DOMAIN s
        BY <1>1
      <4> QED
        BY <4>1 DEF At
    <3> QED
      BY <2>1, <3>1, <3>2, Zenon DEF i, y, w
  <2> QED
    BY <2>4, <2>5
<1> QED
  BY <1>10, <1>11

(* In the middle of a word there is no parameter and no last argument. *)
LEMMA NothingInWord ==
  ASSUME NEW s, NEW n, NEW m, NEW a, NEW z, Frame(s, n, m, a, z), NEW k \in 1 .. m,
         NEW e \in a[k] .. z[k]
  PROVE  params(s, e).next = e /\ trailing_param(s, e).next = e /\ e # Len(s) + 1
<1>1. /\ s \in Seq(word \cup space) /\ Len(s) \in Nat /\ n \in Nat /\ n <= Len(s)
      /\ a[k] \in 1 .. n /\ z[k] \in a[k] .. n
  BY FrameIs
<1>2. Star(s, e, space) = e
  BY StarInWord
<1>3. e \in 1 .. Len(s) + 1 /\ e # Len(s) + 1 /\ ~ (e > e)
  BY <1>1
<1>4. ~ (Star(s, e, space) > e)
  BY <1>2, <1>3, Zenon
<1>5. params(s, e) = [args |-> <<>>, next |-> e]
  BY <1>1, <1>3, <1>4, NoneTaken, Zenon
<1>6. trailing_param(s, e) = [args |-> <<>>, next |-> e]
  BY <1>4, Zenon DEF trailing_param
<1> QED
  BY <1>3, <1>5, <1>6

(* What is made of a command, the words behind it and the last argument. *)
LEMMA FromCommand ==
  ASSUME NEW s, NEW n, NEW m, NEW a, NEW z, Frame(s, n, m, a, z), NEW k \in 1 .. m,
         NEW ws, ws = Texts(s, m, a, z), prefix(s).next = a[k]
  PROVE  parse_irc_line(s) =
           IF IsCommand(ws[k]) /\ Complete(s, n)
           THEN {[prefix  |-> prefix(s).text,
                  command |-> CommandOf(ws[k]),
                  args    |-> Behind(ws, k) \o LastArg(s, n)]}
           ELSE {}
<1> DEFINE e == command(s, a[k])
           middle == params(s, e)
           last == trailing_param(s, middle.next)
<1>1. n \in Nat /\ a[k] \in 1 .. n /\ z[k] \in a[k] .. n /\ m \in Nat
  BY FrameIs
<1>2. parse_irc_line(s) =
        IF e > a[k] /\ last.next = Len(s) + 1
        THEN {[prefix  |-> prefix(s).text,
               command |-> CommandOf(SubSeq(s, a[k], e - 1)),
               args    |-> middle.args \o last.args]}
        ELSE {}
  BY Zenon DEF parse_irc_line
<1>3. IF IsCommand(ws[k]) THEN e = z[k] + 1 ELSE e \in a[k] .. z[k]
  BY CommandOfWord, Zenon
<1>4. CASE ~ IsCommand(ws[k])
  <2>1. e \in a[k] .. z[k]
    BY <1>3, <1>4
  <2>2. middle.next = e /\ trailing_param(s, e).next = e /\ e # Len(s) + 1
    BY <2>1, NothingInWord
  <2>3. last.next # Len(s) + 1
    BY <2>2, Zenon
  <2> QED
    BY <1>2, <1>4, <2>3, Zenon
<1>5. CASE IsCommand(ws[k])
  <2>1. e = z[k] + 1
    BY <1>3, <1>5
  <2>2. e > a[k] /\ e - 1 = z[k] /\ m # 0
    BY <1>1, <2>1
  <2>3. params(s, z[k] + 1) = [args |-> Behind(ws, k), next |-> z[m] + 1]
    BY ParamsAreWords
  <2>4. middle = [args |-> Behind(ws, k), next |-> z[m] + 1]
    BY <2>1, <2>3, Zenon
  <2> HIDE DEF middle
  <2>5. middle.args = Behind(ws, k) /\ middle.next = z[m] + 1
    BY <2>4
  <2>6. /\ trailing_param(s, z[m] + 1).args = LastArg(s, n)
        /\ trailing_param(s, z[m] + 1).next = Len(s) + 1 <=> Complete(s, n)
    BY <2>2, TrailingIsLast, Zenon
  <2>7. last.args = LastArg(s, n) /\ (last.next = Len(s) + 1 <=> Complete(s, n))
    BY <2>5, <2>6, Zenon
  <2> DEFINE w == Texts(s, m, a, z)[k]
  <2>8. w = SubSeq(s, a[k], z[k])
    BY WordIs
  <2>9. ws[k] = SubSeq(s, a[k], z[k])
    BY <2>8, Zenon
  <2> HIDE DEF e, last
  <2> QED
    BY <1>2, <1>5, <2>2, <2>5, <2>7, <2>9, Zenon
<1> QED
  BY <1>4, <1>5

(* No command is where neither a letter nor a digit is, and so no line. *)
LEMMA NoCommand ==
  ASSUME NEW S, NEW s \in Seq(S), NEW i \in 1 .. Len(s) + 1, prefix(s).next = i,
         i \in DOMAIN s => s[i] \notin upper /\ s[i] \notin digit
  PROVE  parse_irc_line(s) = {}
<1>1. /\ i \in Nat /\ i # 0 /\ i \in i .. Len(s) + 1
      /\ i .. i - 1 = {} /\ i \in i .. i + 2 /\ ~ (i > i)
  OBVIOUS
<1>2. Star(s, i, upper) = i
  <2>1. \A j \in i .. i - 1 : s[j] \in upper
    BY <1>1
  <2> QED
    BY <1>1, <2>1, StarEnds
<1>3. ~ At(s, i, digit)
  BY DEF At
<1>4. ~ \A k \in i .. i + 2 : At(s, k, digit)
  BY <1>1, <1>3, Zenon
<1>5. command(s, i) = i
  BY <1>1, <1>2, <1>4, Zenon DEF command
<1>6. ~ (command(s, prefix(s).next) > prefix(s).next)
  BY <1>1, <1>5, Zenon
<1> QED
  BY <1>6, Zenon DEF parse_irc_line

LEMMA NoPrefix ==
  ASSUME NEW s, ~ At(s, 1, {":"})
  PROVE  prefix(s).text = {} /\ prefix(s).next = 1
<1>1. prefix(s) = [text |-> {}, next |-> 1]
  BY Zenon DEF prefix
<1> QED
  BY <1>1

-----------------------------------------------------------------------------
(* The line, split.                                                        *)

Colons(s) == {i \in 2 .. Len(s) : s[i - 1] \in space /\ s[i] = ":"}

(* n is where the words end. *)
EndsAt(s, n) == IF Colons(s) = {} THEN n = Len(s) ELSE n < Len(s) /\ Min(Colons(s)) = n + 1

LEMMA MinIs ==
  ASSUME NEW S \in SUBSET Nat, NEW c \in S, \A i \in S : c <= i
  PROVE  Min(S) = c
<1> DEFINE x == Min(S)
<1>1. x \in S /\ \A i \in S : x <= i
  <2>1. x = CHOOSE y \in S : \A i \in S : y <= i
    BY DEF Min
  <2> HIDE DEF x
  <2> QED
    BY <2>1
<1> HIDE DEF x
<1>2. x <= c /\ c <= x /\ x \in Nat /\ c \in Nat
  BY <1>1
<1>3. x = c
  BY <1>2
<1> QED
  BY <1>3 DEF x

LEMMA FrameExists ==
  ASSUME NEW s \in Seq(word \cup space)
  PROVE  \E n, m, a, z : Frame(s, n, m, a, z) /\ EndsAt(s, n)
<1> DEFINE l == Len(s)
<1>1. l \in Nat /\ Colons(s) \in SUBSET Nat
  BY DEF Colons
<1>2. \E n \in Nat : /\ n <= Len(s) /\ EndsAt(s, n)
                     /\ n < Len(s) => n >= 1 /\ s[n] \in space /\ s[n + 1] = ":"
                     /\ \A i \in 2 .. n : s[i - 1] \in space => s[i] # ":"
  <2>1. CASE Colons(s) = {}
    <3>1. EndsAt(s, Len(s))
      BY <2>1, Zenon DEF EndsAt
    <3>2. \A i \in 2 .. Len(s) : s[i - 1] \in space => s[i] # ":"
      BY <2>1 DEF Colons
    <3>3. l <= l /\ ~ (l < l)
      BY <1>1
    <3> QED
      BY <1>1, <3>1, <3>2, <3>3, Zenon
  <2>2. CASE Colons(s) # {}
    <3>1. PICK c \in Colons(s) : \A i \in Colons(s) : c <= i
      BY <1>1, <2>2, LeastNumber
    <3>2. Min(Colons(s)) = c
      BY <1>1, <3>1, MinIs
    <3>3. c \in 2 .. Len(s) /\ s[c - 1] \in space /\ s[c] = ":"
      BY DEF Colons
    <3> DEFINE n == c - 1
    <3>4. n \in Nat /\ n >= 1 /\ n < Len(s) /\ n <= Len(s) /\ n + 1 = c
      BY <3>3
    <3>5. s[n] \in space
      BY <3>3
    <3> HIDE DEF n
    <3>6. s[n + 1] = ":" /\ EndsAt(s, n)
      BY <2>2, <3>2, <3>3, <3>4, Zenon DEF EndsAt
    <3>7. ASSUME NEW i \in 2 .. n, s[i - 1] \in space PROVE s[i] # ":"
      <4>1. i \in 2 .. Len(s) /\ ~ (c <= i)
        BY <1>1, <3>4
      <4>2. i \notin Colons(s)
        BY <3>1, <4>1
      <4> QED
        BY <3>7, <4>1, <4>2 DEF Colons
    <3> QED
      BY <3>4, <3>5, <3>6, <3>7, Zenon
  <2> QED
    BY <2>1, <2>2
<1>3. PICK n \in Nat : /\ n <= Len(s) /\ EndsAt(s, n)
                       /\ n < Len(s) => n >= 1 /\ s[n] \in space /\ s[n + 1] = ":"
                       /\ \A i \in 2 .. n : s[i - 1] \in space => s[i] # ":"
  BY <1>2
<1>4. PICK m, a, z : Cut(s, n, m, a, z)
  BY CutExists
<1>5. Frame(s, n, m, a, z)
  BY <1>3, <1>4, Zenon DEF Frame
<1> QED
  BY <1>3, <1>5

(* What Split makes of the words ws. *)
SplitOf(s, n, ws) ==
  LET sourced == ws # <<>> /\ ws[1][1] = ":"
      rest == IF sourced THEN Tail(ws) ELSE ws
  IN  IF /\ rest # <<>> /\ IsCommand(rest[1])
         /\ sourced => Len(ws[1]) > 1
         /\ s[1] \notin space /\ Complete(s, n)
      THEN {[prefix  |-> IF sourced THEN {Tail(ws[1])} ELSE {},
             command |-> CommandOf(rest[1]),
             args    |-> Tail(rest) \o LastArg(s, n)]}
      ELSE {}

LEMMA SplitIs ==
  ASSUME NEW s, NEW n, NEW m, NEW a, NEW z, Frame(s, n, m, a, z), EndsAt(s, n),
         NEW ws, ws = Texts(s, m, a, z)
  PROVE  Split(s) = SplitOf(s, n, ws)
<1> DEFINE colons == Colons(s)
           colon == Min(colons)
           words == Words(IF colons = {} THEN s ELSE SubSeq(s, 1, colon - 1))
           last == IF colons = {} THEN <<>> ELSE <<SubSeq(s, colon + 1, Len(s))>>
<1>1. s \in Seq(word \cup space) /\ n \in Nat /\ n <= Len(s) /\ Cut(s, n, m, a, z)
  BY FrameIs DEF Frame
<1>2. Words(SubSeq(s, 1, n)) = ws
  BY <1>1, WordsOfFirst
<1>3. "bad" \notin Range(s)
  <2>1. "bad" \notin word \cup space
    BY DEF word, nospcrlfcl, upper, digit, Named, space
  <2>2. \A i \in DOMAIN s : s[i] \in word \cup space
    BY <1>1
  <2> QED
    BY <2>1, <2>2 DEF Range
<1>4. /\ words = ws /\ last = LastArg(s, n)
      /\ (colons = {} => Last(s) \notin space) <=> Complete(s, n)
  <2>1. CASE colons = {}
    <3>1. n = Len(s)
      BY <2>1, Zenon DEF EndsAt
    <3>2. SubSeq(s, 1, n) = s
      <4>1. SubSeq(s, 1, Len(s)) = s
        BY <1>1
      <4> QED
        BY <3>1, <4>1, Zenon
    <3>3. ~ (n < Len(s))
      <4>1. ~ (n < n)
        BY <1>1
      <4> QED
        BY <3>1, <4>1, Zenon
    <3>4. Last(s) = s[n]
      BY <3>1, Zenon DEF Last
    <3> HIDE DEF colons, colon
    <3> QED
      BY <1>2, <2>1, <3>2, <3>3, <3>4, Zenon DEF LastArg, Complete
  <2>2. CASE colons # {}
    <3>1. n < Len(s) /\ colon = n + 1
      BY <2>2, Zenon DEF EndsAt
    <3>2. colon - 1 = n /\ colon + 1 = n + 2
      BY <1>1, <3>1
    <3> HIDE DEF colons, colon
    <3> QED
      BY <1>2, <2>2, <3>1, <3>2, Zenon DEF LastArg, Complete
  <2> QED
    BY <2>1, <2>2
<1> DEFINE sourced == words # <<>> /\ words[1][1] = ":"
           rest == IF sourced THEN Tail(words) ELSE words
<1>5. Split(s) =
        IF /\ "bad" \notin Range(s)
           /\ rest # <<>> /\ IsCommand(rest[1])
           /\ sourced => Len(words[1]) > 1
           /\ s[1] \notin space /\ (colons = {} => Last(s) \notin space)
        THEN {[prefix  |-> IF sourced THEN {Tail(words[1])} ELSE {},
               command |-> CommandOf(rest[1]),
               args    |-> Tail(rest) \o last]}
        ELSE {}
  BY Zenon DEF Split, Colons
<1> HIDE DEF colons, colon, words, last
<1> QED
  BY <1>3, <1>4, <1>5, Zenon DEF SplitOf

(* Tails are what is behind. *)
LEMMA TailIsBehind ==
  ASSUME NEW S, NEW q \in Seq(S), q # <<>>
  PROVE  /\ Tail(q) = Behind(q, 1) /\ Tail(q) \in Seq(S) /\ Len(q) \in Nat /\ Len(q) >= 1
         /\ Len(Tail(q)) = Len(q) - 1
         /\ \A i \in 1 .. Len(q) - 1 : Tail(q)[i] = q[1 + i]
<1>1. 1 \in Nat /\ 1 <= Len(q) /\ Len(q) \in Nat /\ Len(q) >= 1
  BY EmptySeq
<1>2. /\ Behind(q, 1) \in Seq(S) /\ Len(Behind(q, 1)) = Len(q) - 1
      /\ \A i \in 1 .. Len(q) - 1 : Behind(q, 1)[i] = q[1 + i]
  BY <1>1, BehindElements, Zenon
<1>3. Tail(q) = Behind(q, 1)
  BY <1>1 DEF Behind
<1> QED
  BY <1>1, <1>2, <1>3, Zenon

(* A line that is empty or begins with a space. *)
LEMMA BlankAlike ==
  ASSUME NEW s, NEW n, NEW m, NEW a, NEW z, Frame(s, n, m, a, z),
         NEW ws, ws = Texts(s, m, a, z), 1 \in DOMAIN s => s[1] \in space
  PROVE  parse_irc_line(s) = SplitOf(s, n, ws)
<1>1. /\ s \in Seq(word \cup space) /\ Len(s) \in Nat /\ DOMAIN s = 1 .. Len(s)
      /\ n \in Nat /\ n <= Len(s)
  BY FrameIs
<1>2. ~ At(s, 1, {":"})
  <2>1. \A c \in space : c # ":"
    BY Classes
  <2> QED
    BY <2>1 DEF At
<1>3. prefix(s).next = 1 /\ 1 \in 1 .. Len(s) + 1
  BY <1>1, <1>2, NoPrefix
<1>4. 1 \in DOMAIN s => s[1] \notin upper /\ s[1] \notin digit
  <2>1. upper \subseteq word /\ digit \subseteq word
    BY DEF word, nospcrlfcl
  <2> QED
    BY <2>1, Classes
<1>5. parse_irc_line(s) = {}
  BY <1>1, <1>3, <1>4, NoCommand
<1>6. CASE 1 \in DOMAIN s
  <2>1. ~ (s[1] \notin space)
    BY <1>6
  <2> QED
    BY <1>5, <2>1, Zenon DEF SplitOf
<1>7. CASE 1 \notin DOMAIN s
  <2>1. n = 0
    BY <1>1, <1>7
  <2>2. m = 0
    <3>1. m \in Nat /\ \A k \in 1 .. m : a[k] \in 1 .. n
      BY FrameIs
    <3> QED
      BY <2>1, <3>1
  <2>3. ws = <<>>
    BY <2>2 DEF Texts
  <2>4. ~ (ws # <<>>)
    BY <2>3
  <2> QED
    BY <1>5, <2>4, Zenon DEF SplitOf
<1> QED
  BY <1>6, <1>7

(* In another line the first word is at the beginning. *)
LEMMA FirstWord ==
  ASSUME NEW s, NEW n, NEW m, NEW a, NEW z, Frame(s, n, m, a, z), 1 \in DOMAIN s, s[1] \notin space
  PROVE  m \in Nat /\ m >= 1 /\ a[1] = 1
<1>1. /\ Len(s) \in Nat /\ DOMAIN s = 1 .. Len(s) /\ n \in Nat /\ n <= Len(s) /\ m \in Nat
      /\ \A k \in 1 .. m : a[k] \in 1 .. n /\ z[k] \in a[k] .. n
      /\ n + 1 \in DOMAIN s => s[n + 1] = ":" /\ n >= 1 /\ s[n] \in space
  BY FrameIs
<1>2. Cut(s, n, m, a, z)
  BY DEF Frame
<1>3. \A j, k \in 1 .. m : j < k => z[j] + 1 < a[k]
  BY <1>2 DEF Cut
<1>4. \A i \in 1 .. n : s[i] \notin space => \E k \in 1 .. m : i \in a[k] .. z[k]
  BY <1>2 DEF Cut
<1>5. 1 \in 1 .. n
  <2> SUFFICES ASSUME n = 0 PROVE FALSE
    BY <1>1
  <2>1. n + 1 \in DOMAIN s
    BY <1>1
  <2> QED
    BY <1>1, <2>1
<1>6. PICK k \in 1 .. m : 1 \in a[k] .. z[k]
  BY <1>4, <1>5
<1>7. k = 1
  <2> SUFFICES ASSUME k # 1 PROVE FALSE
    OBVIOUS
  <2>1. 1 \in 1 .. m /\ 1 < k
    BY <1>1
  <2>2. z[1] + 1 < a[k]
    BY <1>3, <2>1
  <2> QED
    BY <1>1, <1>6, <2>1, <2>2
<1> QED
  BY <1>1, <1>6, <1>7

(* A line that begins with its command. *)
LEMMA UnsourcedAlike ==
  ASSUME NEW s, NEW n, NEW m, NEW a, NEW z, Frame(s, n, m, a, z),
         NEW ws, ws = Texts(s, m, a, z), 1 \in DOMAIN s, s[1] \notin space, s[1] # ":"
  PROVE  parse_irc_line(s) = SplitOf(s, n, ws)
<1> DEFINE T == Seq(word \cup space)
           w == ws[1]
<1>1. m \in Nat /\ m >= 1 /\ a[1] = 1 /\ 1 \in 1 .. m
  BY FirstWord
<1>2. ws \in Seq(T) /\ Len(ws) = m
  BY TextsAre
<1>3. w = Texts(s, m, a, z)[1]
  OBVIOUS
<1> HIDE DEF T, w
<1>4. z[1] \in 1 .. n /\ n \in Nat
  BY <1>1, FrameIs
<1>5. w[1] = s[1]
  <2>1. \A i \in 1 .. z[1] - a[1] + 1 : w[i] = s[a[1] + i - 1]
    BY <1>1, <1>3, WordIs
  <2>2. 1 \in 1 .. z[1] - a[1] + 1 /\ a[1] + 1 - 1 = 1
    BY <1>1, <1>4
  <2> QED
    BY <2>1, <2>2
<1>6. ws # <<>>
  BY <1>1, <1>2
<1>7. ~ At(s, 1, {":"})
  BY DEF At
<1>8. prefix(s).text = {} /\ prefix(s).next = a[1]
  BY <1>1, <1>7, NoPrefix
<1>9. parse_irc_line(s) =
        IF IsCommand(ws[1]) /\ Complete(s, n)
        THEN {[prefix |-> prefix(s).text, command |-> CommandOf(ws[1]),
               args |-> Behind(ws, 1) \o LastArg(s, n)]}
        ELSE {}
  <2>1. 1 \in 1 .. m
    BY <1>1
  <2>2. prefix(s).next = a[1]
    BY <1>8
  <2> QED
    BY <2>1, <2>2, FromCommand, Zenon
<1>10. Tail(ws) = Behind(ws, 1)
  BY <1>2, <1>6, TailIsBehind
<1>11. ~ (ws # <<>> /\ ws[1][1] = ":")
  BY <1>5 DEF w
<1>12. SplitOf(s, n, ws) =
         IF ws # <<>> /\ IsCommand(ws[1]) /\ s[1] \notin space /\ Complete(s, n)
         THEN {[prefix |-> {}, command |-> CommandOf(ws[1]), args |-> Tail(ws) \o LastArg(s, n)]}
         ELSE {}
  BY <1>11, Zenon DEF SplitOf
<1> QED
  BY <1>6, <1>8, <1>9, <1>10, <1>12, Zenon

(* A line that begins with its source. *)
LEMMA SourcedAlike ==
  ASSUME NEW s, NEW n, NEW m, NEW a, NEW z, Frame(s, n, m, a, z),
         NEW ws, ws = Texts(s, m, a, z), 1 \in DOMAIN s, s[1] = ":"
  PROVE  parse_irc_line(s) = SplitOf(s, n, ws)
<1> DEFINE T == Seq(word \cup space)
           w == ws[1]
           rest == Tail(ws)
           e == z[1] + 1
           next == Star(s, e, space)
<1>0. ":" \notin space /\ ":" \notin upper /\ ":" \notin digit
  <2>1. ":" \notin upper /\ ":" \notin digit
    BY DEF upper, digit, Named
  <2> QED
    BY <2>1, Classes
<1>1. m \in Nat /\ m >= 1 /\ a[1] = 1 /\ 1 \in 1 .. m
  <2>1. s[1] \notin space
    BY <1>0
  <2> QED
    BY <2>1, FirstWord
<1>2. ws \in Seq(T) /\ Len(ws) = m
  BY TextsAre
<1>3. w = Texts(s, m, a, z)[1]
  OBVIOUS
<1> HIDE DEF T, w
<1>4. /\ z[1] \in 1 .. n /\ n \in Nat /\ n <= Len(s) /\ Len(s) \in Nat /\ s \in Seq(word \cup space)
      /\ n + 1 \in DOMAIN s => s[n + 1] = ":"
  BY <1>1, FrameIs
<1>5. /\ w \in T /\ w = SubSeq(s, 1, z[1]) /\ Len(w) = z[1]
      /\ \A i \in 1 .. z[1] : w[i] = s[i]
  <2>1. /\ w \in T /\ w = SubSeq(s, a[1], z[1]) /\ Len(w) = z[1] - a[1] + 1
        /\ \A i \in 1 .. z[1] - a[1] + 1 : w[i] = s[a[1] + i - 1]
    <3>1. w \in T
      BY <1>1, <1>2 DEF w
    <3>2. w = SubSeq(s, a[1], z[1])
      <4>1. \A k \in 1 .. m : Texts(s, m, a, z)[k] = SubSeq(s, a[k], z[k])
        BY TextsAre
      <4> QED
        BY <1>1, <1>3, <4>1, Zenon
    <3>3. Len(w) = z[1] - a[1] + 1
      BY <1>1, <1>3, WordIs
    <3>4. \A i \in 1 .. z[1] - a[1] + 1 : w[i] = s[a[1] + i - 1]
      BY <1>1, <1>3, WordIs
    <3> QED
      BY <3>1, <3>2, <3>3, <3>4, Zenon
  <2>2. z[1] - a[1] + 1 = z[1] /\ \A i \in 1 .. z[1] : a[1] + i - 1 = i
    BY <1>1, <1>4
  <2> QED
    BY <1>1, <2>1, <2>2
<1>6. ws # <<>> /\ ws[1][1] = ":"
  <2>1. w[1] = s[1]
    BY <1>4, <1>5
  <2> QED
    BY <1>1, <1>2, <2>1 DEF w
<1>7. SplitOf(s, n, ws) =
        IF /\ rest # <<>> /\ IsCommand(rest[1]) /\ Len(ws[1]) > 1
           /\ s[1] \notin space /\ Complete(s, n)
        THEN {[prefix |-> {Tail(ws[1])}, command |-> CommandOf(rest[1]),
               args |-> Tail(rest) \o LastArg(s, n)]}
        ELSE {}
  BY <1>6, Zenon DEF SplitOf
<1>8. rest \in Seq(T) /\ Len(rest) = m - 1 /\ rest = Behind(ws, 1)
  BY <1>2, <1>6, TailIsBehind
<1>9. Star(s, 2, word) = e
  <2>1. 2 \in a[1] .. z[1] + 1
    BY <1>1, <1>4
  <2> QED
    BY <1>1, <2>1, StarInWord
<1>10. At(s, 1, {":"})
  BY DEF At
<1>11. prefix(s) = IF e > 2 /\ next > e THEN [text |-> {SubSeq(s, 2, e - 1)}, next |-> next]
                   ELSE [text |-> {}, next |-> 1]
  BY <1>9, <1>10, Zenon DEF prefix
<1>12. /\ 1 < m => next = a[1 + 1] /\ a[1 + 1] > e
       /\ 1 = m => next = n + 1
  BY <1>1, StarToNextWord
<1>13. e = z[1] + 1 /\ e - 1 = z[1]
  BY <1>4
<1> HIDE DEF e, next, rest
<1>14. ASSUME prefix(s).next = 1 PROVE parse_irc_line(s) = {}
  <2>1. 1 \in 1 .. Len(s) + 1 /\ s[1] \notin upper /\ s[1] \notin digit
    BY <1>0, <1>4
  <2> QED
    BY <1>4, <1>14, <2>1, NoCommand
<1>15. CASE z[1] = 1
  <2>1. ~ (e > 2)
    BY <1>13, <1>15
  <2>2. prefix(s) = [text |-> {}, next |-> 1]
    BY <1>11, <2>1, Zenon
  <2>3. prefix(s).next = 1
    BY <2>2
  <2>4. ~ (Len(ws[1]) > 1)
    BY <1>5, <1>15 DEF w
  <2> QED
    BY <1>7, <1>14, <2>3, <2>4, Zenon
<1>16. CASE z[1] # 1 /\ m = 1
  <2>1. rest = <<>>
    BY <1>8, <1>16, EmptySeq
  <2>2. SplitOf(s, n, ws) = {}
    BY <1>7, <2>1, Zenon
  <2>3. prefix(s).next = 1 \/ prefix(s).next = n + 1
    BY <1>11, <1>12, <1>16
  <2>4. ASSUME prefix(s).next = n + 1 PROVE parse_irc_line(s) = {}
    <3> DEFINE i == n + 1
    <3>1. i \in 1 .. Len(s) + 1 /\ (i \in DOMAIN s => s[i] = ":")
      BY <1>4
    <3>2. prefix(s).next = i
      BY <2>4
    <3> HIDE DEF i
    <3>3. i \in DOMAIN s => s[i] \notin upper /\ s[i] \notin digit
      BY <1>0, <3>1
    <3> QED
      BY <1>4, <3>1, <3>2, <3>3, NoCommand
  <2> QED
    BY <1>14, <2>2, <2>3, <2>4, Zenon
<1>17. CASE z[1] # 1 /\ m # 1
  <2>1. 1 < m /\ 2 \in 1 .. m /\ e > 2 /\ 1 + 1 = 2 /\ Len(ws[1]) > 1
    BY <1>1, <1>4, <1>5, <1>13, <1>17 DEF w
  <2>2. next = a[2] /\ next > e
    BY <1>12, <2>1
  <2>3. prefix(s) = [text |-> {SubSeq(s, 2, z[1])}, next |-> a[2]]
    BY <1>11, <1>13, <2>1, <2>2, Zenon
  <2>4. prefix(s).text = {SubSeq(s, 2, z[1])} /\ prefix(s).next = a[2]
    BY <2>3
  <2>5. parse_irc_line(s) =
          IF IsCommand(ws[2]) /\ Complete(s, n)
          THEN {[prefix |-> prefix(s).text, command |-> CommandOf(ws[2]),
                 args |-> Behind(ws, 2) \o LastArg(s, n)]}
          ELSE {}
    BY <2>1, <2>4, FromCommand, Zenon
  <2>6. Tail(ws[1]) = SubSeq(s, 2, z[1])
    <3>1. w # <<>>
      BY <1>4, <1>5
    <3>2. Tail(w) = Behind(w, 1)
      <4>1. w \in Seq(word \cup space)
        BY <1>5, Zenon DEF T
      <4> QED
        BY <3>1, <4>1, TailIsBehind
    <3>3. Behind(w, 1) = SubSeq(w, 2, z[1])
      <4>1. 1 + 1 = 2
        OBVIOUS
      <4> QED
        BY <1>5, <4>1, Zenon DEF Behind
    <3>4. SubSeq(SubSeq(s, 1, z[1]), 2, z[1]) = SubSeq(s, 2, z[1])
      <4> DEFINE y == z[1]
      <4>1. y \in Nat /\ y <= Len(s) /\ 2 \in 1 .. y /\ y \in 2 .. y
        BY <1>4, <1>17
      <4> HIDE DEF y
      <4>2. SubSeq(SubSeq(s, 1, y), 2, y) = SubSeq(s, 2, y)
        BY <1>4, <4>1, SubOfFirst
      <4> QED
        BY <4>2 DEF y
    <3> QED
      BY <1>5, <3>2, <3>3, <3>4, Zenon DEF w
  <2>7. rest # <<>> /\ rest[1] = ws[2] /\ Tail(rest) = Behind(ws, 2)
    <3>1. rest # <<>>
      BY <1>1, <1>8, <1>17
    <3>2. rest[1] = ws[1 + 1]
      <4>1. \A i \in 1 .. Len(ws) - 1 : rest[i] = ws[1 + i]
        BY <1>2, <1>6, TailIsBehind, Zenon DEF rest
      <4>2. 1 \in 1 .. Len(ws) - 1
        BY <1>2, <2>1
      <4> QED
        BY <4>1, <4>2, Zenon
    <3>3. Tail(rest) = Behind(rest, 1)
      BY <1>8, <3>1, TailIsBehind
    <3>4. Behind(Behind(ws, 1), 1) = Behind(ws, 1 + 1)
      <4>1. 1 \in Nat /\ 1 + 1 <= Len(ws)
        BY <1>2, <2>1
      <4> QED
        BY <1>2, <4>1, BehindBehind
    <3> QED
      BY <1>8, <2>1, <3>1, <3>2, <3>3, <3>4, Zenon
  <2>8. s[1] \notin space
    BY <1>0
  <2> QED
    BY <1>7, <2>1, <2>4, <2>5, <2>6, <2>7, <2>8, Zenon
<1> QED
  BY <1>15, <1>16, <1>17

(* Of known characters, the rules make what splitting makes. *)
LEMMA KnownAlike ==
  ASSUME NEW s \in Seq(word \cup space)
  PROVE  parse_irc_line(s) = Split(s)
<1>1. PICK n, m, a, z : Frame(s, n, m, a, z) /\ EndsAt(s, n)
  BY FrameExists
<1> DEFINE ws == Texts(s, m, a, z)
<1>2. Split(s) = SplitOf(s, n, ws)
  BY <1>1, SplitIs
<1>3. parse_irc_line(s) = SplitOf(s, n, ws)
  <2>1. CASE 1 \in DOMAIN s => s[1] \in space
    BY <1>1, <2>1, BlankAlike
  <2>2. CASE 1 \in DOMAIN s /\ s[1] \notin space /\ s[1] # ":"
    BY <1>1, <2>2, UnsourcedAlike
  <2>3. CASE 1 \in DOMAIN s /\ s[1] = ":"
    BY <1>1, <2>3, SourcedAlike
  <2> QED
    BY <2>1, <2>2, <2>3
<1> QED
  BY <1>2, <1>3

-----------------------------------------------------------------------------
(* Other lines.                                                            *)

(* The rules know all characters before i. *)
KnownTo(s, i) == \A k \in 1 .. i - 1 : s[k] \in word \cup space

LEMMA StarKnows ==
  ASSUME NEW S, NEW s \in Seq(S), NEW i \in 1 .. Len(s) + 1, KnownTo(s, i),
         NEW class, class \subseteq word \cup space
  PROVE  Star(s, i, class) \in 1 .. Len(s) + 1 /\ KnownTo(s, Star(s, i, class))
<1> DEFINE j == Star(s, i, class)
<1>1. j \in i .. Len(s) + 1 /\ \A k \in i .. j - 1 : s[k] \in class
  BY StarIs
<1> HIDE DEF j
<1>2. j \in 1 .. Len(s) + 1
  BY <1>1
<1>3. ASSUME NEW k \in 1 .. j - 1 PROVE s[k] \in word \cup space
  <2>1. k \in 1 .. i - 1 \/ k \in i .. j - 1
    BY <1>1
  <2> QED
    BY <1>1, <2>1 DEF KnownTo
<1> QED
  BY <1>2, <1>3 DEF KnownTo, j

LEMMA NextKnown ==
  ASSUME NEW S, NEW s \in Seq(S), NEW i \in 1 .. Len(s), KnownTo(s, i), s[i] \in word \cup space
  PROVE  i + 1 \in 1 .. Len(s) + 1 /\ KnownTo(s, i + 1)
<1>1. \A k \in 1 .. (i + 1) - 1 : k \in 1 .. i - 1 \/ k = i
  OBVIOUS
<1> QED
  BY <1>1 DEF KnownTo

LEMMA FirstKnown ==
  ASSUME NEW S, NEW s \in Seq(S)
  PROVE  1 \in 1 .. Len(s) + 1 /\ KnownTo(s, 1)
BY DEF KnownTo

LEMMA PrefixKnows ==
  ASSUME NEW S, NEW s \in Seq(S)
  PROVE  prefix(s).next \in 1 .. Len(s) + 1 /\ KnownTo(s, prefix(s).next)
<1> DEFINE e == Star(s, 2, word)
           next == Star(s, e, space)
<1>1. CASE At(s, 1, {":"}) /\ e > 2 /\ next > e
  <2>1. prefix(s) = [text |-> {SubSeq(s, 2, e - 1)}, next |-> next]
    BY <1>1, Zenon DEF prefix
  <2>2. 1 \in 1 .. Len(s) /\ s[1] \in word \cup space
    BY <1>1, Classes DEF At
  <2>3. 2 \in 1 .. Len(s) + 1 /\ KnownTo(s, 2)
    <3>1. 1 + 1 \in 1 .. Len(s) + 1 /\ KnownTo(s, 1 + 1)
      BY <2>2, FirstKnown, NextKnown
    <3> QED
      BY <3>1
  <2>4. e \in 1 .. Len(s) + 1 /\ KnownTo(s, e)
    BY <2>3, StarKnows
  <2> HIDE DEF e
  <2>5. next \in 1 .. Len(s) + 1 /\ KnownTo(s, next)
    BY <2>4, StarKnows
  <2>6. prefix(s).next = next
    BY <2>1
  <2> QED
    BY <2>5, <2>6, Zenon
<1>2. CASE ~ (At(s, 1, {":"}) /\ e > 2 /\ next > e)
  <2>1. prefix(s) = [text |-> {}, next |-> 1]
    BY <1>2, Zenon DEF prefix
  <2>2. prefix(s).next = 1
    BY <2>1
  <2> QED
    BY <2>2, FirstKnown, Zenon
<1> QED
  BY <1>1, <1>2

LEMMA CommandKnows ==
  ASSUME NEW S, NEW s \in Seq(S), NEW i \in 1 .. Len(s) + 1, KnownTo(s, i)
  PROVE  command(s, i) \in 1 .. Len(s) + 1 /\ KnownTo(s, command(s, i))
<1> DEFINE e == Star(s, i, upper)
           Digits == \A k \in i .. i + 2 : At(s, k, digit)
<1>0. upper \subseteq word \cup space /\ digit \subseteq word \cup space
  BY DEF word, nospcrlfcl
<1>1. e \in 1 .. Len(s) + 1 /\ KnownTo(s, e)
  BY <1>0, StarKnows
<1>2. command(s, i) = IF e > i THEN e ELSE IF Digits THEN i + 3 ELSE i
  BY Zenon DEF command
<1>3. ASSUME Digits PROVE i + 3 \in 1 .. Len(s) + 1 /\ KnownTo(s, i + 3)
  <2>1. \A k \in i .. i + 2 : k \in 1 .. Len(s) /\ s[k] \in word \cup space
    BY <1>0, <1>3 DEF At
  <2>2. i + 2 \in i .. i + 2 /\ \A k \in 1 .. (i + 3) - 1 : k \in 1 .. i - 1 \/ k \in i .. i + 2
    OBVIOUS
  <2>3. i + 2 \in 1 .. Len(s)
    BY <2>1, <2>2
  <2> QED
    BY <2>1, <2>2, <2>3 DEF KnownTo
<1> HIDE DEF e, Digits
<1> QED
  BY <1>1, <1>2, <1>3, Zenon

LEMMA ParamsKnow ==
  ASSUME NEW S, NEW s \in Seq(S), NEW b \in 1 .. Len(s) + 1, KnownTo(s, b)
  PROVE  params(s, b).next \in 1 .. Len(s) + 1 /\ KnownTo(s, params(s, b).next)
<1> DEFINE L == Len(s) + 1
           Knows(i) ==
             KnownTo(s, i) => params(s, i).next \in 1 .. L /\ KnownTo(s, params(s, i).next)
           Good == {k \in Nat : \A i \in 1 .. L : L - i <= k => Knows(i)}
<1>1. L \in Nat /\ L = Len(s) + 1
  OBVIOUS
<1> HIDE DEF L
<1>2. ASSUME NEW i \in 1 .. L, \A e \in i + 1 .. L : Knows(e) PROVE Knows(i)
  <2> SUFFICES ASSUME KnownTo(s, i)
               PROVE  params(s, i).next \in 1 .. L /\ KnownTo(s, params(s, i).next)
    OBVIOUS
  <2> DEFINE p == Star(s, i, space)
             e == Star(s, p, word)
  <2>1. i \in 1 .. Len(s) + 1
    BY <1>1
  <2>2. CASE p > i /\ At(s, p, nospcrlfcl)
    <3>1. Takes(s, i, p, e)
      BY <2>2 DEF Takes
    <3>2. params(s, i) = [args |-> <<SubSeq(s, p, e - 1)>> \o params(s, e).args,
                          next |-> params(s, e).next]
      BY <2>1, <3>1, ParamTaken
    <3>3. params(s, i).next = params(s, e).next
      BY <3>2
    <3>4. p \in 1 .. Len(s) + 1 /\ KnownTo(s, p)
      BY <2>1, StarKnows
    <3>5. e \in 1 .. Len(s) + 1 /\ KnownTo(s, e)
      BY <3>4, StarKnows
    <3>6. e \in i + 1 .. L
      <4>1. e \in i + 1 .. Len(s) + 1
        BY <2>1, <2>2, ParamIsLater
      <4> QED
        BY <1>1, <4>1
    <3>7. Knows(e)
      BY <1>2, <3>6
    <3> QED
      BY <3>3, <3>5, <3>7, Zenon
  <2>3. CASE ~ (p > i /\ At(s, p, nospcrlfcl))
    <3>1. params(s, i) = [args |-> <<>>, next |-> i]
      BY <2>1, <2>3, NoneTaken
    <3>2. params(s, i).next = i
      BY <3>1
    <3> QED
      BY <3>2, Zenon
  <2> QED
    BY <2>2, <2>3
<1> HIDE DEF Knows
<1>3. 0 \in Good
  <2> SUFFICES ASSUME NEW i \in 1 .. L, L - i <= 0 PROVE Knows(i)
    OBVIOUS
  <2>1. i + 1 .. L = {}
    BY <1>1
  <2> QED
    BY <1>2, <2>1
<1>4. ASSUME NEW k \in Nat, k \in Good PROVE k + 1 \in Good
  <2> SUFFICES ASSUME NEW i \in 1 .. L, L - i <= k + 1 PROVE Knows(i)
    OBVIOUS
  <2>1. \A e \in i + 1 .. L : e \in 1 .. L /\ L - e <= k
    BY <1>1
  <2>2. \A e \in i + 1 .. L : Knows(e)
    BY <1>4, <2>1
  <2> QED
    BY <1>2, <2>2
<1>5. Nat \subseteq Good
  <2> HIDE DEF Good
  <2> QED
    BY <1>3, <1>4, FromZeroOn
<1>6. L - b \in Nat /\ L - b <= L - b /\ b \in 1 .. L
  BY <1>1
<1>7. Knows(b)
  BY <1>5, <1>6
<1> QED
  BY <1>1, <1>7 DEF Knows

LEMMA TrailingKnows ==
  ASSUME NEW S, NEW s \in Seq(S), NEW i \in 1 .. Len(s) + 1, KnownTo(s, i)
  PROVE  KnownTo(s, trailing_param(s, i).next)
<1> DEFINE p == Star(s, i, space)
           e == Star(s, p + 1, word \cup space)
<1>1. CASE p > i /\ At(s, p, {":"})
  <2>1. trailing_param(s, i) = [args |-> <<SubSeq(s, p + 1, e - 1)>>, next |-> e]
    BY <1>1, Zenon DEF trailing_param
  <2>2. p \in 1 .. Len(s) + 1 /\ KnownTo(s, p)
    BY StarKnows
  <2>3. p \in 1 .. Len(s) /\ s[p] \in word \cup space
    BY <1>1, Classes DEF At
  <2> HIDE DEF p
  <2>4. p + 1 \in 1 .. Len(s) + 1 /\ KnownTo(s, p + 1)
    BY <2>2, <2>3, NextKnown
  <2>5. KnownTo(s, e)
    BY <2>4, StarKnows
  <2>6. trailing_param(s, i).next = e
    BY <2>1
  <2> QED
    BY <2>5, <2>6, Zenon
<1>2. CASE ~ (p > i /\ At(s, p, {":"}))
  <2>1. trailing_param(s, i) = [args |-> <<>>, next |-> i]
    BY <1>2, Zenon DEF trailing_param
  <2>2. trailing_param(s, i).next = i
    BY <2>1
  <2> QED
    BY <2>2, Zenon
<1> QED
  BY <1>1, <1>2

(* Of a line with an unknown character, the rules make nothing. *)
LEMMA UnknownRefused ==
  ASSUME NEW s \in Seq(Chars), s \notin Seq(word \cup space)
  PROVE  parse_irc_line(s) = {} /\ "bad" \in Range(s)
<1> DEFINE start == prefix(s).next
           e == command(s, start)
           middle == params(s, e).next
           last == trailing_param(s, middle).next
<1>1. PICK k \in 1 .. Len(s) : s[k] \notin word \cup space
  <2> SUFFICES ASSUME \A k \in 1 .. Len(s) : s[k] \in word \cup space PROVE FALSE
    OBVIOUS
  <2>1. s \in Seq(word \cup space)
    OBVIOUS
  <2> QED
    BY <2>1
<1>2. s[k] = "bad" /\ k \in DOMAIN s
  BY <1>1 DEF Chars
<1>3. start \in 1 .. Len(s) + 1 /\ KnownTo(s, start)
  BY PrefixKnows
<1>4. e \in 1 .. Len(s) + 1 /\ KnownTo(s, e)
  <2> HIDE DEF start
  <2> QED
    BY <1>3, CommandKnows
<1>5. middle \in 1 .. Len(s) + 1 /\ KnownTo(s, middle)
  <2> HIDE DEF e
  <2> QED
    BY <1>4, ParamsKnow
<1>6. KnownTo(s, last)
  <2> HIDE DEF middle
  <2> QED
    BY <1>5, TrailingKnows
<1> HIDE DEF last
<1>7. last # Len(s) + 1
  <2> SUFFICES ASSUME last = Len(s) + 1 PROVE FALSE
    OBVIOUS
  <2>1. k \in 1 .. last - 1
    OBVIOUS
  <2> QED
    BY <1>1, <1>6, <2>1 DEF KnownTo
<1>8. parse_irc_line(s) = {}
  BY <1>7, Zenon DEF parse_irc_line, start, e, middle, last
<1> QED
  BY <1>2, <1>8 DEF Range

(* Of a line with any characters, any number of spaces and colons in any   *)
(* places, the PEG of protocol.rs makes what splitting it at its spaces,   *)
(* up to the first parameter that begins with a colon, makes, and nothing  *)
(* where that makes nothing.                                               *)
THEOREM GrammarIsSplitting == Spec => []ParsesAsSplit
<1>1. TypeInv => ParsesAsSplit
  <2> SUFFICES ASSUME line \in Seq(Chars) PROVE ParsesAsSplit
    BY DEF TypeInv
  <2>1. CASE line \in Seq(word \cup space)
    BY <2>1, KnownAlike, Zenon DEF ParsesAsSplit
  <2>2. CASE line \notin Seq(word \cup space)
    <3>1. parse_irc_line(line) = {} /\ "bad" \in Range(line)
      BY <2>2, UnknownRefused
    <3>2. Split(line) = {}
      BY <3>1, Zenon DEF Split
    <3> QED
      BY <3>1, <3>2, Zenon DEF ParsesAsSplit
  <2> QED
    BY <2>1, <2>2
<1> QED
  BY <1>1, Typing, PTL
=============================================================================
