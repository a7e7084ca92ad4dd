-------------------------- MODULE HttpClientProofs --------------------------
(***************************************************************************)
(* For any number of requests, failures and units: HttpClient is the       *)
(* abstract RequestService, so that an answer goes to the request it is    *)
(* the answer to, and requests are settled in order and once; no request   *)
(* is carried out twice, and the task sleeps only when it may.             *)
(***************************************************************************)
EXTENDS MatrixSend, SequenceTheorems, TLAPS

(* The units on their way belong to the requests p behind the first `done`,*)
(* in their order and with no unit missing: at says which one each is of.  *)
(* The first unit may be in the middle of a request, the last ends one.    *)
Places(at, units, done, p) ==
  /\ at \in [1 .. Len(units) -> done + 1 .. Len(p)]
  /\ \A i \in 1 .. Len(units) : units[i][1] = p[at[i]]
  /\ \A i, j \in 1 .. Len(units) : i <= j => at[i] <= at[j]
  /\ \A i \in 1 .. Len(units) - 1 :
       /\ units[i][2] = Parts => at[i + 1] = at[i] + 1
       /\ units[i][2] # Parts => at[i + 1] = at[i]
  /\ units # <<>> => /\ at[1] = done + 1 /\ at[Len(units)] = Len(p)
                     /\ units[Len(units)][2] = Parts
  /\ units = <<>> => done = Len(p)

Flow(units, done, p) == \E at : Places(at, units, done, p)

Unit == Nat \X (1 .. Parts)

TypeInv ==
  /\ {queue, pending, incoming, arrived} \subseteq Seq(Nat)
  /\ {outgoing, write_buffer} \subseteq Seq(Unit)
  /\ results \in Seq(Int)

(* What the socket holds for the client are the answers to its oldest      *)
(* requests, and a notice.                                                 *)
AnswersInOrder ==
  /\ \A i \in 1 .. Len(incoming) : \/ i <= Len(pending) /\ incoming[i] = pending[i]
                                   \/ incoming[i] = Notice
  /\ closed => arrived = <<>>

(* On a connection that is not closed the pending requests are, oldest     *)
(* first, answered, read by the server, or in the socket and the buffer.   *)
Pipeline ==
  ~closed =>
    /\ \A i \in 1 .. Len(incoming \o arrived) :
         i <= Len(pending) /\ (incoming \o arrived)[i] = pending[i]
    /\ Flow(outgoing \o write_buffer, Len(incoming) + Len(arrived), pending)

IInv == TypeInv /\ AnswersInOrder /\ Pipeline

-----------------------------------------------------------------------------
(* Sequences put together.                                                 *)

(* What is cut off the front of b and put behind a leaves a \o b as it is. *)
LEMMA SplitAndJoined ==
  ASSUME NEW S, NEW a \in Seq(S), NEW b \in Seq(S), NEW n \in 0 .. Len(b)
  PROVE  /\ a \o SubSeq(b, 1, n) \in Seq(S) /\ SubSeq(b, n + 1, Len(b)) \in Seq(S)
         /\ (a \o SubSeq(b, 1, n)) \o SubSeq(b, n + 1, Len(b)) = a \o b
<1> DEFINE front == SubSeq(b, 1, n)
           back == SubSeq(b, n + 1, Len(b))
<1>1. front \in Seq(S) /\ back \in Seq(S)
  OBVIOUS
<1>2. front \o back = b
  <2>1. 1 \in 1 .. Len(b) + 1 /\ n \in 1 - 1 .. Len(b) /\ Len(b) \in n .. Len(b)
    OBVIOUS
  <2>2. front \o back = SubSeq(b, 1, Len(b))
    BY <2>1, ConcatAdjacentSubSeq
  <2> QED
    BY <2>2, SubSeqFull
<1> HIDE DEF front, back
<1>3. (a \o front) \o back = a \o b
  <2>1. (a \o front) \o back = a \o (front \o back)
    BY <1>1, ConcatAssociative
  <2> QED
    BY <1>2, <2>1
<1>4. a \o front \in Seq(S)
  BY <1>1, ConcatProperties
<1> QED
  BY <1>1, <1>3, <1>4 DEF front, back

(* So does the head of b alone. *)
LEMMA HeadMoved ==
  ASSUME NEW S, NEW a \in Seq(S), NEW b \in Seq(S), b # <<>>
  PROVE  /\ Append(a, Head(b)) \in Seq(S) /\ Tail(b) \in Seq(S)
         /\ Append(a, Head(b)) \o Tail(b) = a \o b
<1> DEFINE h == Head(b)
           t == Tail(b)
           c == Append(a, h)
<1>1. /\ h \in S /\ t \in Seq(S) /\ Len(b) \in Nat \ {0} /\ h = b[1]
      /\ Len(t) = Len(b) - 1 /\ \A i \in 1 .. Len(t) : t[i] = b[i + 1]
  OBVIOUS
<1> HIDE DEF h, t
<1>2. /\ c \in Seq(S) /\ Len(c) = Len(a) + 1 /\ c[Len(a) + 1] = h
      /\ \A i \in 1 .. Len(a) : c[i] = a[i]
  BY <1>1
<1> HIDE DEF c
<1>3. /\ c \o t \in Seq(S) /\ a \o b \in Seq(S)
      /\ Len(c \o t) = Len(a) + Len(b) /\ Len(a \o b) = Len(a) + Len(b)
      /\ \A i \in 1 .. Len(a) + Len(b) :
           /\ (c \o t)[i] = IF i <= Len(c) THEN c[i] ELSE t[i - Len(c)]
           /\ (a \o b)[i] = IF i <= Len(a) THEN a[i] ELSE b[i - Len(a)]
  <2>1. /\ c \o t \in Seq(S) /\ Len(c \o t) = Len(c) + Len(t)
        /\ \A i \in 1 .. Len(c) + Len(t) :
             (c \o t)[i] = IF i <= Len(c) THEN c[i] ELSE t[i - Len(c)]
    BY <1>1, <1>2, ConcatProperties
  <2>2. /\ a \o b \in Seq(S) /\ Len(a \o b) = Len(a) + Len(b)
        /\ \A i \in 1 .. Len(a) + Len(b) :
             (a \o b)[i] = IF i <= Len(a) THEN a[i] ELSE b[i - Len(a)]
    BY ConcatProperties
  <2> QED
    BY <1>1, <1>2, <2>1, <2>2
<1>4. \A i \in 1 .. Len(a) + Len(b) : (c \o t)[i] = (a \o b)[i]
  <2> SUFFICES ASSUME NEW i \in 1 .. Len(a) + Len(b) PROVE (c \o t)[i] = (a \o b)[i]
    OBVIOUS
  <2>1. CASE i <= Len(a)
    BY <1>2, <1>3, <2>1
  <2>2. CASE i = Len(a) + 1
    BY <1>1, <1>2, <1>3, <2>2
  <2>3. CASE i > Len(a) + 1
    <3>0. Len(a) \in Nat /\ Len(b) \in Nat
      OBVIOUS
    <3>1. i - (Len(a) + 1) \in 1 .. Len(t) /\ (i - (Len(a) + 1)) + 1 = i - Len(a)
      BY <1>1, <2>3, <3>0
    <3>2. t[i - (Len(a) + 1)] = b[i - Len(a)]
      BY <1>1, <3>1
    <3>3. (c \o t)[i] = t[i - (Len(a) + 1)]
      BY <1>2, <1>3, <2>3, <3>0
    <3>4. (a \o b)[i] = b[i - Len(a)]
      BY <1>3, <2>3, <3>0
    <3> QED
      BY <3>2, <3>3, <3>4
  <2>4. i \in Int /\ Len(a) \in Int
    OBVIOUS
  <2>5. i <= Len(a) \/ i = Len(a) + 1 \/ i > Len(a) + 1
    BY <2>4
  <2> QED
    BY <2>1, <2>2, <2>3, <2>5
<1>5. c \o t = a \o b
  BY <1>3, <1>4, SeqEqual
<1> QED
  BY <1>1, <1>2, <1>5 DEF h, t, c

(* Taking from a non-empty a is taking from a \o b. *)
LEMMA TailOfJoined ==
  ASSUME NEW S, NEW a \in Seq(S), NEW b \in Seq(S), a # <<>>
  PROVE  /\ Tail(a) \in Seq(S) /\ Head(a) \in S
         /\ a \o b # <<>> /\ Head(a \o b) = Head(a)
         /\ Tail(a \o b) = Tail(a) \o b
<1> DEFINE t == Tail(a)
           c == a \o b
<1>1. /\ t \in Seq(S) /\ Len(a) \in Nat \ {0} /\ Head(a) = a[1] /\ Head(a) \in S
      /\ Len(t) = Len(a) - 1 /\ \A i \in 1 .. Len(t) : t[i] = a[i + 1]
  OBVIOUS
<1>2. /\ c \in Seq(S) /\ Len(c) = Len(a) + Len(b) /\ c[1] = a[1]
      /\ \A i \in 1 .. Len(a) + Len(b) : c[i] = IF i <= Len(a) THEN a[i] ELSE b[i - Len(a)]
  BY <1>1
<1> HIDE DEF t, c
<1>3. c # <<>>
  BY <1>1, <1>2
<1>4. /\ Tail(c) \in Seq(S) /\ Len(Tail(c)) = Len(c) - 1 /\ Head(c) = c[1]
      /\ \A i \in 1 .. Len(c) - 1 : Tail(c)[i] = c[i + 1]
  BY <1>2, <1>3
<1>5. /\ t \o b \in Seq(S) /\ Len(t \o b) = Len(t) + Len(b)
      /\ \A i \in 1 .. Len(t) + Len(b) : (t \o b)[i] = IF i <= Len(t) THEN t[i] ELSE b[i - Len(t)]
  BY <1>1, ConcatProperties
<1>6. Len(Tail(c)) = Len(t \o b) /\ \A i \in 1 .. Len(Tail(c)) : Tail(c)[i] = (t \o b)[i]
  BY <1>1, <1>2, <1>4, <1>5
<1>7. Tail(c) = t \o b
  BY <1>4, <1>5, <1>6, SeqEqual
<1> QED
  BY <1>1, <1>2, <1>3, <1>4, <1>7 DEF t, c

(* Appending to b is appending to a \o b. *)
LEMMA AppendToJoined ==
  ASSUME NEW S, NEW a \in Seq(S), NEW b \in Seq(S), NEW e \in S
  PROVE  a \o Append(b, e) = Append(a \o b, e)
<1> DEFINE c == Append(b, e)
           d == a \o b
<1>1. /\ c \in Seq(S) /\ Len(c) = Len(b) + 1 /\ c[Len(b) + 1] = e
      /\ \A i \in 1 .. Len(b) : c[i] = b[i]
  OBVIOUS
<1>2. /\ d \in Seq(S) /\ Len(d) = Len(a) + Len(b)
      /\ \A i \in 1 .. Len(d) : d[i] = IF i <= Len(a) THEN a[i] ELSE b[i - Len(a)]
  OBVIOUS
<1> HIDE DEF c, d
<1>3. /\ a \o c \in Seq(S) /\ Len(a \o c) = Len(a) + Len(c)
      /\ \A i \in 1 .. Len(a \o c) : (a \o c)[i] = IF i <= Len(a) THEN a[i] ELSE c[i - Len(a)]
  BY <1>1, SMTT(60)
<1>4. /\ Append(d, e) \in Seq(S) /\ Len(Append(d, e)) = Len(d) + 1
      /\ Append(d, e)[Len(d) + 1] = e /\ \A i \in 1 .. Len(d) : Append(d, e)[i] = d[i]
  BY <1>2
<1>5. Len(a \o c) = Len(Append(d, e))
  BY <1>1, <1>2, <1>3, <1>4
<1>6. \A i \in 1 .. Len(a \o c) : (a \o c)[i] = Append(d, e)[i]
  <2> SUFFICES ASSUME NEW i \in 1 .. Len(a \o c) PROVE (a \o c)[i] = Append(d, e)[i]
    OBVIOUS
  <2>1. CASE i = Len(d) + 1
    BY <1>1, <1>2, <1>3, <1>4, <2>1
  <2>2. CASE i \in 1 .. Len(a)
    BY <1>2, <1>3, <1>4, <2>2
  <2>3. CASE i \in Len(a) + 1 .. Len(d)
    <3>1. i - Len(a) \in 1 .. Len(b)
      BY <1>2, <2>3
    <3>2. c[i - Len(a)] = b[i - Len(a)]
      BY <1>1, <3>1
    <3> QED
      BY <1>2, <1>3, <1>4, <2>3, <3>2
  <2> QED
    BY <1>1, <1>2, <1>3, <2>1, <2>2, <2>3
<1>7. a \o c = Append(d, e)
  BY <1>3, <1>4, <1>5, <1>6, SeqEqual
<1> QED
  BY <1>7 DEF c, d

(* Behind a there is b. *)
LEMMA RestOfJoined ==
  ASSUME NEW S, NEW a \in Seq(S), NEW b \in Seq(S)
  PROVE  SubSeq(a \o b, Len(a) + 1, Len(a \o b)) = b
<1> DEFINE c == a \o b
<1>1. /\ c \in Seq(S) /\ Len(c) = Len(a) + Len(b)
      /\ \A i \in 1 .. Len(a) + Len(b) : c[i] = IF i <= Len(a) THEN a[i] ELSE b[i - Len(a)]
  BY ConcatProperties
<1> HIDE DEF c
<1>2. Len(a) \in Nat /\ Len(b) \in Nat
  OBVIOUS
<1> DEFINE m == Len(a) + 1
           n == Len(c)
           rest == SubSeq(c, m, n)
<1>3. \A i \in m .. n : c[i] \in S
  BY <1>1, <1>2
<1>4. /\ rest \in Seq(S) /\ Len(rest) = IF m <= n THEN n - m + 1 ELSE 0
      /\ \A i \in 1 .. n - m + 1 : rest[i] = c[m + i - 1]
  <2>1. m \in Int /\ n \in Int
    BY <1>1, <1>2
  <2> HIDE DEF m, n
  <2> QED
    BY <1>3, <2>1, SubSeqProperties
<1>5. Len(rest) = Len(b)
  BY <1>1, <1>2, <1>4
<1>6. \A i \in 1 .. Len(rest) : rest[i] = b[i]
  <2> SUFFICES ASSUME NEW i \in 1 .. Len(b) PROVE rest[i] = b[i]
    BY <1>5
  <2>1. i \in 1 .. n - m + 1 /\ m + i - 1 = Len(a) + i /\ Len(a) + i \in 1 .. Len(a) + Len(b)
    BY <1>1, <1>2
  <2>2. rest[i] = c[Len(a) + i]
    BY <1>4, <2>1
  <2>3. ~(Len(a) + i <= Len(a)) /\ Len(a) + i - Len(a) = i
    BY <1>2
  <2> QED
    BY <1>1, <2>1, <2>2, <2>3
<1>7. rest = b
  <2> HIDE DEF rest
  <2> QED
    BY <1>4, <1>5, <1>6, SeqEqual
<1> QED
  BY <1>7 DEF c

-----------------------------------------------------------------------------
(* Units on their way.                                                     *)

(* Where the units are that a place says. *)
LEMMA PlaceType ==
  ASSUME NEW units \in Seq(Unit), NEW done \in Nat, NEW p \in Seq(Nat), NEW at,
         Places(at, units, done, p)
  PROVE  /\ \A i \in 1 .. Len(units) : at[i] \in Nat /\ done < at[i] /\ at[i] <= Len(p)
         /\ done <= Len(p)
<1>1. \A i \in 1 .. Len(units) : at[i] \in done + 1 .. Len(p)
  BY DEF Places
<1>2. CASE units = <<>>
  BY <1>1, <1>2 DEF Places
<1>3. CASE units # <<>>
  <2>1. 1 \in 1 .. Len(units)
    BY <1>3
  <2> QED
    BY <1>1, <2>1
<1> QED
  BY <1>2, <1>3

(* A unit is read; the last of a request completes it. *)
LEMMA FlowTail ==
  ASSUME NEW units \in Seq(Unit), units # <<>>, NEW done \in Nat, NEW p \in Seq(Nat),
         Flow(units, done, p)
  PROVE  IF Head(units)[2] = Parts
         THEN /\ done + 1 <= Len(p) /\ Head(units)[1] = p[done + 1]
              /\ Flow(Tail(units), done + 1, p)
         ELSE Flow(Tail(units), done, p)
<1>1. PICK at : Places(at, units, done, p)
  BY DEF Flow
<1> DEFINE t == Tail(units)
           d == IF Head(units)[2] = Parts THEN done + 1 ELSE done
           next == [i \in 1 .. Len(t) |-> at[i + 1]]
<1>2. /\ Len(units) \in Nat \ {0} /\ Head(units) = units[1]
      /\ t \in Seq(Unit) /\ Len(t) = Len(units) - 1
      /\ \A i \in 1 .. Len(t) : t[i] = units[i + 1]
      /\ t = <<>> <=> Len(units) = 1
  <2>1. /\ Len(units) \in Nat \ {0} /\ Head(units) = units[1]
        /\ t \in Seq(Unit) /\ Len(t) = Len(units) - 1
    OBVIOUS
  <2>2. \A i \in 1 .. Len(t) : t[i] = units[i + 1]
    OBVIOUS
  <2> HIDE DEF t
  <2>3. t = <<>> <=> Len(t) = 0
    BY <2>1, EmptySeq, Zenon
  <2> QED
    BY <2>1, <2>2, <2>3
<1>3. /\ done + 1 <= Len(p) /\ Head(units)[1] = p[done + 1]
      /\ d \in Nat /\ Len(p) \in Nat
      /\ d = done \/ d = done + 1
  BY <1>1, <1>2, PlaceType DEF Places
<1> HIDE DEF t
<1>4. Len(t) > 0 => at[2] = d + 1
  <2> SUFFICES ASSUME Len(t) > 0 PROVE at[2] = d + 1
    OBVIOUS
  <2>1. 1 \in 1 .. Len(units) - 1
    BY <1>2
  <2>2. at[1] = done + 1
    BY <1>1 DEF Places
  <2>3. /\ units[1][2] = Parts => at[1 + 1] = at[1] + 1
        /\ units[1][2] # Parts => at[1 + 1] = at[1]
    BY <1>1, <2>1 DEF Places
  <2> QED
    BY <1>2, <2>2, <2>3
<1>5. next \in [1 .. Len(t) -> d + 1 .. Len(p)]
  <2> SUFFICES ASSUME NEW i \in 1 .. Len(t) PROVE at[i + 1] \in d + 1 .. Len(p)
    OBVIOUS
  <2>1. i + 1 \in 1 .. Len(units) /\ 2 \in 1 .. Len(units) /\ 2 <= i + 1
    BY <1>2
  <2>2. at[2] <= at[i + 1]
    BY <1>1, <2>1 DEF Places
  <2>3. at[i + 1] \in Nat /\ at[i + 1] <= Len(p)
    BY <1>1, <2>1, PlaceType
  <2> QED
    BY <1>3, <1>4, <2>2, <2>3, <1>2
<1>6. \A i \in 1 .. Len(t) : i + 1 \in 1 .. Len(units) /\ next[i] = at[i + 1]
  BY <1>2
<1>7. \A i \in 1 .. Len(t) : t[i][1] = p[next[i]]
  BY <1>1, <1>2, <1>6 DEF Places
<1>8. \A i, j \in 1 .. Len(t) : i <= j => next[i] <= next[j]
  BY <1>1, <1>2, <1>6 DEF Places
<1>9. \A i \in 1 .. Len(t) - 1 : /\ t[i][2] = Parts => next[i + 1] = next[i] + 1
                                 /\ t[i][2] # Parts => next[i + 1] = next[i]
  <2> SUFFICES ASSUME NEW i \in 1 .. Len(t) - 1
               PROVE  /\ t[i][2] = Parts => next[i + 1] = next[i] + 1
                      /\ t[i][2] # Parts => next[i + 1] = next[i]
    OBVIOUS
  <2>1. /\ i \in 1 .. Len(t) /\ i + 1 \in 1 .. Len(t)
        /\ i + 1 \in 1 .. Len(units) - 1
    BY <1>2
  <2>2. /\ units[i + 1][2] = Parts => at[i + 1 + 1] = at[i + 1] + 1
        /\ units[i + 1][2] # Parts => at[i + 1 + 1] = at[i + 1]
    BY <1>1, <2>1 DEF Places
  <2> QED
    BY <1>2, <1>6, <2>1, <2>2
<1>10. t # <<>> => /\ next[1] = d + 1 /\ next[Len(t)] = Len(p)
                  /\ t[Len(t)][2] = Parts
  <2> SUFFICES ASSUME t # <<>>
               PROVE  next[1] = d + 1 /\ next[Len(t)] = Len(p) /\ t[Len(t)][2] = Parts
    OBVIOUS
  <2>1. 1 \in 1 .. Len(t) /\ Len(t) \in 1 .. Len(t) /\ Len(t) + 1 = Len(units) /\ Len(t) > 0
    BY <1>2
  <2>2. at[Len(units)] = Len(p) /\ units[Len(units)][2] = Parts
    BY <1>1 DEF Places
  <2> QED
    BY <1>2, <1>4, <1>6, <2>1, <2>2
<1>11. t = <<>> => d = Len(p)
  BY <1>1, <1>2, <1>3 DEF Places
<1>12. Places(next, t, d, p)
  <2> HIDE DEF d, next
  <2> QED
    BY <1>5, <1>7, <1>8, <1>9, <1>10, <1>11 DEF Places
<1>13. Flow(t, d, p)
  BY <1>12 DEF Flow
<1> QED
  BY <1>3, <1>13 DEF t

(* A request is written as all its units, in order. *)
LEMMA UnitsOfRequest ==
  ASSUME NEW n \in Nat
  PROVE  /\ Units(n) \in Seq(Unit) /\ Len(Units(n)) = Parts
         /\ \A k \in 1 .. Parts : Units(n)[k] = <<n, k>>
BY BoundsAssumption DEF Units, Unit

(* A request is added behind the others, with all its units. *)
LEMMA FlowAppend ==
  ASSUME NEW units \in Seq(Unit), NEW done \in Nat, NEW p \in Seq(Nat), NEW n \in Nat,
         Flow(units, done, p)
  PROVE  Flow(units \o Units(n), done, Append(p, n))
<1>1. PICK at : Places(at, units, done, p)
  BY DEF Flow
<1> DEFINE all == units \o Units(n)
           q == Append(p, n)
           L == Len(units)
           next == [i \in 1 .. Len(all) |-> IF i <= L THEN at[i] ELSE Len(p) + 1]
<1>2. /\ Parts \in Nat \ {0} /\ L \in Nat /\ Len(p) \in Nat
      /\ Len(all) = L + Parts /\ all # <<>>
      /\ \A i \in 1 .. L : all[i] = units[i]
      /\ \A i \in L + 1 .. L + Parts : all[i] = Units(n)[i - L]
  <2> DEFINE u == Units(n)
  <2>1. u \in Seq(Unit) /\ Len(u) = Parts /\ Parts \in Nat \ {0}
    BY BoundsAssumption, UnitsOfRequest
  <2> HIDE DEF u
  <2>2. /\ L \in Nat /\ Len(p) \in Nat
        /\ Len(units \o u) = L + Parts
        /\ \A i \in 1 .. L : (units \o u)[i] = units[i]
        /\ \A i \in L + 1 .. L + Parts : (units \o u)[i] = u[i - L]
    BY <2>1, SMTT(60)
  <2>3. units \o u \in Seq(Unit) /\ L + Parts # 0
    BY <2>1, <2>2
  <2>4. units \o u # <<>>
    BY <2>2, <2>3
  <2> QED
    BY <2>1, <2>2, <2>4 DEF u
<1>3. \A i \in L + 1 .. L + Parts : all[i][1] = n /\ all[i][2] = i - L
  <2> SUFFICES ASSUME NEW i \in L + 1 .. L + Parts PROVE all[i][1] = n /\ all[i][2] = i - L
    OBVIOUS
  <2>1. i - L \in 1 .. Parts
    BY <1>2
  <2>2. all[i] = <<n, i - L>>
    BY <1>2, <2>1, UnitsOfRequest
  <2> QED
    BY <2>2
<1>4. /\ Len(q) = Len(p) + 1 /\ q[Len(p) + 1] = n
      /\ \A i \in 1 .. Len(p) : q[i] = p[i]
  OBVIOUS
<1>5. /\ done <= Len(p)
      /\ \A i \in 1 .. L : at[i] \in Nat /\ done < at[i] /\ at[i] <= Len(p)
  BY <1>1, PlaceType
<1> HIDE DEF all, q, L
<1>6. next \in [1 .. Len(all) -> done + 1 .. Len(q)]
  BY <1>2, <1>4, <1>5
<1>7. /\ \A i \in 1 .. L : i \in 1 .. Len(all) /\ next[i] = at[i]
      /\ \A i \in L + 1 .. L + Parts : i \in 1 .. Len(all) /\ next[i] = Len(p) + 1
      /\ \A i \in 1 .. Len(all) : i \in 1 .. L \/ i \in L + 1 .. L + Parts
  BY <1>2
<1> HIDE DEF next
<1>8. \A i \in 1 .. Len(all) : all[i][1] = q[next[i]]
  <2>1. ASSUME NEW i \in 1 .. L PROVE all[i][1] = q[next[i]]
    <3>1. at[i] \in 1 .. Len(p) /\ units[i][1] = p[at[i]]
      BY <1>1, <1>2, <1>5 DEF Places, L
    <3> QED
      BY <1>2, <1>4, <1>7, <3>1
  <2>2. ASSUME NEW i \in L + 1 .. L + Parts PROVE all[i][1] = q[next[i]]
    BY <1>3, <1>4, <1>7
  <2> QED
    BY <1>7, <2>1, <2>2
<1>9. \A i, j \in 1 .. Len(all) : i <= j => next[i] <= next[j]
  <2> SUFFICES ASSUME NEW i \in 1 .. Len(all), NEW j \in 1 .. Len(all), i <= j
               PROVE  next[i] <= next[j]
    OBVIOUS
  <2>1. CASE i \in 1 .. L /\ j \in 1 .. L
    <3>1. at[i] <= at[j]
      BY <1>1, <2>1 DEF Places, L
    <3> QED
      BY <1>7, <2>1, <3>1
  <2>2. CASE i \in 1 .. L /\ j \in L + 1 .. L + Parts
    <3>1. at[i] \in Nat /\ at[i] <= Len(p)
      BY <1>5, <2>2
    <3> QED
      BY <1>2, <1>7, <2>2, <3>1
  <2>3. CASE i \in L + 1 .. L + Parts /\ j \in L + 1 .. L + Parts
    BY <1>2, <1>7, <2>3
  <2> QED
    BY <1>2, <1>7, <2>1, <2>2, <2>3
<1>10. \A i \in 1 .. Len(all) - 1 : /\ all[i][2] = Parts => next[i + 1] = next[i] + 1
                                    /\ all[i][2] # Parts => next[i + 1] = next[i]
  <2> SUFFICES ASSUME NEW i \in 1 .. Len(all) - 1
               PROVE  /\ all[i][2] = Parts => next[i + 1] = next[i] + 1
                      /\ all[i][2] # Parts => next[i + 1] = next[i]
    OBVIOUS
  <2>1. CASE i < L
    <3>1. i \in 1 .. L /\ i + 1 \in 1 .. L /\ i \in 1 .. L - 1
      BY <1>2, <2>1
    <3>2. /\ units[i][2] = Parts => at[i + 1] = at[i] + 1
          /\ units[i][2] # Parts => at[i + 1] = at[i]
      BY <1>1, <3>1 DEF Places, L
    <3> QED
      BY <1>2, <1>7, <3>1, <3>2
  <2>2. CASE i = L
    <3>1. i \in 1 .. L /\ i + 1 \in L + 1 .. L + Parts /\ units # <<>>
      BY <1>2, <2>2 DEF L
    <3>2. at[i] = Len(p) /\ units[i][2] = Parts
      BY <1>1, <2>2, <3>1 DEF Places, L
    <3> QED
      BY <1>2, <1>7, <3>1, <3>2
  <2>3. CASE i > L
    <3>1. i \in L + 1 .. L + Parts /\ i + 1 \in L + 1 .. L + Parts /\ i - L # Parts
      BY <1>2, <2>3
    <3> QED
      BY <1>3, <1>7, <3>1
  <2> QED
    BY <2>1, <2>2, <2>3, <1>2
<1>11. next[1] = done + 1
  <2>1. CASE units = <<>>
    <3>1. L = 0 /\ done = Len(p)
      BY <1>1, <2>1 DEF Places, L
    <3> QED
      BY <1>2, <1>7, <3>1
  <2>2. CASE units # <<>>
    <3>1. 1 \in 1 .. L /\ at[1] = done + 1
      BY <1>1, <2>2 DEF Places, L
    <3> QED
      BY <1>7, <3>1
  <2> QED
    BY <2>1, <2>2
<1>12. next[Len(all)] = Len(q) /\ all[Len(all)][2] = Parts
  <2>1. L + Parts \in L + 1 .. L + Parts /\ (L + Parts) - L = Parts
    BY <1>2
  <2> QED
    BY <1>2, <1>3, <1>4, <1>7, <2>1
<1>13. Places(next, all, done, q)
  BY <1>2, <1>6, <1>8, <1>9, <1>10, <1>11, <1>12 DEF Places
<1> QED
  BY <1>13 DEF all, q, Flow

(* The oldest request is settled, all of whose units are read. *)
LEMMA FlowShift ==
  ASSUME NEW units \in Seq(Unit), NEW done \in Nat \ {0}, NEW p \in Seq(Nat), p # <<>>,
         Flow(units, done, p)
  PROVE  Flow(units, done - 1, Tail(p))
<1>1. PICK at : Places(at, units, done, p)
  BY DEF Flow
<1> DEFINE q == Tail(p)
           next == [i \in 1 .. Len(units) |-> at[i] - 1]
<1>2. /\ Len(p) \in Nat \ {0} /\ Len(q) = Len(p) - 1
      /\ \A i \in 1 .. Len(q) : q[i] = p[i + 1]
      /\ Len(units) \in Nat
  OBVIOUS
<1> HIDE DEF q
<1>3. \A i \in 1 .. Len(units) : at[i] \in Nat /\ done < at[i] /\ at[i] <= Len(p)
  BY <1>1, PlaceType
<1>4. next \in [1 .. Len(units) -> (done - 1) + 1 .. Len(q)]
  BY <1>2, <1>3
<1>5. \A i \in 1 .. Len(units) : units[i][1] = q[next[i]]
  <2> SUFFICES ASSUME NEW i \in 1 .. Len(units) PROVE units[i][1] = q[at[i] - 1]
    OBVIOUS
  <2>1. at[i] - 1 \in 1 .. Len(q) /\ (at[i] - 1) + 1 = at[i]
    BY <1>2, <1>3
  <2>2. units[i][1] = p[at[i]]
    BY <1>1 DEF Places
  <2>3. q[at[i] - 1] = p[(at[i] - 1) + 1]
    BY <1>2, <2>1
  <2> QED
    BY <2>1, <2>2, <2>3
<1>6. \A i, j \in 1 .. Len(units) : i <= j => next[i] <= next[j]
  BY <1>1, <1>3 DEF Places
<1>7. \A i \in 1 .. Len(units) - 1 : /\ units[i][2] = Parts => next[i + 1] = next[i] + 1
                                     /\ units[i][2] # Parts => next[i + 1] = next[i]
  <2> SUFFICES ASSUME NEW i \in 1 .. Len(units) - 1
               PROVE  /\ units[i][2] = Parts => next[i + 1] = next[i] + 1
                      /\ units[i][2] # Parts => next[i + 1] = next[i]
    OBVIOUS
  <2>1. i \in 1 .. Len(units) /\ i + 1 \in 1 .. Len(units)
    BY <1>2
  <2>2. /\ units[i][2] = Parts => at[i + 1] = at[i] + 1
        /\ units[i][2] # Parts => at[i + 1] = at[i]
    BY <1>1 DEF Places
  <2> QED
    BY <1>3, <2>1, <2>2, SMTT(60)
<1>8. units # <<>> => /\ next[1] = (done - 1) + 1 /\ next[Len(units)] = Len(q)
                     /\ units[Len(units)][2] = Parts
  <2> SUFFICES ASSUME units # <<>>
               PROVE  /\ next[1] = (done - 1) + 1 /\ next[Len(units)] = Len(q)
                      /\ units[Len(units)][2] = Parts
    OBVIOUS
  <2>1. 1 \in 1 .. Len(units) /\ Len(units) \in 1 .. Len(units)
    OBVIOUS
  <2>2. at[1] = done + 1 /\ at[Len(units)] = Len(p) /\ units[Len(units)][2] = Parts
    BY <1>1 DEF Places
  <2> QED
    BY <1>2, <2>1, <2>2
<1>9. units = <<>> => done - 1 = Len(q)
  BY <1>1, <1>2 DEF Places
<1>10. Places(next, units, done - 1, q)
  <2> HIDE DEF next
  <2> QED
    BY <1>4, <1>5, <1>6, <1>7, <1>8, <1>9 DEF Places
<1> QED
  BY <1>10 DEF q, Flow

-----------------------------------------------------------------------------
(* The invariant.                                                          *)

(* Nothing is on its way at first. *)
LEMMA InitIInv == Init => IInv
<1> SUFFICES ASSUME Init PROVE IInv
  OBVIOUS
<1> USE DEF Init
<1>1. TypeInv /\ AnswersInOrder
  BY DEF TypeInv, AnswersInOrder
<1>2. /\ incoming \o arrived = <<>> /\ outgoing \o write_buffer = <<>>
      /\ Len(incoming) + Len(arrived) = 0 /\ Len(pending) = 0
  OBVIOUS
<1>3. Places([i \in 1 .. 0 |-> 0], <<>>, 0, <<>>)
  BY DEF Places
<1>4. Flow(<<>>, 0, <<>>)
  BY <1>3 DEF Flow
<1> QED
  BY <1>1, <1>2, <1>4 DEF IInv, Pipeline

(* Nothing is left of a connection that is given up. *)
LEMMA BreakUpKeepsIInv ==
  ASSUME IInv, BreakUp
  PROVE  IInv'
<1>1. /\ pending' = <<>> /\ write_buffer' = <<>> /\ outgoing' = <<>> /\ incoming' = <<>>
      /\ arrived' = <<>> /\ closed' = FALSE /\ queue' = queue
  BY DEF BreakUp, CancelPending, Reconnect
<1>2. results' \in Seq(Int)
  <2>1. results \in Seq(Int)
    BY DEF IInv, TypeInv
  <2>2. results' = [n \in 1 .. Len(results) |->
                      IF n \in Range(pending) THEN Cancelled ELSE results[n]]
    BY <2>1 DEF BreakUp, CancelPending
  <2>3. \A n \in 1 .. Len(results) :
          (IF n \in Range(pending) THEN Cancelled ELSE results[n]) \in Int
    BY <2>1 DEF Cancelled
  <2> QED
    BY <2>1, <2>2, <2>3
<1>3. TypeInv' /\ AnswersInOrder'
  BY <1>1, <1>2 DEF IInv, TypeInv, AnswersInOrder
<1>4. Places([i \in 1 .. 0 |-> 0], <<>>, 0, <<>>)
  BY DEF Places
<1>5. Flow(<<>>, 0, <<>>)
  BY <1>4 DEF Flow
<1>6. Pipeline'
  <2>1. /\ (incoming \o arrived)' = <<>> /\ (outgoing \o write_buffer)' = <<>>
        /\ (Len(incoming) + Len(arrived))' = 0
    BY <1>1
  <2> QED
    BY <1>1, <1>5, <2>1 DEF Pipeline
<1> QED
  BY <1>3, <1>6 DEF IInv

-----------------------------------------------------------------------------
(* The steps that touch the pipeline. *)

(* The handler takes the queue, and writes out each request. *)
LEMMA TakeKeepsIInv ==
  ASSUME IInv, TakeRequests
  PROVE  IInv'
<1>1. /\ {incoming, arrived} \subseteq Seq(Nat)
      /\ {outgoing, write_buffer} \subseteq Seq(Unit) /\ {queue, pending} \subseteq Seq(Nat)
      /\ results \in Seq(Int)
  BY DEF IInv, TypeInv
<1>2. UNCHANGED <<incoming, arrived, outgoing, closed, results>>
  BY DEF TakeRequests, socket, server
<1>3. CASE UNCHANGED <<queue, pending, write_buffer>>
  BY <1>2, <1>3 DEF IInv, TypeInv, AnswersInOrder, Pipeline
<1>4. CASE ~UNCHANGED <<queue, pending, write_buffer>>
  <2> DEFINE n == Head(queue)
  <2>1. /\ n \in Nat /\ queue' \in Seq(Nat)
        /\ pending' = Append(pending, n) /\ write_buffer' = write_buffer \o Units(n)
    <3>1. queue # <<>>
      BY <1>4 DEF TakeRequests
    <3>2. /\ queue' = Tail(queue)
          /\ pending' = Append(pending, n) /\ write_buffer' = write_buffer \o Units(n)
      BY <3>1 DEF TakeRequests
    <3>3. queue \in Seq(Nat)
      BY <1>1
    <3> QED
      BY <3>1, <3>2, <3>3, HeadTailProperties
  <2> HIDE DEF n
  <2>2. Units(n) \in Seq(Unit)
    BY <2>1, UnitsOfRequest
  <2>3. /\ pending' \in Seq(Nat) /\ Len(pending') = Len(pending) + 1
        /\ \A i \in 1 .. Len(pending) : pending'[i] = pending[i]
    BY <1>1, <2>1
  <2>4. write_buffer' \in Seq(Unit)
    BY <1>1, <2>1, <2>2
  <2>5. TypeInv'
    BY <1>1, <1>2, <2>1, <2>3, <2>4 DEF TypeInv
  <2>6. Len(pending) \in Nat /\ Len(incoming) \in Nat /\ Len(arrived) \in Nat
        /\ Len(incoming \o arrived) \in Nat
    BY <1>1
  <2>7. AnswersInOrder'
    BY <1>2, <2>3, <2>6 DEF IInv, AnswersInOrder
  <2>8. ASSUME ~closed
        PROVE  Flow(outgoing \o write_buffer', Len(incoming) + Len(arrived), pending')
    <3>1. Flow(outgoing \o write_buffer, Len(incoming) + Len(arrived), pending)
      BY <2>8 DEF IInv, Pipeline
    <3> DEFINE done == Len(incoming) + Len(arrived)
               units == outgoing \o write_buffer
               u == Units(n)
    <3>2. /\ done \in Nat /\ units \in Seq(Unit) /\ pending \in Seq(Nat)
          /\ outgoing \in Seq(Unit) /\ write_buffer \in Seq(Unit) /\ u \in Seq(Unit)
      BY <1>1, <2>2, <2>6
    <3>3. outgoing \o (write_buffer \o u) = units \o u
      <4> HIDE DEF u
      <4> QED
        BY <3>2, ConcatAssociative, SMTT(60)
    <3> HIDE DEF done, units
    <3>4. Flow(units \o Units(n), done, Append(pending, n))
      BY <2>1, <3>1, <3>2, FlowAppend DEF units, done
    <3> QED
      BY <2>1, <3>3, <3>4 DEF done
  <2>9. Pipeline'
    BY <1>2, <2>3, <2>6, <2>8 DEF IInv, Pipeline
  <2> QED
    BY <2>5, <2>7, <2>9 DEF IInv
<1> QED
  BY <1>3, <1>4

(* Units go from the write buffer to the socket, in order. *)
LEMMA WriteKeepsUnits ==
  ASSUME IInv, Write
  PROVE  /\ (outgoing \o write_buffer)' = outgoing \o write_buffer
         /\ {outgoing, write_buffer}' \subseteq Seq(Unit)
<1>1. outgoing \in Seq(Unit) /\ write_buffer \in Seq(Unit)
  BY DEF IInv, TypeInv
<1>2. CASE UNCHANGED <<outgoing, write_buffer>>
  BY <1>1, <1>2
<1>3. CASE ~UNCHANGED <<outgoing, write_buffer>>
  <2> DEFINE n == IF Len(write_buffer) < Room THEN Len(write_buffer) ELSE Room
  <2>1. /\ Room > 0
        /\ outgoing' = outgoing \o SubSeq(write_buffer, 1, n)
        /\ write_buffer' = SubSeq(write_buffer, n + 1, Len(write_buffer))
    BY <1>3 DEF Write
  <2>2. n \in 0 .. Len(write_buffer)
    BY <1>1, <2>1, BoundsAssumption DEF Room
  <2> HIDE DEF n
  <2>3. (outgoing \o write_buffer)' = outgoing \o write_buffer
    BY <1>1, <2>1, <2>2, SplitAndJoined
  <2>4. {outgoing, write_buffer}' \subseteq Seq(Unit)
    BY <1>1, <2>1, <2>2, SplitAndJoined
  <2> QED
    BY <2>3, <2>4
<1> QED
  BY <1>2, <1>3

LEMMA WriteKeepsIInv ==
  ASSUME IInv, Write
  PROVE  IInv'
<1>1. UNCHANGED <<queue, pending, incoming, arrived, closed, results>>
  BY DEF Write, server
<1> QED
  BY <1>1, WriteKeepsUnits DEF IInv, TypeInv, AnswersInOrder, Pipeline

(* The server reads a unit: the first on the way, and with the last of a   *)
(* request the oldest one it has not read.                                 *)
LEMMA ServerReadKeepsIInv ==
  ASSUME IInv, ServerRead
  PROVE  IInv'
<1> DEFINE h == Head(outgoing)
           units == outgoing \o write_buffer
           done == Len(incoming) + Len(arrived)
<1>1. /\ outgoing \in Seq(Unit) /\ write_buffer \in Seq(Unit) /\ pending \in Seq(Nat)
      /\ incoming \in Seq(Nat) /\ arrived \in Seq(Nat)
  BY DEF IInv, TypeInv
<1>2. /\ outgoing # <<>> /\ ~closed /\ outgoing' = Tail(outgoing)
      /\ arrived' = IF h[2] = Parts THEN Append(arrived, h[1]) ELSE arrived
      /\ UNCHANGED <<queue, pending, write_buffer, incoming, closed, results>>
  BY DEF ServerRead, client
<1>3. /\ units \in Seq(Unit) /\ units # <<>> /\ Head(units) = h
      /\ Tail(units) = Tail(outgoing) \o write_buffer
      /\ Tail(outgoing) \in Seq(Unit) /\ h \in Unit
  BY <1>1, <1>2, TailOfJoined, ConcatProperties
<1>4. done \in Nat /\ Len(arrived) \in Nat /\ Len(incoming) \in Nat
  BY <1>1
<1>5. h[1] \in Nat
  BY <1>3 DEF Unit
<1> HIDE DEF h
<1>6. Flow(units, done, pending)
  BY <1>2 DEF IInv, Pipeline
<1>7. TypeInv'
  BY <1>1, <1>2, <1>3, <1>5, AppendProperties DEF IInv, TypeInv
<1>8. AnswersInOrder'
  BY <1>2 DEF IInv, AnswersInOrder
<1>9. CASE h[2] = Parts
  <2>1. /\ done + 1 <= Len(pending) /\ h[1] = pending[done + 1]
        /\ Flow(Tail(units), done + 1, pending)
    <3> HIDE DEF units, done
    <3> QED
      BY <1>1, <1>3, <1>4, <1>6, <1>9, FlowTail
  <2>2. arrived' = Append(arrived, h[1]) /\ Len(arrived') = Len(arrived) + 1
    BY <1>1, <1>2, <1>5, <1>9
  <2> DEFINE answers == incoming \o arrived
  <2>3. /\ answers \in Seq(Nat) /\ Len(answers) = done
        /\ \A i \in 1 .. done : i <= Len(pending) /\ answers[i] = pending[i]
    BY <1>1, <1>2, ConcatProperties DEF IInv, Pipeline
  <2>4. incoming \o arrived' = Append(answers, h[1])
    BY <1>1, <1>5, <2>2, AppendToJoined, SMTT(60)
  <2> HIDE DEF answers
  <2>5. \A i \in 1 .. Len(incoming \o arrived') :
          i <= Len(pending) /\ (incoming \o arrived')[i] = pending[i]
    <3> HIDE DEF done
    <3>1. /\ Len(Append(answers, h[1])) = done + 1
          /\ Append(answers, h[1])[done + 1] = h[1]
          /\ \A i \in 1 .. done : Append(answers, h[1])[i] = answers[i]
      BY <1>5, <2>3, AppendProperties
    <3> QED
      BY <1>4, <2>1, <2>3, <2>4, <3>1
  <2>6. Len(incoming) + Len(arrived') = done + 1
    BY <1>4, <2>2
  <2>7. outgoing' \o write_buffer = Tail(units)
    BY <1>2, <1>3
  <2>8. Pipeline'
    <3> HIDE DEF units, done
    <3> QED
      BY <1>2, <2>1, <2>5, <2>6, <2>7 DEF Pipeline
  <2> QED
    BY <1>7, <1>8, <2>8 DEF IInv
<1>10. CASE h[2] # Parts
  <2>1. Flow(Tail(units), done, pending)
    <3> HIDE DEF units, done
    <3> QED
      BY <1>1, <1>3, <1>4, <1>6, <1>10, FlowTail
  <2>2. arrived' = arrived /\ outgoing' \o write_buffer = Tail(units)
    BY <1>2, <1>3, <1>10
  <2>3. Pipeline'
    <3> HIDE DEF units
    <3> QED
      BY <1>2, <2>1, <2>2 DEF IInv, Pipeline
  <2> QED
    BY <1>7, <1>8, <2>3 DEF IInv
<1> QED
  BY <1>9, <1>10

(* It answers the oldest request it has read. *)
LEMMA ServeKeepsIInv ==
  ASSUME IInv, Serve
  PROVE  IInv'
<1>1. /\ outgoing \in Seq(Unit) /\ write_buffer \in Seq(Unit) /\ pending \in Seq(Nat)
      /\ incoming \in Seq(Nat) /\ arrived \in Seq(Nat) /\ arrived # <<>> /\ ~closed
  BY DEF IInv, TypeInv, AnswersInOrder, Serve
<1>2. /\ incoming' = Append(incoming, Head(arrived)) /\ arrived' = Tail(arrived)
      /\ UNCHANGED <<queue, pending, write_buffer, outgoing, closed, results>>
  BY DEF Serve
<1>3. /\ incoming' \in Seq(Nat) /\ arrived' \in Seq(Nat)
      /\ incoming' \o arrived' = incoming \o arrived
  BY <1>1, <1>2, HeadMoved, SMTT(60)
<1>4. Len(incoming') + Len(arrived') = Len(incoming) + Len(arrived)
  BY <1>1, <1>2
<1>5. TypeInv' /\ Pipeline'
  BY <1>2, <1>3, <1>4 DEF IInv, TypeInv, Pipeline
<1>6. AnswersInOrder'
  <2> SUFFICES ASSUME NEW i \in 1 .. Len(incoming')
               PROVE  i <= Len(pending) /\ incoming'[i] = pending[i]
    BY <1>1, <1>2 DEF AnswersInOrder
  <2>1. i \in 1 .. Len(incoming' \o arrived') /\ (incoming' \o arrived')[i] = incoming'[i]
    BY <1>3, ConcatProperties, LenProperties
  <2> QED
    BY <1>1, <1>3, <2>1 DEF IInv, Pipeline
<1> QED
  BY <1>5, <1>6 DEF IInv

(* The oldest request gets the first answer. *)
LEMMA ReadResponseKeepsIInv ==
  ASSUME IInv, ReadResponse
  PROVE  IInv'
<1> DEFINE units == outgoing \o write_buffer
           done == Len(incoming) + Len(arrived)
<1>1. /\ outgoing \in Seq(Unit) /\ write_buffer \in Seq(Unit)
      /\ pending \in Seq(Nat) /\ pending # <<>>
      /\ incoming \in Seq(Nat) /\ incoming # <<>> /\ arrived \in Seq(Nat)
      /\ results \in Seq(Int)
  BY DEF IInv, TypeInv, ReadResponse
<1>2. /\ results' = [results EXCEPT ![Head(pending)] = Head(incoming)]
      /\ pending' = Tail(pending) /\ incoming' = Tail(incoming)
      /\ UNCHANGED <<queue, arrived, write_buffer, outgoing, closed>>
  BY DEF ReadResponse, server
<1>3. /\ pending' \in Seq(Nat) /\ Len(pending') = Len(pending) - 1
      /\ \A i \in 1 .. Len(pending') : pending'[i] = pending[i + 1]
  BY <1>1, <1>2, HeadTailProperties
<1>4. /\ incoming' \in Seq(Nat) /\ Len(incoming') = Len(incoming) - 1
      /\ \A i \in 1 .. Len(incoming') : incoming'[i] = incoming[i + 1]
      /\ Head(incoming) \in Nat
  BY <1>1, <1>2, HeadTailProperties
<1>5. /\ Len(pending) \in Nat /\ Len(incoming) \in Nat \ {0} /\ Len(arrived) \in Nat
      /\ units \in Seq(Unit)
  BY <1>1, EmptySeq, LenProperties, ConcatProperties
<1>6. results' \in Seq(Int)
  <2>1. Head(incoming) \in Int
    BY <1>4
  <2> DEFINE a == Head(incoming)
             h == Head(pending)
  <2> HIDE DEF a, h
  <2>2. results' = [n \in 1 .. Len(results) |-> IF n = h THEN a ELSE results[n]]
    <3>1. results' = [results EXCEPT ![h] = a]
      BY <1>2 DEF a, h
    <3>2. DOMAIN results = 1 .. Len(results)
      BY <1>1
    <3> QED
      BY <3>1, <3>2
  <2>3. \A n \in 1 .. Len(results) : (IF n = h THEN a ELSE results[n]) \in Int
    BY <1>1, <2>1 DEF a
  <2> QED
    BY <1>1, <2>2, <2>3
<1>7. TypeInv'
  BY <1>1, <1>2, <1>3, <1>4, <1>6 DEF IInv, TypeInv
<1>8. AnswersInOrder'
  <2>1. closed' => arrived' = <<>>
    BY <1>2 DEF IInv, AnswersInOrder
  <2>2. ASSUME NEW i \in 1 .. Len(incoming')
        PROVE  \/ i <= Len(pending') /\ incoming'[i] = pending'[i]
               \/ incoming'[i] = Notice
    <3>1. i + 1 \in 1 .. Len(incoming)
      BY <1>4, <1>5
    <3>2. \/ i + 1 <= Len(pending) /\ incoming[i + 1] = pending[i + 1]
          \/ incoming[i + 1] = Notice
      BY <3>1 DEF IInv, AnswersInOrder
    <3> QED
      BY <1>3, <1>4, <1>5, <3>1, <3>2, SMTT(60)
  <2> QED
    BY <2>1, <2>2 DEF AnswersInOrder
<1>9. ASSUME ~closed
      PROVE  /\ \A i \in 1 .. Len(incoming' \o arrived) :
                  i <= Len(pending') /\ (incoming' \o arrived)[i] = pending'[i]
             /\ Flow(units, Len(incoming') + Len(arrived), pending')
  <2> DEFINE answers == incoming \o arrived
  <2>1. /\ answers \in Seq(Nat) /\ answers # <<>> /\ incoming' \o arrived = Tail(answers)
        /\ \A i \in 1 .. Len(answers) : i <= Len(pending) /\ answers[i] = pending[i]
    <3>1. answers \in Seq(Nat)
      BY <1>1, ConcatProperties
    <3>2. answers # <<>> /\ Tail(answers) = Tail(incoming) \o arrived
      BY <1>1, TailOfJoined
    <3>3. \A i \in 1 .. Len(answers) : i <= Len(pending) /\ answers[i] = pending[i]
      BY <1>9 DEF IInv, Pipeline
    <3> HIDE DEF answers
    <3> QED
      BY <1>2, <3>1, <3>2, <3>3
  <2> HIDE DEF answers
  <2>2. /\ Len(Tail(answers)) = Len(answers) - 1 /\ Len(answers) \in Nat
        /\ \A i \in 1 .. Len(Tail(answers)) : Tail(answers)[i] = answers[i + 1]
    BY <2>1, HeadTailProperties, LenProperties
  <2>3. ASSUME NEW i \in 1 .. Len(Tail(answers))
        PROVE  i <= Len(pending') /\ Tail(answers)[i] = pending'[i]
    <3>1. i + 1 \in 1 .. Len(answers)
      BY <2>2
    <3>2. i + 1 <= Len(pending) /\ answers[i + 1] = pending[i + 1]
      BY <2>1, <3>1
    <3> QED
      BY <1>3, <1>5, <2>2, <3>1, <3>2
  <2>4. Flow(units, done, pending) /\ done \in Nat \ {0}
    BY <1>5, <1>9 DEF IInv, Pipeline
  <2>5. Flow(units, done - 1, Tail(pending))
    <3> HIDE DEF units, done
    <3> QED
      BY <1>1, <1>5, <2>4, FlowShift
  <2>6. Len(incoming') + Len(arrived) = done - 1
    BY <1>4, <1>5
  <2> QED
    BY <1>2, <2>1, <2>3, <2>5, <2>6
<1>10. Pipeline'
  BY <1>2, <1>9 DEF Pipeline
<1> QED
  BY <1>7, <1>8, <1>10 DEF IInv

(* The connection is closed: some answers are lost, a notice may follow.   *)
LEMMA CloseKeepsIInv ==
  ASSUME IInv, Close
  PROVE  IInv'
<1>1. /\ incoming \in Seq(Nat) /\ arrived \in Seq(Nat) /\ ~closed
  BY DEF IInv, TypeInv, Close
<1>2. /\ closed' = TRUE /\ arrived' = <<>>
      /\ UNCHANGED <<queue, pending, write_buffer, outgoing, results>>
      /\ \/ \E n \in 0 .. Len(incoming) : incoming' = SubSeq(incoming, 1, n)
         \/ arrived = <<>> /\ incoming' = Append(incoming, Notice)
  BY DEF Close
<1>3. \A i \in 1 .. Len(incoming) : \/ i <= Len(pending) /\ incoming[i] = pending[i]
                                    \/ incoming[i] = Notice
  BY DEF IInv, AnswersInOrder
<1>4. /\ incoming' \in Seq(Nat)
      /\ \A i \in 1 .. Len(incoming') : \/ i <= Len(pending) /\ incoming'[i] = pending[i]
                                        \/ incoming'[i] = Notice
  <2>1. ASSUME NEW n \in 0 .. Len(incoming), incoming' = SubSeq(incoming, 1, n)
        PROVE  /\ incoming' \in Seq(Nat) /\ Len(incoming') = n
               /\ \A i \in 1 .. n : i \in 1 .. Len(incoming) /\ incoming'[i] = incoming[i]
    BY <1>1, <2>1
  <2>2. ASSUME incoming' = Append(incoming, Notice)
        PROVE  /\ incoming' \in Seq(Nat) /\ Len(incoming') = Len(incoming) + 1
               /\ \A i \in 1 .. Len(incoming) : incoming'[i] = incoming[i]
               /\ incoming'[Len(incoming) + 1] = Notice
    BY <1>1, <2>2 DEF Notice
  <2>3. CASE \E n \in 0 .. Len(incoming) : incoming' = SubSeq(incoming, 1, n)
    BY <1>3, <2>1, <2>3
  <2>4. CASE incoming' = Append(incoming, Notice)
    <3>1. \A i \in 1 .. Len(incoming') : i \in 1 .. Len(incoming) \/ i = Len(incoming) + 1
      BY <1>1, <2>2, <2>4
    <3> QED
      BY <1>3, <2>2, <2>4, <3>1
  <2> QED
    BY <1>2, <2>3, <2>4
<1> QED
  BY <1>2, <1>4, EmptySeq DEF IInv, TypeInv, AnswersInOrder, Pipeline

(* Every step keeps the invariant. *)
LEMMA StepKeepsIInv == IInv /\ [Next]_vars => IInv'
<1> SUFFICES ASSUME IInv, [Next]_vars PROVE IInv'
  OBVIOUS
<1>1. CASE UNCHANGED <<queue, pending, write_buffer, outgoing, incoming, arrived, closed, results>>
  BY <1>1 DEF IInv, TypeInv, AnswersInOrder, Pipeline
<1>2. CASE SendRequest
  <2>1. /\ queue' \in Seq(Nat) /\ results' \in Seq(Int)
    BY <1>2 DEF SendRequest, IInv, TypeInv, Waiting
  <2> QED
    BY <1>2, <2>1 DEF SendRequest, IInv, TypeInv, AnswersInOrder, Pipeline, socket, server
<1>3. CASE WriteFails \/ ReadFails
  BY <1>3, BreakUpKeepsIInv DEF WriteFails, ReadFails
<1>4. CASE Poll \/ Connect \/ ReadNothing
  BY <1>1, <1>4 DEF Poll, Connect, ReadNothing, socket, server
<1>5. CASE ServeStray
  BY <1>1, <1>5 DEF ServeStray, client, socket
<1>6. ASSUME NEW outcome, DialEnds(outcome) PROVE IInv'
  BY <1>1, <1>6 DEF DialEnds, socket, server
<1>7. CASE UNCHANGED vars
  BY <1>1, <1>7 DEF vars, client, socket, server
<1> QED
  BY <1>2, <1>3, <1>4, <1>5, <1>6, <1>7, TakeKeepsIInv, WriteKeepsIInv, ReadResponseKeepsIInv,
     ServerReadKeepsIInv, ServeKeepsIInv, CloseKeepsIInv
     DEF Next, PollStep, Network

-----------------------------------------------------------------------------
(* The refinement.                                                         *)

(* The requests that wait: every step of the client sends one, answers the *)
(* oldest, fails the pending ones, or leaves them as they are.             *)
LEMMA StepImplementsService ==
  ASSUME IInv, Next
  PROVE  [Service!Next]_<<pending \o queue, results>>
<1> USE DEF Service!Next
<1>1. {queue, pending} \subseteq Seq(Nat) /\ results \in Seq(Int)
  BY DEF IInv, TypeInv
<1>2. CASE UNCHANGED <<pending, queue, results>>
  BY <1>2
<1>3. CASE SendRequest
  <2>1. /\ pending' = pending /\ queue' = Append(queue, Len(results) + 1)
        /\ results' = Append(results, Waiting) /\ Len(results) + 1 \in Nat
    BY <1>1, <1>3 DEF SendRequest
  <2>2. pending' \o queue' = Append(pending \o queue, Len(results) + 1)
    BY <1>1, <2>1, AppendToJoined
  <2> QED
    BY <2>1, <2>2 DEF Service!Send
<1>4. CASE TakeRequests
  <2>1. CASE queue # <<>>
    <3>1. pending' = Append(pending, Head(queue)) /\ queue' = Tail(queue) /\ results' = results
      BY <1>4, <2>1 DEF TakeRequests
    <3>2. pending' \o queue' = pending \o queue
      BY <1>1, <2>1, <3>1, HeadMoved, SMTT(60)
    <3> QED
      BY <3>1, <3>2
  <2> QED
    BY <1>2, <1>4, <2>1 DEF TakeRequests
<1>5. CASE ReadResponse
  <2> DEFINE waiting == pending \o queue
  <2>1. /\ pending # <<>> /\ incoming # <<>> /\ pending' = Tail(pending) /\ queue' = queue
        /\ results' = [results EXCEPT ![Head(pending)] = Head(incoming)]
    BY <1>5 DEF ReadResponse
  <2>2. /\ waiting # <<>> /\ Head(waiting) = Head(pending)
        /\ Tail(waiting) = pending' \o queue'
    BY <1>1, <2>1, TailOfJoined
  <2>3. Head(incoming) \in {Head(pending), Notice}
    <3>1. incoming \in Seq(Nat) /\ 1 \in 1 .. Len(incoming)
      BY <2>1, EmptySeq DEF IInv, TypeInv
    <3>2. incoming[1] = pending[1] \/ incoming[1] = Notice
      BY <3>1 DEF IInv, AnswersInOrder
    <3> QED
      BY <1>1, <2>1, <3>1, <3>2
  <2> HIDE DEF waiting
  <2> QED
    BY <2>1, <2>2, <2>3 DEF Service!Reply, waiting
<1>6. CASE BreakUp
  <2>1. /\ pending' = <<>> /\ queue' = queue
        /\ results' = [n \in DOMAIN results |->
                         IF n \in Range(pending) THEN Cancelled ELSE results[n]]
    BY <1>6 DEF BreakUp, CancelPending
  <2>2. pending' \o queue' = queue
    BY <1>1, <2>1, ConcatEmptySeq
  <2>3. CASE pending = <<>>
    <3>1. Range(pending) = {}
      BY <2>3 DEF Range
    <3>2. results' = results
      BY <1>1, <2>1, <3>1
    <3> QED
      BY <1>1, <2>1, <2>2, <2>3, <3>2, ConcatEmptySeq
  <2>4. CASE pending # <<>>
    <3> DEFINE waiting == pending \o queue
               n == Len(pending)
    <3>1. n \in 1 .. Len(waiting)
      BY <1>1, <2>4, EmptySeq, ConcatProperties
    <3>2. queue = SubSeq(waiting, n + 1, Len(waiting))
      BY <1>1, RestOfJoined
    <3>3. \A r \in DOMAIN results :
            r \in Range(pending) <=> \E i \in 1 .. n : waiting[i] = r
      <4>1. \A i \in 1 .. n : waiting[i] = pending[i]
        BY <1>1, ConcatProperties
      <4>2. DOMAIN pending = 1 .. n
        BY <1>1
      <4> QED
        BY <4>1, <4>2 DEF Range
    <3> QED
      BY <2>1, <2>2, <3>1, <3>2, <3>3 DEF Service!Fail
  <2> QED
    BY <2>3, <2>4
<1>7. CASE Poll \/ Connect \/ Write \/ ReadNothing \/ Network
  BY <1>2, <1>7 DEF Poll, Connect, Write, ReadNothing, Network, DialEnds, ServerRead, Serve, Close,
                    ServeStray, client
<1> QED
  BY <1>3, <1>4, <1>5, <1>6, <1>7 DEF Next, PollStep, WriteFails, ReadFails

(* HttpClient is RequestService.                                           *)
THEOREM ClientImplementsService == Spec => IsRequestService
<1>1. Init => Service!Init
  BY ConcatEmptySeq DEF Init, Service!Init
<1>2. IInv /\ [Next]_vars => [Service!Next]_<<pending \o queue, results>>
  BY StepImplementsService DEF vars, client
<1> QED
  BY <1>1, <1>2, InitIInv, StepKeepsIInv, PTL DEF Spec, IsRequestService, Service!Spec

-----------------------------------------------------------------------------
(* No request is carried out twice, and the task never oversleeps.         *)

Below(S, T) == \A m \in S, n \in T : m < n

Increasing(s) == \A i, j \in 1 .. Len(s) : i < j => s[i] < s[j]

UnitsInOrder(units) ==
  \A i, j \in 1 .. Len(units) : i < j =>
    IF units[i][2] = Parts THEN units[i][1] < units[j][1] ELSE units[i][1] <= units[j][1]

RequestsOf(units) == {units[i][1] : i \in 1 .. Len(units)}

(* Requests go from the queue through buffer and socket to the server, and *)
(* what it has carried out, or may do so late, was sent before all that is *)
(* on its way: connections come one after the other, and each is a queue.  *)
Order ==
  /\ Increasing(arrived) /\ Increasing(queue) /\ UnitsInOrder(outgoing \o write_buffer)
  /\ Below(Range(served) \cup stray,
           Range(arrived) \cup RequestsOf(outgoing \o write_buffer) \cup Range(queue))
  /\ Below(Range(arrived), RequestsOf(outgoing \o write_buffer) \cup Range(queue))
  /\ Below(RequestsOf(outgoing \o write_buffer), Range(queue))
  /\ Range(served) \cup stray \cup Range(arrived) \cup RequestsOf(outgoing \o write_buffer)
       \cup Range(queue) \subseteq 1 .. Len(results)

OnceInv == Order /\ served \in Seq(Nat) /\ AtMostOnce /\ stray \cap Range(served) = {}

(* What sequences hold when they grow and shrink. *)
LEMMA RangeOfSequences ==
  ASSUME NEW S, NEW s \in Seq(S)
  PROVE  /\ Range(s) = {s[i] : i \in 1 .. Len(s)} /\ Range(s) \subseteq S
         /\ \A e \in S : Range(Append(s, e)) = Range(s) \cup {e}
         /\ s # <<>> => /\ Head(s) \in Range(s) /\ Range(s) = {Head(s)} \cup Range(Tail(s))
<1>1. DOMAIN s = 1 .. Len(s) /\ \A i \in 1 .. Len(s) : s[i] \in S
  OBVIOUS
<1>2. Range(s) = {s[i] : i \in 1 .. Len(s)} /\ Range(s) \subseteq S
  BY <1>1 DEF Range
<1>3. ASSUME NEW e \in S PROVE Range(Append(s, e)) = Range(s) \cup {e}
  <2> DEFINE t == Append(s, e)
  <2>1. /\ DOMAIN t = 1 .. Len(s) + 1 /\ t[Len(s) + 1] = e
        /\ \A i \in 1 .. Len(s) : t[i] = s[i]
    BY AppendProperties
  <2>2. Len(s) \in Nat
    OBVIOUS
  <2> HIDE DEF t
  <2>3. \A i \in 1 .. Len(s) + 1 : i = Len(s) + 1 \/ i \in 1 .. Len(s)
    BY <2>2
  <2>4. Len(s) + 1 \in 1 .. Len(s) + 1 /\ \A i \in 1 .. Len(s) : i \in 1 .. Len(s) + 1
    BY <2>2
  <2>5. Range(t) = {t[i] : i \in 1 .. Len(s) + 1}
    BY <2>1 DEF Range
  <2> QED
    BY <1>2, <2>1, <2>3, <2>4, <2>5 DEF t
<1>4. ASSUME s # <<>>
      PROVE  Head(s) \in Range(s) /\ Range(s) = {Head(s)} \cup Range(Tail(s))
  <2> DEFINE t == Tail(s)
  <2>1. /\ Len(s) \in Nat \ {0} /\ Head(s) = s[1] /\ DOMAIN t = 1 .. Len(s) - 1
        /\ \A i \in 1 .. Len(s) - 1 : t[i] = s[i + 1]
    BY <1>4
  <2> HIDE DEF t
  <2>2. 1 \in 1 .. Len(s) /\ \A i \in 1 .. Len(s) : i = 1 \/ i - 1 \in 1 .. Len(s) - 1
    BY <2>1
  <2>3. \A i \in 1 .. Len(s) - 1 : i + 1 \in 1 .. Len(s)
    BY <2>1
  <2>4. \A i \in 1 .. Len(s) : i = 1 \/ s[i] = t[i - 1]
    BY <2>1, <2>2
  <2>5. Range(t) = {t[i] : i \in 1 .. Len(s) - 1}
    BY <2>1 DEF Range
  <2>6. \A i \in 1 .. Len(s) - 1 : t[i] \in Range(s)
    BY <1>2, <2>1, <2>3
  <2>7. \A i \in 1 .. Len(s) : s[i] = Head(s) \/ s[i] \in Range(t)
    BY <2>1, <2>2, <2>4, <2>5
  <2>8. s[1] \in Range(s)
    BY <1>2, <2>2
  <2> QED
    BY <1>2, <2>1, <2>5, <2>6, <2>7, <2>8 DEF t
<1> QED
  BY <1>2, <1>3, <1>4

(* An increasing sequence loses its first, and gets a greater last. *)
LEMMA IncreasingSteps ==
  ASSUME NEW s \in Seq(Nat), Increasing(s)
  PROVE  /\ s # <<>> => Increasing(Tail(s)) /\ Below({Head(s)}, Range(Tail(s)))
         /\ \A e \in Nat : Below(Range(s), {e}) => Increasing(Append(s, e))
<1>1. ASSUME s # <<>> PROVE Increasing(Tail(s)) /\ Below({Head(s)}, Range(Tail(s)))
  <2> DEFINE t == Tail(s)
  <2>1. /\ Len(s) \in Nat \ {0} /\ Head(s) = s[1] /\ DOMAIN t = 1 .. Len(s) - 1
        /\ Len(t) = Len(s) - 1
        /\ \A i \in 1 .. Len(s) - 1 : t[i] = s[i + 1]
    BY <1>1
  <2> HIDE DEF t
  <2>2. \A i \in 1 .. Len(t) : i + 1 \in 1 .. Len(s) /\ 1 \in 1 .. Len(s) /\ 1 < i + 1
    BY <2>1
  <2>3. Increasing(t)
    <3> SUFFICES ASSUME NEW i \in 1 .. Len(t), NEW j \in 1 .. Len(t), i < j
                 PROVE  t[i] < t[j]
      BY DEF Increasing
    <3>1. i + 1 < j + 1
      OBVIOUS
    <3> QED
      BY <2>1, <2>2, <3>1 DEF Increasing
  <2>4. Range(t) = {t[i] : i \in 1 .. Len(t)}
    BY <2>1 DEF Range
  <2>5. \A i \in 1 .. Len(t) : s[1] < t[i]
    BY <2>1, <2>2 DEF Increasing
  <2> QED
    BY <2>1, <2>3, <2>4, <2>5 DEF Below, t
<1>2. ASSUME NEW e \in Nat, Below(Range(s), {e}) PROVE Increasing(Append(s, e))
  <2> DEFINE t == Append(s, e)
  <2>1. /\ Len(t) = Len(s) + 1 /\ t[Len(s) + 1] = e
        /\ \A i \in 1 .. Len(s) : t[i] = s[i]
    BY AppendProperties
  <2>2. \A i \in 1 .. Len(s) : s[i] < e
    BY <1>2, RangeOfSequences DEF Below
  <2>3. Len(s) \in Nat
    OBVIOUS
  <2> HIDE DEF t
  <2>4. \A i, j \in 1 .. Len(t) : i < j => i \in 1 .. Len(s) /\ (j \in 1 .. Len(s) \/ j = Len(s) + 1)
    BY <2>1, <2>3
  <2>5. Increasing(t)
    BY <2>1, <2>2, <2>4 DEF Increasing
  <2> QED
    BY <2>5 DEF t
<1> QED
  BY <1>1, <1>2

(* A unit is read, and the units of a new request are added. *)
LEMMA FirstUnitRead ==
  ASSUME NEW units \in Seq(Unit), units # <<>>, UnitsInOrder(units)
  PROVE  /\ UnitsInOrder(Tail(units))
         /\ RequestsOf(units) = {Head(units)[1]} \cup RequestsOf(Tail(units))
         /\ Head(units)[2] = Parts => Below({Head(units)[1]}, RequestsOf(Tail(units)))
<1> DEFINE t == Tail(units)
<1>1. /\ Len(units) \in Nat \ {0} /\ Head(units) = units[1] /\ Len(t) = Len(units) - 1
      /\ \A i \in 1 .. Len(units) - 1 : t[i] = units[i + 1]
  OBVIOUS
<1> HIDE DEF t
<1>2. \A i \in 1 .. Len(t) : i + 1 \in 1 .. Len(units) /\ 1 \in 1 .. Len(units) /\ 1 < i + 1
  BY <1>1
<1>3. UnitsInOrder(t)
  BY <1>1, <1>2 DEF UnitsInOrder
<1>4. ASSUME NEW i \in 1 .. Len(units), i # 1
      PROVE  i - 1 \in 1 .. Len(t) /\ units[i] = t[i - 1]
  <2>1. i - 1 \in 1 .. Len(units) - 1 /\ (i - 1) + 1 = i
    BY <1>1, <1>4
  <2>2. t[i - 1] = units[(i - 1) + 1]
    BY <1>1, <2>1
  <2> QED
    BY <1>1, <2>1, <2>2
<1>5. RequestsOf(units) = {units[1][1]} \cup RequestsOf(t)
  BY <1>1, <1>2, <1>4, SMTT(60) DEF RequestsOf
<1>6. units[1][2] = Parts => \A i \in 1 .. Len(t) : units[1][1] < t[i][1]
  BY <1>1, <1>2 DEF UnitsInOrder
<1> QED
  BY <1>1, <1>3, <1>5, <1>6 DEF RequestsOf, Below, t

LEMMA UnitsAdded ==
  ASSUME NEW units \in Seq(Unit), UnitsInOrder(units), NEW n \in Nat,
         Below(RequestsOf(units), {n})
  PROVE  /\ UnitsInOrder(units \o Units(n))
         /\ RequestsOf(units \o Units(n)) \subseteq RequestsOf(units) \cup {n}
<1> DEFINE all == units \o Units(n)
           L == Len(units)
<1>1. /\ Len(all) = L + Parts /\ L \in Nat
      /\ \A i \in 1 .. L + Parts : all[i] = IF i <= L THEN units[i] ELSE <<n, i - L>>
  <2>1. /\ Units(n) \in Seq(Unit) /\ Len(Units(n)) = Parts
        /\ \A k \in 1 .. Parts : Units(n)[k] = <<n, k>>
    BY UnitsOfRequest
  <2>2. /\ Len(all) = L + Parts /\ L \in Nat
        /\ \A i \in 1 .. L + Parts : all[i] = IF i <= L THEN units[i] ELSE Units(n)[i - L]
    <3> HIDE DEF Units
    <3>1. /\ Len(all) = Len(units) + Len(Units(n))
          /\ \A i \in 1 .. Len(units) + Len(Units(n)) :
               all[i] = IF i <= Len(units) THEN units[i] ELSE Units(n)[i - Len(units)]
      BY <2>1, ConcatProperties
    <3> QED
      BY <2>1, <3>1
  <2>3. \A i \in 1 .. L + Parts : i <= L \/ i - L \in 1 .. Parts
    BY <2>2, BoundsAssumption
  <2> QED
    BY <2>1, <2>2, <2>3
<1>2. \A i \in 1 .. L : units[i][1] < n
  BY DEF Below, RequestsOf
<1> HIDE DEF all, L
<1>3. \A i \in 1 .. Len(all) : all[i][1] = (IF i <= L THEN units[i][1] ELSE n)
                               /\ (i > L => all[i][2] = i - L)
  BY <1>1, BoundsAssumption
<1>4. ASSUME NEW i \in 1 .. Len(all), NEW j \in 1 .. Len(all), i < j
      PROVE  IF all[i][2] = Parts THEN all[i][1] < all[j][1] ELSE all[i][1] <= all[j][1]
  <2>1. CASE j <= L
    <3>1. i \in 1 .. L /\ j \in 1 .. L /\ all[i] = units[i] /\ all[j] = units[j]
      BY <1>1, <1>4, <2>1, BoundsAssumption
    <3> QED
      BY <1>4, <3>1 DEF UnitsInOrder, L
  <2>2. CASE i <= L /\ j > L
    <3>1. i \in 1 .. L /\ all[i][1] = units[i][1] /\ all[j][1] = n
      BY <1>1, <1>3, <2>2, BoundsAssumption
    <3>2. units[i][1] \in Nat
      BY <3>1 DEF Unit, L
    <3> QED
      BY <1>2, <3>1, <3>2
  <2>3. CASE i > L /\ j > L
    <3>1. all[i][1] = n /\ all[j][1] = n /\ all[i][2] = i - L /\ i - L < Parts
      BY <1>1, <1>3, <1>4, <2>3, BoundsAssumption
    <3> QED
      BY <3>1, <1>1, BoundsAssumption
  <2> QED
    BY <1>1, <1>4, <2>1, <2>2, <2>3, BoundsAssumption
<1>5. UnitsInOrder(all)
  BY <1>4 DEF UnitsInOrder
<1>6. RequestsOf(all) \subseteq RequestsOf(units) \cup {n}
  <2> SUFFICES ASSUME NEW i \in 1 .. Len(all)
               PROVE  all[i][1] \in RequestsOf(units) \cup {n}
    BY DEF RequestsOf
  <2>1. CASE i <= L
    BY <1>1, <1>3, <2>1, BoundsAssumption DEF RequestsOf, L
  <2>2. CASE ~(i <= L)
    BY <1>3, <2>2
  <2> QED
    BY <2>1, <2>2
<1> QED
  BY <1>5, <1>6 DEF all

(* A request is carried out that was not before. *)
LEMMA ServedOnce ==
  ASSUME OnceInv, NEW n \in Nat, n \notin Range(served), served' = Append(served, n)
  PROVE  served' \in Seq(Nat) /\ AtMostOnce' /\ Range(served)' = Range(served) \cup {n}
<1>1. served \in Seq(Nat) /\ AtMostOnce
  BY DEF OnceInv
<1>2. /\ served' \in Seq(Nat) /\ DOMAIN served' = 1 .. Len(served) + 1
      /\ served'[Len(served) + 1] = n
      /\ \A i \in 1 .. Len(served) : served'[i] = served[i]
  BY <1>1, AppendProperties
<1>3. DOMAIN served = 1 .. Len(served) /\ \A i \in 1 .. Len(served) : served[i] # n
  BY <1>1 DEF Range
<1>4. \A i \in 1 .. Len(served) + 1 : i \in 1 .. Len(served) \/ i = Len(served) + 1
  BY <1>1
<1>5. AtMostOnce'
  BY <1>1, <1>2, <1>3, <1>4 DEF AtMostOnce
<1> QED
  BY <1>1, <1>2, <1>5, RangeOfSequences

(* Every step keeps the order. *)
LEMMA StepKeepsOnce ==
  ASSUME IInv, OnceInv, [Next]_vars
  PROVE  OnceInv'
<1> DEFINE units == outgoing \o write_buffer
           gone == Range(served) \cup stray
<1>1. /\ {queue, arrived, served} \subseteq Seq(Nat) /\ results \in Seq(Int)
      /\ outgoing \in Seq(Unit) /\ write_buffer \in Seq(Unit) /\ units \in Seq(Unit)
  BY ConcatProperties DEF IInv, TypeInv, OnceInv
<1>2. /\ Increasing(arrived) /\ Increasing(queue) /\ UnitsInOrder(units)
      /\ Below(gone, Range(arrived) \cup RequestsOf(units) \cup Range(queue))
      /\ Below(Range(arrived), RequestsOf(units) \cup Range(queue))
      /\ Below(RequestsOf(units), Range(queue))
      /\ gone \cup Range(arrived) \cup RequestsOf(units) \cup Range(queue) \subseteq 1 .. Len(results)
      /\ AtMostOnce /\ stray \cap Range(served) = {}
  BY DEF OnceInv, Order
<1>3. ASSUME UNCHANGED <<queue, arrived, served, stray>>, units' = units,
             Len(results') = Len(results)
      PROVE  OnceInv'
  BY <1>3 DEF OnceInv, Order, AtMostOnce
<1>4. CASE SendRequest
  <2> DEFINE n == Len(results) + 1
  <2>1. /\ queue' = Append(queue, n) /\ results' = Append(results, Waiting)
        /\ UNCHANGED <<arrived, outgoing, write_buffer, served, stray>>
    BY <1>4 DEF SendRequest, socket, server
  <2>2. Len(results') = n /\ n \in Nat
    BY <1>1, <2>1
  <2>3. Below(1 .. Len(results), {n}) /\ 1 .. Len(results) \subseteq 1 .. n /\ n \in 1 .. n
    BY <1>1 DEF Below
  <2> HIDE DEF n
  <2>4. Range(queue') = Range(queue) \cup {n} /\ Increasing(queue')
    <3>1. Below(Range(queue), {n})
      BY <1>2, <2>3 DEF Below
    <3>2. queue \in Seq(Nat) /\ n \in Nat
      BY <1>1, <2>2
    <3>3. Range(Append(queue, n)) = Range(queue) \cup {n}
      BY <3>2, RangeOfSequences
    <3>4. Increasing(Append(queue, n))
      BY <1>2, <3>1, <3>2, IncreasingSteps
    <3> QED
      BY <2>1, <3>3, <3>4
  <2>5. /\ Below(gone, {n}) /\ Below(Range(arrived), {n}) /\ Below(RequestsOf(units), {n})
    BY <1>2, <2>3 DEF Below
  <2> QED
    BY <1>1, <1>2, <2>1, <2>2, <2>3, <2>4, <2>5 DEF OnceInv, Order, Below, AtMostOnce
<1>5. CASE TakeRequests /\ queue # <<>>
  <2> DEFINE h == Head(queue)
  <2>1. /\ queue' = Tail(queue) /\ write_buffer' = write_buffer \o Units(h)
        /\ UNCHANGED <<arrived, outgoing, served, stray, results>>
    BY <1>5 DEF TakeRequests, socket, server
  <2>2. /\ Range(queue) = {h} \cup Range(queue') /\ h \in Nat
        /\ Increasing(queue') /\ Below({h}, Range(queue')) /\ queue' \in Seq(Nat)
    <3>1. queue \in Seq(Nat) /\ queue # <<>> /\ Tail(queue) = queue'
      BY <1>1, <1>5, <2>1
    <3>2. h \in Nat /\ queue' \in Seq(Nat)
      BY <3>1
    <3>3. Range(queue) = {h} \cup Range(queue')
      BY <3>1, RangeOfSequences
    <3> QED
      BY <1>2, <3>1, <3>2, <3>3, IncreasingSteps
  <2> HIDE DEF h
  <2>3. units' = units \o Units(h)
    <3>1. Units(h) \in Seq(Unit)
      BY <2>2, UnitsOfRequest
    <3>2. (outgoing \o write_buffer) \o Units(h) = outgoing \o (write_buffer \o Units(h))
      BY <1>1, <3>1, ConcatAssociative, SMTT(60)
    <3> QED
      BY <2>1, <3>2
  <2>4. Below(RequestsOf(units), {h})
    BY <1>2, <2>2 DEF Below
  <2>5. UnitsInOrder(units') /\ RequestsOf(units') \subseteq RequestsOf(units) \cup {h}
    <3> HIDE DEF units
    <3> QED
      BY <1>1, <1>2, <2>2, <2>3, <2>4, UnitsAdded
  <2> QED
    BY <1>2, <2>1, <2>2, <2>5, <1>1 DEF OnceInv, Order, Below, AtMostOnce
<1>6. CASE BreakUp
  <2>1. /\ stray' = stray \cup Whole(outgoing) \cup Range(arrived) /\ units' = <<>>
        /\ arrived' = <<>> /\ queue' = queue /\ served' = served /\ DOMAIN results' = DOMAIN results
    BY <1>6 DEF BreakUp, CancelPending, Reconnect
  <2>2. Whole(outgoing) \subseteq RequestsOf(units)
    <3> SUFFICES ASSUME NEW i \in 1 .. Len(outgoing), NEW n, <<n, Parts>> = outgoing[i]
                 PROVE  n \in RequestsOf(units)
      <4>1. Range(outgoing) = {outgoing[i] : i \in 1 .. Len(outgoing)}
        BY <1>1, RangeOfSequences
      <4> QED
        BY <4>1 DEF Whole
    <3>1. i \in 1 .. Len(units) /\ units[i] = outgoing[i]
      BY <1>1, ConcatProperties
    <3> QED
      BY <3>1 DEF RequestsOf
  <2>3. Range(arrived') = {} /\ RequestsOf(units') = {} /\ Increasing(arrived')
        /\ UnitsInOrder(units') /\ arrived' \in Seq(Nat)
    BY <2>1 DEF Range, RequestsOf, Increasing, UnitsInOrder
  <2>4. Len(results') = Len(results)
    <3>1. DOMAIN results = 1 .. Len(results) /\ results' \in Seq(Int)
      BY <1>1, <1>6, BreakUpKeepsIInv DEF IInv, TypeInv
    <3> QED
      BY <1>1, <2>1, <3>1
  <2>5. Range(served) \cap (Range(arrived) \cup RequestsOf(units)) = {}
    BY <1>1, <1>2 DEF Below
  <2> QED
    BY <1>1, <1>2, <2>1, <2>2, <2>3, <2>4, <2>5 DEF OnceInv, Order, Below, AtMostOnce
<1>7. CASE ServerRead
  <2> DEFINE h == Head(outgoing)
  <2>1. /\ outgoing # <<>> /\ outgoing' = Tail(outgoing)
        /\ arrived' = IF h[2] = Parts THEN Append(arrived, h[1]) ELSE arrived
        /\ UNCHANGED <<queue, write_buffer, served, stray, results>>
    BY <1>7 DEF ServerRead, client
  <2>2. units # <<>> /\ h = Head(units) /\ units' = Tail(units) /\ h[1] \in Nat
    <3>1. units # <<>> /\ h = Head(units) /\ units' = Tail(units) /\ h \in Unit
      BY <1>1, <2>1, TailOfJoined
    <3> QED
      BY <3>1 DEF Unit
  <2> HIDE DEF h
  <2>3. /\ UnitsInOrder(units') /\ RequestsOf(units) = {h[1]} \cup RequestsOf(units')
        /\ h[2] = Parts => Below({h[1]}, RequestsOf(units'))
    <3> HIDE DEF units
    <3> QED
      BY <1>1, <1>2, <2>2, FirstUnitRead
  <2>4. CASE h[2] = Parts
    <3>1. Below(Range(arrived), {h[1]})
      BY <1>2, <2>3 DEF Below
    <3>2. Range(arrived') = Range(arrived) \cup {h[1]} /\ Increasing(arrived')
      <4>1. arrived \in Seq(Nat) /\ arrived' = Append(arrived, h[1])
        BY <1>1, <2>1, <2>4
      <4>2. Range(Append(arrived, h[1])) = Range(arrived) \cup {h[1]}
        BY <2>2, <4>1, RangeOfSequences
      <4>3. Increasing(Append(arrived, h[1]))
        BY <1>2, <2>2, <3>1, <4>1, IncreasingSteps
      <4> QED
        BY <4>1, <4>2, <4>3
    <3> QED
      BY <1>1, <1>2, <2>1, <2>3, <2>4, <3>2 DEF OnceInv, Order, Below, AtMostOnce
  <2>5. CASE h[2] # Parts
    BY <1>1, <1>2, <2>1, <2>3, <2>5 DEF OnceInv, Order, Below, AtMostOnce
  <2> QED
    BY <2>4, <2>5
<1>8. CASE Serve
  <2> DEFINE h == Head(arrived)
  <2>1. /\ arrived # <<>> /\ arrived' = Tail(arrived) /\ served' = Append(served, h)
        /\ UNCHANGED <<queue, outgoing, write_buffer, stray, results>>
    BY <1>8 DEF Serve
  <2>2. /\ Range(arrived) = {h} \cup Range(arrived') /\ h \in Nat
        /\ Increasing(arrived') /\ Below({h}, Range(arrived'))
    BY <1>1, <1>2, <2>1, RangeOfSequences, IncreasingSteps
  <2> HIDE DEF h
  <2>3. h \notin gone
    <3>1. \A m \in gone : m < h
      BY <1>2, <2>2 DEF Below
    <3> QED
      BY <2>2, <3>1
  <2>4. served' \in Seq(Nat) /\ AtMostOnce' /\ Range(served)' = Range(served) \cup {h}
    BY <2>1, <2>2, <2>3, ServedOnce
  <2> QED
    BY <1>1, <1>2, <2>1, <2>2, <2>3, <2>4, ZenonT(60) DEF OnceInv, Order, Below
<1>9. CASE Close
  <2>1. /\ stray' = stray \cup Range(arrived) /\ arrived' = <<>>
        /\ UNCHANGED <<queue, outgoing, write_buffer, served, results>>
    BY <1>9 DEF Close
  <2>2. Range(arrived') = {} /\ Increasing(arrived')
    BY <2>1 DEF Range, Increasing
  <2>3. Range(served) \cap Range(arrived) = {}
    BY <1>1, <1>2 DEF Below
  <2> QED
    BY <1>1, <1>2, <2>1, <2>2, <2>3 DEF OnceInv, Order, Below, AtMostOnce
<1>10. CASE ServeStray
  <2>1. PICK n \in stray : served' = Append(served, n) /\ stray' = stray \ {n}
    BY <1>10 DEF ServeStray
  <2>2. UNCHANGED <<queue, arrived, outgoing, write_buffer, results>>
    BY <1>10 DEF ServeStray, client, socket
  <2>3. n \in Nat /\ n \notin Range(served)
    BY <1>2
  <2>4. served' \in Seq(Nat) /\ AtMostOnce' /\ Range(served)' = Range(served) \cup {n}
    BY <2>1, <2>3, ServedOnce
  <2> QED
    BY <1>1, <1>2, <2>1, <2>2, <2>4 DEF OnceInv, Order, Below
<1>11. CASE Write
  BY <1>3, <1>11, WriteKeepsUnits DEF Write, server
<1>12. CASE ReadResponse
  <2>1. Len(results') = Len(results)
    BY <1>1, <1>12 DEF ReadResponse
  <2> QED
    BY <1>3, <1>12, <2>1 DEF ReadResponse, server
<1>13. CASE Poll \/ Connect \/ ReadNothing \/ (TakeRequests /\ queue = <<>>)
  BY <1>3, <1>13 DEF Poll, Connect, ReadNothing, TakeRequests, socket, server
<1>14. ASSUME NEW outcome, DialEnds(outcome) PROVE OnceInv'
  BY <1>3, <1>14 DEF DialEnds, socket, server
<1>15. CASE UNCHANGED vars
  BY <1>3, <1>15 DEF vars, client, socket, server
<1> QED
  BY <1>4, <1>5, <1>6, <1>7, <1>8, <1>9, <1>10, <1>11, <1>12, <1>13, <1>14, <1>15
     DEF Next, PollStep, Network, WriteFails, ReadFails

(* No request is carried out twice. *)
THEOREM RequestsAreServedOnce == Spec => []AtMostOnce
<1>1. Init => OnceInv
  BY EmptySeq DEF Init, OnceInv, Order, Increasing, UnitsInOrder, Below, RequestsOf, Range,
                  AtMostOnce
<1>2. OnceInv => AtMostOnce
  BY DEF OnceInv
<1> QED
  BY <1>1, <1>2, InitIInv, StepKeepsIInv, StepKeepsOnce, PTL DEF Spec

(* Where poll stands, and that a task which stops on a connection is       *)
(* registered and has taken the queue, so that whatever comes wakes it.    *)
AwakeInv ==
  /\ connection \in {"connecting", "connected"}
  /\ pc = "connect" => connection = "connecting"
  /\ pc \in {"take", "write", "read"} => connection = "connected"
  /\ pc \in {"write", "read"} => queue = <<>>
  /\ connection = "connected" /\ pc # "take" => task
  /\ SleepsOnlyWhenIdle

(* Every step keeps what a sleeping task relies on. *)
LEMMA StepKeepsAwake ==
  ASSUME AwakeInv, [Next]_vars
  PROVE  AwakeInv'
<1> USE DEF AwakeInv, SleepsOnlyWhenIdle
<1>1. CASE SendRequest
  <2>1. ~woken' => ~woken /\ ~task
    BY <1>1 DEF SendRequest
  <2>2. pc = "idle" /\ UNCHANGED <<task, pc, connection, dial, incoming, closed>>
    BY <1>1 DEF SendRequest, socket
  <2>3. SleepsOnlyWhenIdle'
    <3> SUFFICES ASSUME ~woken'
                 PROVE  connection # "connected" /\ (connection = "connecting" => dial = "pending")
      BY <2>2
    <3>1. connection # "connected"
      BY <2>1, <2>2
    <3> QED
      BY <2>1, <2>2, <3>1
  <2>4. task' <=> task
    BY <2>2
  <2> QED
    BY <2>2, <2>3, <2>4
<1>2. CASE Poll
  BY <1>2 DEF Poll, socket
<1>3. CASE Connect
  BY <1>3 DEF Connect, socket
<1>4. CASE TakeRequests
  BY <1>4 DEF TakeRequests, socket
<1>5. CASE Write
  BY <1>5 DEF Write
<1>6. CASE WriteFails \/ ReadFails
  BY <1>6 DEF WriteFails, ReadFails, BreakUp, CancelPending, Reconnect
<1>7. CASE ReadResponse
  BY <1>7 DEF ReadResponse
<1>8. CASE ReadNothing
  BY <1>8 DEF ReadNothing, socket
<1>9. ASSUME NEW outcome, DialEnds(outcome) PROVE AwakeInv'
  BY <1>9 DEF DialEnds, Wake, socket
<1>10. CASE ServerRead \/ ServeStray
  BY <1>10 DEF ServerRead, ServeStray, client, socket
<1>11. CASE Serve
  BY <1>11 DEF Serve, Wake
<1>12. CASE Close
  BY <1>12 DEF Close, Wake
<1>13. CASE UNCHANGED vars
  BY <1>13 DEF vars, client, socket
<1> QED
  BY <1>1, <1>2, <1>3, <1>4, <1>5, <1>6, <1>7, <1>8, <1>9, <1>10, <1>11, <1>12, <1>13
     DEF Next, PollStep, Network

(* While the task sleeps on a connection no request is queued, and no      *)
(* answer and no end of the connection waits for it; while it sleeps on a  *)
(* dial, the dial is under way.  Nothing is said of a rest of the write    *)
(* buffer, which may wait unwoken (http.rs:266).                           *)
THEOREM TaskIsWoken == Spec => []SleepsOnlyWhenIdle
<1>1. Init => AwakeInv
  BY DEF Init, AwakeInv, SleepsOnlyWhenIdle
<1>2. AwakeInv => SleepsOnlyWhenIdle
  BY DEF AwakeInv
<1> QED
  BY <1>1, <1>2, StepKeepsAwake, PTL DEF Spec

-----------------------------------------------------------------------------
(***************************************************************************)
(* MatrixSend: for any number of messages, failures and units, and         *)
(* whichever ids are drawn, a message that counts as sent is in the room,  *)
(* or swallowed for an earlier one with its id, and those that count stand *)
(* in the order they were typed.                                           *)
(***************************************************************************)

(* The messages whose answer has been read or lies in the socket. *)
Answered == {n \in DOMAIN results : results[n] > 0} \cup (Range(incoming) \ {Notice})

(* Only what was carried out is answered, and the answer to a message is   *)
(* its own.                                                                *)
AnswersInv ==
  /\ Answered \subseteq Range(served)
  /\ \A n \in DOMAIN results : results[n] > 0 => results[n] = n

(* The room has what was carried out, or a message with the same id; if an *)
(* answer is on its way, an earlier one, since what is carried out on a    *)
(* live connection was sent after all that was carried out before.  What   *)
(* follows it in the room may only be late, and is never answered.         *)
RoomInv ==
  /\ Len(txn) = Len(results) /\ txn \in Seq(Nat) /\ said \in Seq(Nat)
  /\ Range(said) \subseteq Range(served)
  /\ \A n \in Range(served) : \E m \in Range(said) : txn[m] = txn[n]
  /\ \A n \in Answered : \E m \in Range(said) : m <= n /\ txn[m] = txn[n]
  /\ \A i, j \in 1 .. Len(said) : i < j /\ said[j] \in Answered => said[i] < said[j]

SendInv == IInv /\ OnceInv /\ AnswersInv /\ RoomInv

-----------------------------------------------------------------------------
(* The steps of MatrixSend are steps of HttpClient. *)
LEMMA SendStepIsStep == [SendNext]_sendVars => [Next]_vars
BY DEF SendNext, sendVars, SendTextMessage, PollStepOfSend, SayArrived, SayStray, NetworkOfSend,
       Next, Network

(* A sequence that grew by one element. *)
LEMMA AfterAppend ==
  ASSUME NEW S, NEW s \in Seq(S), NEW e \in S, NEW t, t = Append(s, e)
  PROVE  /\ t \in Seq(S) /\ Len(t) = Len(s) + 1 /\ t[Len(s) + 1] = e
         /\ \A i \in 1 .. Len(s) : t[i] = s[i]
         /\ \A i \in 1 .. Len(t) : i \in 1 .. Len(s) \/ i = Len(s) + 1
         /\ Range(t) = Range(s) \cup {e}
<1>1. Append(s, e) \in Seq(S) /\ Len(s) \in Nat
  BY AppendProperties
<1>2. Len(t) = Len(s) + 1 /\ t[Len(s) + 1] = e /\ \A i \in 1 .. Len(s) : t[i] = s[i]
  BY AppendProperties
<1>3. Range(Append(s, e)) = Range(s) \cup {e}
  BY RangeOfSequences
<1>4. \A i \in 1 .. Len(s) + 1 : i \in 1 .. Len(s) \/ i = Len(s) + 1
  BY <1>1
<1> QED
  BY <1>1, <1>2, <1>3, <1>4

(* A request that is answered afresh was the oldest the server had read.   *)
LEMMA StepKeepsAnswers ==
  ASSUME IInv, OnceInv, AnswersInv, [Next]_vars
  PROVE  /\ AnswersInv'
         /\ Answered' \subseteq Answered \/ (Serve /\ Answered' \subseteq Answered \cup {Head(arrived)})
<1>1. /\ {queue, pending, incoming, arrived} \subseteq Seq(Nat) /\ results \in Seq(Int)
      /\ served \in Seq(Nat)
  BY DEF IInv, TypeInv, OnceInv
<1>2. DOMAIN results = 1 .. Len(results)
  BY <1>1
<1>3. Answered \subseteq Range(served) /\ \A n \in DOMAIN results : results[n] > 0 => results[n] = n
  BY DEF AnswersInv
<1>4. ASSUME UNCHANGED <<results, incoming, served>>
      PROVE  AnswersInv' /\ Answered' \subseteq Answered
  BY <1>3, <1>4 DEF AnswersInv, Answered
<1>5. CASE SendRequest
  <2>1. results' = Append(results, Waiting) /\ UNCHANGED <<incoming, served>>
    BY <1>5 DEF SendRequest, socket, server
  <2>2. /\ DOMAIN results' = 1 .. Len(results) + 1 /\ results'[Len(results) + 1] = Waiting
        /\ \A n \in 1 .. Len(results) : results'[n] = results[n]
    BY <1>1, <2>1
  <2>3. \A n \in DOMAIN results' : results'[n] > 0 => n \in DOMAIN results /\ results'[n] = results[n]
    BY <1>1, <1>2, <2>2 DEF Waiting
  <2> QED
    BY <1>3, <2>1, <2>3 DEF AnswersInv, Answered
<1>6. CASE BreakUp
  <2>1. /\ results' = [n \in DOMAIN results |->
                         IF n \in Range(pending) THEN Cancelled ELSE results[n]]
        /\ incoming' = <<>> /\ served' = served
    BY <1>6 DEF BreakUp, CancelPending, Reconnect
  <2>2. Range(incoming') = {}
    BY <2>1 DEF Range
  <2>3. \A n \in DOMAIN results' : results'[n] > 0 => n \in DOMAIN results /\ results'[n] = results[n]
    BY <1>1, <2>1 DEF Cancelled
  <2> QED
    BY <1>3, <2>1, <2>2, <2>3 DEF AnswersInv, Answered
<1>7. CASE ReadResponse
  <2> DEFINE h == Head(incoming)
  <2>1. /\ incoming # <<>> /\ pending # <<>> /\ incoming' = Tail(incoming) /\ served' = served
        /\ results' = [results EXCEPT ![Head(pending)] = h]
    BY <1>7 DEF ReadResponse, server
  <2>2. h \in Nat /\ Range(incoming) = {h} \cup Range(incoming')
    BY <1>1, <2>1, RangeOfSequences
  <2>3. h = Head(pending) \/ h = Notice
    <3>1. 1 \in 1 .. Len(incoming) /\ h = incoming[1] /\ Head(pending) = pending[1]
      BY <1>1, <2>1, EmptySeq
    <3> QED
      BY <3>1 DEF IInv, AnswersInOrder
  <2> HIDE DEF h
  <2>4. ASSUME NEW n \in DOMAIN results', results'[n] > 0
        PROVE  n \in Answered /\ results'[n] = n
    <3>1. n \in DOMAIN results /\ (n # Head(pending) => results'[n] = results[n])
      BY <2>1, <2>4
    <3>2. CASE n = Head(pending)
      <4>1. results'[n] = h
        BY <2>1, <3>1, <3>2
      <4>2. h = n /\ h # Notice
        BY <2>2, <2>3, <2>4, <3>2, <4>1 DEF Notice
      <4> QED
        BY <2>2, <4>1, <4>2 DEF Answered
    <3> QED
      BY <1>3, <2>4, <3>1, <3>2 DEF Answered
  <2>5. Answered' \subseteq Answered
    BY <2>2, <2>4 DEF Answered
  <2> QED
    BY <1>3, <2>1, <2>4, <2>5 DEF AnswersInv
<1>8. CASE Serve
  <2>1. /\ arrived # <<>> /\ served' = Append(served, Head(arrived))
        /\ incoming' = Append(incoming, Head(arrived)) /\ results' = results
    BY <1>8 DEF Serve
  <2>2. Head(arrived) \in Nat
    BY <1>1, <2>1
  <2>3. /\ Range(served') = Range(served) \cup {Head(arrived)}
        /\ Range(incoming') = Range(incoming) \cup {Head(arrived)}
    BY <1>1, <2>1, <2>2, RangeOfSequences
  <2> QED
    BY <1>3, <1>8, <2>1, <2>3 DEF AnswersInv, Answered
<1>9. CASE Close
  <2>1. /\ UNCHANGED <<results, served>>
        /\ \/ \E n \in 0 .. Len(incoming) : incoming' = SubSeq(incoming, 1, n)
           \/ incoming' = Append(incoming, Notice)
    BY <1>9 DEF Close
  <2>2. Range(incoming') \subseteq Range(incoming) \cup {Notice}
    <3>1. ASSUME NEW n \in 0 .. Len(incoming), incoming' = SubSeq(incoming, 1, n)
          PROVE  Range(incoming') \subseteq Range(incoming)
      <4>1. /\ DOMAIN incoming' = 1 .. n
            /\ \A i \in 1 .. n : i \in DOMAIN incoming /\ incoming'[i] = incoming[i]
        BY <1>1, <3>1
      <4> QED
        BY <4>1 DEF Range
    <3>2. Range(Append(incoming, Notice)) = Range(incoming) \cup {Notice}
      <4>1. incoming \in Seq(Nat) /\ Notice \in Nat
        BY <1>1 DEF Notice
      <4> QED
        BY <4>1, RangeOfSequences
    <3> QED
      BY <2>1, <3>1, <3>2
  <2> QED
    BY <1>3, <2>1, <2>2 DEF AnswersInv, Answered
<1>10. CASE ServeStray
  <2>1. PICK n \in stray : served' = Append(served, n)
    BY <1>10 DEF ServeStray
  <2>2. n \in Nat
    <3>1. stray \subseteq 1 .. Len(results)
      BY DEF OnceInv, Order
    <3> QED
      BY <3>1
  <2>3. Range(served') = Range(served) \cup {n}
    <3>1. served \in Seq(Nat) /\ n \in Nat
      BY <1>1, <2>2
    <3>2. Range(Append(served, n)) = Range(served) \cup {n}
      BY <3>1, RangeOfSequences
    <3> QED
      BY <2>1, <3>2
  <2>4. UNCHANGED <<results, incoming>>
    BY <1>10 DEF ServeStray, socket
  <2> QED
    BY <1>3, <2>3, <2>4 DEF AnswersInv, Answered
<1>11. CASE Poll \/ Connect \/ TakeRequests \/ Write \/ ReadNothing \/ ServerRead
  BY <1>4, <1>11 DEF Poll, Connect, TakeRequests, Write, ReadNothing, ServerRead, socket, server
<1>12. ASSUME NEW outcome, DialEnds(outcome) PROVE AnswersInv' /\ Answered' \subseteq Answered
  BY <1>4, <1>12 DEF DialEnds, socket, server
<1>13. CASE UNCHANGED vars
  BY <1>4, <1>13 DEF vars, socket, server
<1> QED
  BY <1>5, <1>6, <1>7, <1>8, <1>9, <1>10, <1>11, <1>12, <1>13
     DEF Next, PollStep, Network, WriteFails, ReadFails

-----------------------------------------------------------------------------
(* The room.                                                               *)

(* The homeserver carries out message n, which it had not before.          *)
LEMMA RoomAfterMessage ==
  ASSUME OnceInv, RoomInv, NEW n \in 1 .. Len(txn), n \notin Range(served),
         served' = Append(served, n), said' = SaidAfter(n), txn' = txn
  PROVE  /\ Range(served') = Range(served) \cup {n}
         /\ said' \in Seq(Nat) /\ Range(said') \subseteq Range(served')
         /\ Range(said) \subseteq Range(said')
         /\ \A k \in Range(served') : \E m \in Range(said') : txn[m] = txn[k]
         /\ \/ said' = said
            \/ said' = Append(said, n) /\ Range(said') = Range(said) \cup {n}
<1>1. /\ served \in Seq(Nat) /\ said \in Seq(Nat) /\ n \in Nat
      /\ Range(said) \subseteq Range(served)
      /\ \A k \in Range(served) : \E m \in Range(said) : txn[m] = txn[k]
  BY DEF OnceInv, RoomInv
<1>2. Range(served') = Range(served) \cup {n}
  <2>1. served \in Seq(Nat) /\ n \in Nat
    BY <1>1
  <2>2. Range(Append(served, n)) = Range(served) \cup {n}
    BY <2>1, RangeOfSequences
  <2> QED
    BY <2>2
<1>3. Range(Append(said, n)) = Range(said) \cup {n} /\ Append(said, n) \in Seq(Nat)
  <2>1. said \in Seq(Nat) /\ n \in Nat
    BY <1>1
  <2>2. Range(Append(said, n)) = Range(said) \cup {n}
    BY <2>1, RangeOfSequences
  <2> QED
    BY <2>1, <2>2, AppendProperties
<1>4. CASE \E m \in Range(served) : txn[m] = txn[n]
  BY <1>1, <1>2, <1>4 DEF SaidAfter
<1>5. CASE ~ \E m \in Range(served) : txn[m] = txn[n]
  BY <1>1, <1>2, <1>3, <1>5 DEF SaidAfter
<1> QED
  BY <1>4, <1>5

(* Every step keeps what is known of the room. *)
LEMMA StepKeepsRoom ==
  ASSUME SendInv, [SendNext]_sendVars
  PROVE  RoomInv'
<1>1. /\ IInv /\ OnceInv /\ AnswersInv /\ [Next]_vars
      /\ {queue, pending, incoming, arrived, served, txn, said} \subseteq Seq(Nat)
      /\ results \in Seq(Int)
  BY SendStepIsStep DEF SendInv, IInv, TypeInv, OnceInv, RoomInv
<1>2. /\ Answered \subseteq Range(served)
      /\ \/ Answered' \subseteq Answered
         \/ Serve /\ Answered' \subseteq Answered \cup {Head(arrived)}
  BY <1>1, StepKeepsAnswers DEF AnswersInv
<1>3. /\ Len(txn) = Len(results) /\ Range(said) \subseteq Range(served)
      /\ \A n \in Range(served) : \E m \in Range(said) : txn[m] = txn[n]
      /\ \A n \in Answered : \E m \in Range(said) : m <= n /\ txn[m] = txn[n]
      /\ \A i, j \in 1 .. Len(said) : i < j /\ said[j] \in Answered => said[i] < said[j]
  BY DEF SendInv, RoomInv
<1>4. Range(served) \cup stray \cup Range(arrived) \subseteq 1 .. Len(results)
  BY <1>1 DEF OnceInv, Order
<1>5. ASSUME UNCHANGED <<txn, said, served>>, Len(results') = Len(results), Answered' \subseteq Answered
      PROVE  RoomInv'
  BY <1>1, <1>3, <1>5 DEF RoomInv
<1>6. CASE SendTextMessage
  <2>1. PICK id \in Range(txn) \cup {Len(txn) + 1} : txn' = Append(txn, id)
    BY <1>6 DEF SendTextMessage
  <2>2. results' = Append(results, Waiting) /\ UNCHANGED <<said, served>> /\ ~Serve
    BY <1>1, <1>6 DEF SendTextMessage, SendRequest, Serve, server
  <2>3. id \in Nat
    <3>1. Range(txn) \subseteq Nat
      BY <1>1, RangeOfSequences
    <3> QED
      BY <1>1, <3>1
  <2>4. /\ txn' \in Seq(Nat) /\ Len(txn') = Len(results')
        /\ \A n \in 1 .. Len(txn) : txn'[n] = txn[n]
    BY <1>1, <1>3, <2>1, <2>2, <2>3, AppendProperties DEF Waiting
  <2>5. \A n \in Range(served) \cup Range(said) : txn'[n] = txn[n]
    BY <1>3, <1>4, <2>4
  <2>6. Answered' \subseteq Answered
    BY <1>2, <2>2
  <2>7. \A n \in Range(served) : \E m \in Range(said) : txn'[m] = txn'[n]
    BY <1>3, <2>5
  <2>8. \A n \in Answered' : \E m \in Range(said) : m <= n /\ txn'[m] = txn'[n]
    BY <1>2, <1>3, <2>5, <2>6
  <2> QED
    BY <1>1, <1>3, <2>2, <2>4, <2>6, <2>7, <2>8 DEF RoomInv
<1>7. CASE SayArrived
  <2> DEFINE n == Head(arrived)
  <2>1. /\ arrived # <<>> /\ served' = Append(served, n) /\ said' = SaidAfter(n)
        /\ txn' = txn /\ results' = results
    BY <1>7 DEF SayArrived, Serve
  <2>2. n \in Range(arrived)
    BY <1>1, <2>1, RangeOfSequences
  <2> HIDE DEF n
  <2>3. n \in 1 .. Len(txn) /\ \A m \in Range(served) : m < n
    BY <1>1, <1>3, <1>4, <2>2 DEF OnceInv, Order, Below
  <2>4. n \notin Range(served)
    BY <2>3
  <2>5. /\ Range(served') = Range(served) \cup {n}
        /\ said' \in Seq(Nat) /\ Range(said') \subseteq Range(served')
        /\ Range(said) \subseteq Range(said')
        /\ \A k \in Range(served') : \E m \in Range(said') : txn[m] = txn[k]
        /\ \/ said' = said
           \/ said' = Append(said, n) /\ Range(said') = Range(said) \cup {n}
    BY <1>1, <2>1, <2>3, <2>4, RoomAfterMessage DEF SendInv
  <2>6. Answered' \subseteq Answered \cup {n}
    BY <1>2 DEF n
  <2>7. ASSUME NEW k \in Answered'
        PROVE  \E m \in Range(said') : m <= k /\ txn[m] = txn[k]
    <3>1. CASE k \in Answered
      BY <1>3, <2>5, <3>1
    <3>2. CASE k = n
      <4>1. PICK m \in Range(said') : txn[m] = txn[n]
        BY <2>5
      <4>2. m = n \/ m < n
        BY <1>3, <2>3, <2>5, <4>1
      <4>3. n \in Nat
        BY <1>1, <2>3
      <4>4. m \in Nat
        BY <1>1, <2>5, RangeOfSequences
      <4> QED
        <5>1. m \in Nat /\ m <= n
          BY <2>3, <4>2, <4>3, <4>4
        <5> QED
          BY <3>2, <4>1, <5>1
    <3> QED
      BY <2>6, <3>1, <3>2
  <2>8. ASSUME NEW i \in 1 .. Len(said'), NEW j \in 1 .. Len(said'), i < j, said'[j] \in Answered'
        PROVE  said'[i] < said'[j]
    <3>1. \A l \in 1 .. Len(said) : said[l] \in Range(said) /\ said[l] # n /\ said[l] < n
      <4>1. \A l \in 1 .. Len(said) : said[l] \in Range(said)
        BY <1>1, RangeOfSequences
      <4> QED
        BY <1>3, <2>3, <2>4, <4>1
    <3>2. CASE said' = said
      BY <1>3, <2>6, <2>8, <3>1, <3>2
    <3>3. CASE said' = Append(said, n)
      <4>1. /\ Len(said') = Len(said) + 1 /\ said'[Len(said) + 1] = n
            /\ \A l \in 1 .. Len(said) : said'[l] = said[l]
        BY <1>1, <2>3, <3>3, AfterAppend
      <4>2. Len(said) \in Nat
        BY <1>1
      <4>3. i \in 1 .. Len(said) /\ (j \in 1 .. Len(said) \/ j = Len(said) + 1)
        BY <2>8, <4>1, <4>2
      <4> QED
        BY <1>3, <2>6, <2>8, <3>1, <4>1, <4>3
    <3> QED
      BY <2>5, <3>2, <3>3
  <2> QED
    BY <1>1, <1>3, <2>1, <2>5, <2>7, <2>8 DEF RoomInv
<1>8. CASE SayStray
  <2>1. PICK n \in stray : served' = Append(served, n)
    BY <1>8 DEF SayStray, ServeStray
  <2>2. txn' = txn /\ results' = results /\ incoming' = incoming /\ said' = SaidAfter(Last(served'))
    BY <1>8 DEF SayStray, ServeStray, socket
  <2>3. n \in 1 .. Len(txn) /\ n \notin Range(served) /\ n \in Nat
    BY <1>1, <1>3, <1>4 DEF OnceInv
  <2>4. Last(served') = n
    BY <1>1, <2>1, <2>3 DEF Last
  <2>5. /\ Range(served') = Range(served) \cup {n}
        /\ said' \in Seq(Nat) /\ Range(said') \subseteq Range(served')
        /\ Range(said) \subseteq Range(said')
        /\ \A k \in Range(served') : \E m \in Range(said') : txn[m] = txn[k]
        /\ \/ said' = said
           \/ said' = Append(said, n) /\ Range(said') = Range(said) \cup {n}
    BY <1>1, <2>1, <2>2, <2>3, <2>4, RoomAfterMessage DEF SendInv
  <2>6. Answered' = Answered
    BY <2>2 DEF Answered
  <2>7. \A k \in Answered' : \E m \in Range(said') : m <= k /\ txn[m] = txn[k]
    BY <1>3, <2>5, <2>6
  <2>8. ASSUME NEW i \in 1 .. Len(said'), NEW j \in 1 .. Len(said'), i < j, said'[j] \in Answered'
        PROVE  said'[i] < said'[j]
    <3>1. CASE said' = said
      BY <1>3, <2>6, <2>8, <3>1
    <3>2. CASE said' = Append(said, n)
      <4>1. /\ Len(said') = Len(said) + 1 /\ said'[Len(said) + 1] = n
            /\ \A l \in 1 .. Len(said) : said'[l] = said[l]
        BY <1>1, <2>3, <3>2, AfterAppend
      <4>2. j # Len(said) + 1
        BY <1>2, <2>3, <2>6, <2>8, <4>1
      <4>3. Len(said) \in Nat
        BY <1>1
      <4>4. i \in 1 .. Len(said) /\ j \in 1 .. Len(said)
        BY <2>8, <4>1, <4>2, <4>3
      <4> QED
        BY <1>3, <2>6, <2>8, <4>1, <4>4
    <3> QED
      BY <2>5, <3>1, <3>2
  <2> QED
    BY <1>1, <1>3, <2>2, <2>5, <2>7, <2>8 DEF RoomInv
<1>9. CASE PollStepOfSend
  <2>1. UNCHANGED <<txn, said, served>> /\ PollStep /\ ~Serve
    <3>1. UNCHANGED <<txn, said>> /\ PollStep
      BY <1>9 DEF PollStepOfSend
    <3>2. served' = served
      BY <3>1 DEF PollStep, Poll, Connect, TakeRequests, Write, WriteFails,
                  ReadResponse, ReadNothing, ReadFails, BreakUp, Reconnect, server
    <3>3. ~Serve
      BY <1>1, <3>2 DEF Serve
    <3> QED
      BY <3>1, <3>2, <3>3
  <2>2. Len(results') = Len(results)
    <3>1. CASE BreakUp
      <4>1. DOMAIN results' = DOMAIN results /\ results' \in Seq(Int)
        BY <1>1, <3>1, BreakUpKeepsIInv DEF BreakUp, CancelPending, IInv, TypeInv
      <4> QED
        BY <1>1, <4>1
    <3>2. CASE ReadResponse
      BY <1>1, <3>2 DEF ReadResponse
    <3>3. CASE results' = results
      BY <3>3
    <3> QED
      BY <2>1, <3>1, <3>2, <3>3 DEF PollStep, Poll, Connect, TakeRequests, Write, WriteFails,
                                    ReadNothing, ReadFails
  <2> QED
    BY <1>2, <1>5, <2>1, <2>2
<1>10. CASE NetworkOfSend
  <2>1. UNCHANGED <<txn, said, served, results>>
    BY <1>10 DEF NetworkOfSend, DialEnds, ServerRead, Close, server
  <2>2. ~Serve
    BY <1>1, <2>1 DEF Serve
  <2> QED
    BY <1>2, <1>5, <2>1, <2>2
<1>11. CASE UNCHANGED sendVars
  <2>1. UNCHANGED <<txn, said, served, results, incoming>>
    BY <1>11 DEF sendVars, vars, socket, server
  <2>2. Answered' = Answered
    BY <2>1 DEF Answered
  <2> QED
    BY <1>5, <2>1, <2>2
<1> QED
  BY <1>6, <1>7, <1>8, <1>9, <1>10, <1>11 DEF SendInv, SendNext

(* What a message that counts as sent can rely on. *)
LEMMA SendInvSuffices == SendInv => AcknowledgedIsSaid /\ SaidInOrder
<1> SUFFICES ASSUME SendInv PROVE AcknowledgedIsSaid /\ SaidInOrder
  OBVIOUS
<1>1. /\ results \in Seq(Int) /\ txn \in Seq(Nat) /\ said \in Seq(Nat)
      /\ Range(said) \subseteq Nat
  BY RangeOfSequences DEF SendInv, IInv, TypeInv, RoomInv
<1>2. \A n : Acknowledged(n) => n \in Answered /\ n \in Nat
  BY <1>1 DEF Acknowledged, Answered
<1>3. AcknowledgedIsSaid
  <2> SUFFICES ASSUME NEW n \in DOMAIN results, Acknowledged(n), n \notin Range(said)
               PROVE  \E m \in Range(said) : m < n /\ txn[m] = txn[n]
    BY DEF AcknowledgedIsSaid
  <2>1. PICK m \in Range(said) : m <= n /\ txn[m] = txn[n]
    BY <1>2 DEF SendInv, RoomInv
  <2>2. m # n /\ m \in Nat /\ n \in Nat
    BY <1>1, <1>2
  <2> QED
    BY <2>1, <2>2
<1>4. SaidInOrder
  <2>1. DOMAIN said = 1 .. Len(said)
    BY <1>1
  <2> QED
    BY <1>2, <2>1 DEF SaidInOrder, SendInv, RoomInv
<1> QED
  BY <1>3, <1>4

(* The invariant holds at the start. *)
LEMMA SendInitInv == SendInit => SendInv
<1> SUFFICES ASSUME SendInit PROVE SendInv
  OBVIOUS
<1>1. Init /\ txn = <<>> /\ said = <<>>
  BY DEF SendInit
<1>2. OnceInv
  BY <1>1, EmptySeq DEF Init, OnceInv, Order, Increasing, UnitsInOrder, Below, RequestsOf, Range,
                        AtMostOnce
<1>3. AnswersInv /\ RoomInv
  BY <1>1, EmptySeq DEF Init, AnswersInv, RoomInv, Answered, Range
<1> QED
  BY <1>1, <1>2, <1>3, InitIInv DEF SendInv

(* A message that counts as sent is in the room, or was swallowed for an   *)
(* earlier message with its transaction id.                                *)
THEOREM SentMessagesAreSaid == SendSpec => []AcknowledgedIsSaid
<1>1. SendInv /\ [SendNext]_sendVars => SendInv'
  BY SendStepIsStep, StepKeepsIInv, StepKeepsOnce, StepKeepsAnswers, StepKeepsRoom DEF SendInv
<1> QED
  BY <1>1, SendInitInv, SendInvSuffices, PTL DEF SendSpec

(* Messages that count as sent stand in the room as they were typed.       *)
THEOREM SentMessagesKeepOrder == SendSpec => []SaidInOrder
<1>1. SendInv /\ [SendNext]_sendVars => SendInv'
  BY SendStepIsStep, StepKeepsIInv, StepKeepsOnce, StepKeepsAnswers, StepKeepsRoom DEF SendInv
<1> QED
  BY <1>1, SendInitInv, SendInvSuffices, PTL DEF SendSpec
=============================================================================
