-------------------------- MODULE HttpParserProofs --------------------------
(***************************************************************************)
(* For any scripts and however the bytes arrive, HttpParser hands out the  *)
(* responses the server sent, in order, those that say where they end with *)
(* their own bodies.                                                       *)
(*                                                                         *)
(* What is on its way, from the parser's buffer to what the server has not *)
(* sent yet, is at every moment the rest of the script from the place that *)
(* curr_state and the responses returned so far stand for.                 *)
(***************************************************************************)
EXTENDS HttpParser, SequenceLemmas

-----------------------------------------------------------------------------
(* The units of a response, and what it is put together from.              *)

Units(r) ==
  {<<"head", r, 1>>, <<"head", r, 2>>, <<"cr", r>>, <<"lf", r>>, <<"junk", r>>}
    \cup {<<"size", r, i>> : i \in Nat} \cup {<<"size end", r, i>> : i \in Nat}
    \cup {<<"data", r, x[1], x[2]>> : x \in Nat \X Nat}

Unit == UNION {Units(r) : r \in Nat}

(* The two of the line with a chunk's size. *)
SizeBegin(r, i) == <<"size", r, i>>
EndTag == "size end"
SizeEnd(r, i) == <<EndTag, r, i>>

Framing(r) == script[r].framing
ChunkCount(r) == Len(script[r].chunks)

ChunkAt(r, i) == SizeLine(r, i) \o Data(r, i) \o LineEnd(r)
AllChunks(r) == [i \in DOMAIN script[r].chunks |-> ChunkAt(r, i)]
ChunksAfter(r, i) == FlattenSeq(Behind(AllChunks(r), i))

AllParts(r) == [i \in DOMAIN script[r].chunks |-> Data(r, i)]
DataUpTo(r, i) == FlattenSeq(SubSeq(AllParts(r), 1, i))

(* What ends the chunks. *)
LastLine(r) ==
  IF Framing(r) = "chunked" THEN SizeLine(r, ChunkCount(r) + 1) \o LineEnd(r) ELSE Junk(r)

Body(r) ==
  IF Framing(r) \in {"length", "none"} THEN Data(r, 1) ELSE ChunksAfter(r, 0) \o LastLine(r)

All == [r \in DOMAIN script |-> Encoded(r)]

(* What is sent behind the first n responses. *)
After(n) == FlattenSeq(Behind(All, n))

(* And behind the first i chunks of a response. *)
ChunksWay(r, i) == ChunksAfter(r, i) \o (LastLine(r) \o After(r))

(* A unit names its response. *)
LEMMA UnitsAre ==
  ASSUME NEW r
  PROVE  \A u \in Units(r) : u[2] = r
<1> SUFFICES ASSUME NEW u \in Units(r) PROVE u[2] = r
  OBVIOUS
<1>1. CASE u \in {<<"head", r, 1>>, <<"head", r, 2>>, <<"cr", r>>, <<"lf", r>>, <<"junk", r>>}
  BY <1>1
<1>2. CASE u \in {<<"size", r, i>> : i \in Nat}
  BY <1>2
<1>3. CASE u \in {<<"size end", r, i>> : i \in Nat}
  <2>1. PICK i \in Nat : u = <<"size end", r, i>>
    BY <1>3, Zenon
  <2> DEFINE tag == "size end"
  <2> HIDE DEF tag
  <2>2. u = <<tag, r, i>>
    BY <2>1 DEF tag
  <2> QED
    BY <2>2
<1>4. CASE u \in {<<"data", r, x[1], x[2]>> : x \in Nat \X Nat}
  BY <1>4
<1> QED
  BY <1>1, <1>2, <1>3, <1>4 DEF Units

(* Sequences of one and of two units. *)
LEMMA OneOrTwo ==
  ASSUME NEW S, NEW a \in S, NEW b \in S
  PROVE  /\ <<a>> \in Seq(S) /\ Len(<<a>>) = 1 /\ <<a>>[1] = a
         /\ <<a, b>> \in Seq(S) /\ Len(<<a, b>>) = 2 /\ <<a, b>>[1] = a /\ <<a, b>>[2] = b
OBVIOUS

(* A script is as assumed.                                                 *)
LEMMA ScriptIs ==
  ASSUME script \in Scripts
  PROVE  /\ Len(script) \in Nat /\ DOMAIN script = 1 .. Len(script)
         /\ \A r \in 1 .. Len(script) :
              /\ Framing(r) \in Framings
              /\ script[r].chunks \in Seq(Nat)
              /\ ChunkCount(r) \in Nat /\ DOMAIN script[r].chunks = 1 .. ChunkCount(r)
              /\ Framing(r) \in {"length", "none"} => ChunkCount(r) = 1
              /\ Framing(r) \in {"none", "bad_head", "bad_chunk"} => r = Len(script)
              /\ Framing(r) \in {"chunked", "bad_chunk"} =>
                   \A i \in 1 .. ChunkCount(r) : script[r].chunks[i] > 0
              /\ \A i \in 1 .. ChunkCount(r) : script[r].chunks[i] \in Nat
<1> DEFINE R == [framing : Framings, chunks : Seq(Nat)]
<1>1. script \in Seq(R)
  BY ScriptsAssumption
<1> HIDE DEF R
<1>2. Len(script) \in Nat /\ DOMAIN script = 1 .. Len(script) /\ \A r \in 1 .. Len(script) : script[r] \in R
  BY <1>1
<1>3. ASSUME NEW r \in 1 .. Len(script)
      PROVE  /\ Framing(r) \in Framings
             /\ script[r].chunks \in Seq(Nat)
             /\ ChunkCount(r) \in Nat /\ DOMAIN script[r].chunks = 1 .. ChunkCount(r)
             /\ \A i \in 1 .. ChunkCount(r) : script[r].chunks[i] \in Nat
  <2>1. script[r].framing \in Framings /\ script[r].chunks \in Seq(Nat)
    BY <1>2 DEF R
  <2> QED
    BY <2>1 DEF Framing, ChunkCount
<1>4. ASSUME NEW r \in 1 .. Len(script)
      PROVE  /\ script[r].framing \in {"length", "none"} => Len(script[r].chunks) = 1
             /\ script[r].framing \in {"chunked", "bad_chunk"} =>
                  \A i \in DOMAIN script[r].chunks : script[r].chunks[i] > 0
             /\ script[r].framing \in {"none", "bad_head", "bad_chunk"} => r = Len(script)
  BY <1>2, ScriptsAssumption
<1> QED
  BY <1>2, <1>3, <1>4 DEF Framing, ChunkCount

(* The pieces of a response are made of its units.                         *)
LEMMA PiecesAre ==
  ASSUME script \in Scripts, NEW r \in 1 .. Len(script)
  PROVE  /\ Head1(r) \in Seq(Units(r)) /\ Len(Head1(r)) = 2
         /\ Head1(r)[1] = <<"head", r, 1>> /\ Head1(r)[2] = <<"head", r, 2>>
         /\ Junk(r) \in Seq(Units(r)) /\ Len(Junk(r)) = 1 /\ Junk(r)[1] = <<"junk", r>>
         /\ LineEnd(r) \in Seq(Units(r)) /\ Len(LineEnd(r)) = 2
         /\ \A i \in Nat : /\ SizeLine(r, i) \in Seq(Units(r)) /\ Len(SizeLine(r, i)) = 2
                           /\ SizeLine(r, i)[1] = SizeBegin(r, i)
                           /\ SizeLine(r, i)[2] = SizeEnd(r, i)
         /\ \A i \in 1 .. ChunkCount(r) :
              /\ Data(r, i) \in Seq(Units(r)) /\ Len(Data(r, i)) = script[r].chunks[i]
              /\ \A k \in 1 .. script[r].chunks[i] : Data(r, i)[k] = <<"data", r, i, k>>
<1>1. \A i \in Nat : /\ SizeLine(r, i) \in Seq(Units(r)) /\ Len(SizeLine(r, i)) = 2
                     /\ SizeLine(r, i)[1] = SizeBegin(r, i)
                     /\ SizeLine(r, i)[2] = SizeEnd(r, i)
  <2> TAKE i \in Nat
  <2> DEFINE a == SizeBegin(r, i)
             b == SizeEnd(r, i)
  <2>1. a \in Units(r) /\ b \in Units(r)
    BY DEF Units, SizeBegin, SizeEnd, EndTag
  <2>2. SizeLine(r, i) = <<a, b>>
    BY DEF SizeLine, SizeBegin, SizeEnd, EndTag
  <2> HIDE DEF a, b
  <2>3. <<a, b>> \in Seq(Units(r)) /\ Len(<<a, b>>) = 2 /\ <<a, b>>[1] = a /\ <<a, b>>[2] = b
    BY <2>1, OneOrTwo DEF a, b
  <2> QED
    BY <2>2, <2>3 DEF a, b
<1>2. ASSUME NEW i \in 1 .. ChunkCount(r)
      PROVE  /\ Data(r, i) \in Seq(Units(r)) /\ Len(Data(r, i)) = script[r].chunks[i]
             /\ \A k \in 1 .. script[r].chunks[i] : Data(r, i)[k] = <<"data", r, i, k>>
  <2> DEFINE n == script[r].chunks[i]
  <2>1. n \in Nat /\ i \in Nat
    BY ScriptIs
  <2>2. ASSUME NEW k \in 1 .. n PROVE <<"data", r, i, k>> \in Units(r)
    <3> DEFINE x == <<i, k>>
    <3>1. x \in Nat \X Nat /\ <<"data", r, x[1], x[2]>> = <<"data", r, i, k>>
      BY <2>1
    <3> HIDE DEF x
    <3> QED
      BY <3>1 DEF Units
  <2> HIDE DEF n
  <2> DEFINE d == [k \in 1 .. n |-> <<"data", r, i, k>>]
  <2>3. d \in Seq(Units(r)) /\ Len(d) = n /\ \A k \in 1 .. n : d[k] = <<"data", r, i, k>>
    BY <2>1, <2>2
  <2>4. d = Data(r, i)
    BY DEF Data, n
  <2> QED
    BY <2>3, <2>4 DEF n
<1>3. /\ <<"head", r, 1>> \in Units(r) /\ <<"head", r, 2>> \in Units(r) /\ <<"junk", r>> \in Units(r)
      /\ <<"cr", r>> \in Units(r) /\ <<"lf", r>> \in Units(r)
  BY DEF Units
<1> DEFINE a == <<"head", r, 1>>
           b == <<"head", r, 2>>
           c == <<"cr", r>>
           d == <<"lf", r>>
           e == <<"junk", r>>
<1>4. a \in Units(r) /\ b \in Units(r) /\ c \in Units(r) /\ d \in Units(r) /\ e \in Units(r)
  BY <1>3
<1>5. Head1(r) = <<a, b>> /\ LineEnd(r) = <<c, d>> /\ Junk(r) = <<e>>
  BY DEF Head1, LineEnd, Junk
<1> HIDE DEF a, b, c, d, e
<1>6. /\ <<a, b>> \in Seq(Units(r)) /\ Len(<<a, b>>) = 2 /\ <<a, b>>[1] = a /\ <<a, b>>[2] = b
      /\ <<c, d>> \in Seq(Units(r)) /\ Len(<<c, d>>) = 2
      /\ <<e>> \in Seq(Units(r)) /\ Len(<<e>>) = 1 /\ <<e>>[1] = e
  BY <1>4, OneOrTwo
<1> QED
  BY <1>1, <1>2, <1>5, <1>6 DEF a, b, e

(* Pieces are made of units.                                               *)
LEMMA UnitsOfAll ==
  ASSUME NEW r \in Nat
  PROVE  /\ Units(r) \subseteq Unit
         /\ \A s \in Seq(Units(r)) : s \in Seq(Unit)
<1>1. Units(r) \subseteq Unit
  BY DEF Unit
<1> HIDE DEF Unit
<1> QED
  BY <1>1

(* The chunks of a response, and the response, from its pieces.            *)
LEMMA ChunksAre ==
  ASSUME script \in Scripts, NEW r \in 1 .. Len(script)
  PROVE  /\ AllChunks(r) \in Seq(Seq(Units(r))) /\ Len(AllChunks(r)) = ChunkCount(r)
         /\ \A i \in 1 .. ChunkCount(r) :
              /\ ChunkAt(r, i) \in Seq(Units(r))
              /\ AllChunks(r)[i] = ChunkAt(r, i)
              /\ ChunkAt(r, i) = SizeLine(r, i) \o (Data(r, i) \o LineEnd(r))
         /\ LastLine(r) \in Seq(Units(r))
         /\ Framing(r) \in {"chunked", "bad_chunk"} => Body(r) \in Seq(Units(r))
<1> DEFINE S == Seq(Units(r))
           n == ChunkCount(r)
<1>1. n \in Nat /\ DOMAIN script[r].chunks = 1 .. n /\ 1 .. n \subseteq Nat /\ n + 1 \in Nat
  <2>1. n \in Nat /\ DOMAIN script[r].chunks = 1 .. n
    BY ScriptIs
  <2> QED
    BY <2>1
<1>2. \A x, y \in S : x \o y \in S
  OBVIOUS
<1>3. /\ LineEnd(r) \in S /\ Junk(r) \in S
      /\ \A i \in Nat : SizeLine(r, i) \in S
      /\ \A i \in 1 .. n : Data(r, i) \in S
  BY PiecesAre
<1>4. ASSUME NEW i \in 1 .. n
      PROVE  /\ ChunkAt(r, i) \in S
             /\ ChunkAt(r, i) = SizeLine(r, i) \o (Data(r, i) \o LineEnd(r))
  <2>1. SizeLine(r, i) \in S /\ Data(r, i) \in S /\ LineEnd(r) \in S
    BY <1>1, <1>3
  <2>2. (SizeLine(r, i) \o Data(r, i)) \o LineEnd(r) = SizeLine(r, i) \o (Data(r, i) \o LineEnd(r))
    BY <2>1, ConcatAssociative, SMTT(60)
  <2> HIDE DEF S
  <2>3. (SizeLine(r, i) \o Data(r, i)) \o LineEnd(r) \in S
    BY <1>2, <2>1
  <2> QED
    BY <2>2, <2>3 DEF ChunkAt
<1>5. LastLine(r) \in S
  <2> HIDE DEF S
  <2> QED
    BY <1>1, <1>2, <1>3 DEF LastLine
<1>6. AllChunks(r) = [i \in 1 .. n |-> ChunkAt(r, i)]
  BY <1>1 DEF AllChunks
<1>7. /\ AllChunks(r) \in Seq(S) /\ Len(AllChunks(r)) = n
      /\ \A i \in 1 .. n : AllChunks(r)[i] = ChunkAt(r, i)
  <2> HIDE DEF S, n
  <2>1. \A i \in 1 .. n : ChunkAt(r, i) \in S
    BY <1>4
  <2> QED
    BY <1>1, <1>6, <2>1
<1>8. ASSUME Framing(r) \in {"chunked", "bad_chunk"} PROVE Body(r) \in S
  <2>1. 0 \in Nat /\ 0 <= Len(AllChunks(r))
    BY <1>1, <1>7
  <2>2. ChunksAfter(r, 0) \in S
    BY <1>7, <2>1, FlattenSeqBehind DEF ChunksAfter
  <2>3. ChunksAfter(r, 0) \o LastLine(r) \in S
    <3> HIDE DEF S
    <3> QED
      BY <1>2, <1>5, <2>2
  <2> QED
    BY <1>8, <2>3 DEF Body
<1> QED
  BY <1>4, <1>5, <1>7, <1>8

(* The same piece of the chunks, or of their data.                         *)
LEMMA ChunksAfterIs ==
  ASSUME script \in Scripts, NEW r \in 1 .. Len(script), NEW i \in 0 .. ChunkCount(r)
  PROVE  /\ ChunksAfter(r, i) \in Seq(Units(r))
         /\ i < ChunkCount(r) =>
              ChunksAfter(r, i) = ChunkAt(r, i + 1) \o ChunksAfter(r, i + 1)
         /\ i = ChunkCount(r) => ChunksAfter(r, i) = <<>>
<1> DEFINE n == ChunkCount(r)
           s == AllChunks(r)
<1>1. n \in Nat /\ i \in Nat /\ i <= n
  <2>1. n \in Nat
    BY ScriptIs
  <2> QED
    BY <2>1
<1>2. s \in Seq(Seq(Units(r))) /\ Len(s) = n /\ \A k \in 1 .. n : s[k] = ChunkAt(r, k)
  BY ChunksAre
<1>3. /\ i <= Len(s) => FlattenSeq(Behind(s, i)) \in Seq(Units(r))
      /\ i < Len(s) => /\ s[i + 1] \in Seq(Units(r))
                       /\ FlattenSeq(Behind(s, i)) = s[i + 1] \o FlattenSeq(Behind(s, i + 1))
      /\ i = Len(s) => FlattenSeq(Behind(s, i)) = <<>>
  <2> HIDE DEF s, n
  <2> QED
    BY <1>1, <1>2, FlattenSeqBehind
<1>4. i < n => i + 1 \in 1 .. n
  BY <1>1
<1> HIDE DEF s, n
<1>5. i < n => s[i + 1] = ChunkAt(r, i + 1)
  BY <1>2, <1>4
<1>6. /\ FlattenSeq(Behind(s, i)) \in Seq(Units(r))
      /\ i < n => FlattenSeq(Behind(s, i)) = ChunkAt(r, i + 1) \o FlattenSeq(Behind(s, i + 1))
      /\ i = n => FlattenSeq(Behind(s, i)) = <<>>
  <2>1. Len(s) = n /\ i <= n
    BY <1>1, <1>2
  <2> QED
    BY <1>3, <1>5, <2>1, Zenon
<1> QED
  BY <1>6 DEF ChunksAfter, s, n

(* The data of the first chunks. *)
LEMMA DataUpToIs ==
  ASSUME script \in Scripts, NEW r \in 1 .. Len(script), NEW i \in 0 .. ChunkCount(r)
  PROVE  /\ DataUpTo(r, i) \in Seq(Units(r))
         /\ i < ChunkCount(r) => DataUpTo(r, i + 1) = DataUpTo(r, i) \o Data(r, i + 1)
         /\ i = 0 => DataUpTo(r, i) = <<>>
         /\ i = ChunkCount(r) => DataUpTo(r, i) = AllData(r)
         /\ ChunkCount(r) = 1 => AllData(r) = Data(r, 1)
<1> DEFINE n == ChunkCount(r)
           s == AllParts(r)
           S == Seq(Units(r))
<1>1. n \in Nat /\ i \in Nat /\ i <= n /\ DOMAIN script[r].chunks = 1 .. n
  <2>1. n \in Nat /\ DOMAIN script[r].chunks = 1 .. n
    BY ScriptIs
  <2> QED
    BY <2>1
<1>2. \A k \in 1 .. n : Data(r, k) \in S
  BY PiecesAre
<1>3. s = [k \in 1 .. n |-> Data(r, k)]
  BY <1>1 DEF AllParts
<1> HIDE DEF n, s, S
<1>4. s \in Seq(S) /\ Len(s) = n /\ \A k \in 1 .. n : s[k] = Data(r, k)
  BY <1>1, <1>2, <1>3
<1> DEFINE p == SubSeq(s, 1, i)
<1>5. p \in Seq(S)
  BY <1>1, <1>4, FirstElements
<1>6. FlattenSeq(p) \in S
  BY <1>5, FlattenSeqType DEF S
<1>7. ASSUME i < n PROVE FlattenSeq(SubSeq(s, 1, i + 1)) = FlattenSeq(p) \o Data(r, i + 1)
  <2>1. i + 1 \in 1 .. n /\ i + 1 <= Len(s)
    BY <1>1, <1>4, <1>7
  <2>2. SubSeq(s, 1, i + 1) = Append(p, s[i + 1])
    BY <1>1, <1>4, <2>1, NextPrefix
  <2>3. s[i + 1] = Data(r, i + 1) /\ Data(r, i + 1) \in S
    BY <1>2, <1>4, <2>1
  <2> HIDE DEF p
  <2>4. FlattenSeq(Append(p, Data(r, i + 1))) = FlattenSeq(p) \o Data(r, i + 1)
    BY <1>5, <2>3, FlattenSeqAppend DEF S
  <2> QED
    BY <2>2, <2>3, <2>4
<1>8. ASSUME i = 0 PROVE FlattenSeq(p) = <<>>
  <2>1. p = <<>>
    BY <1>4, <1>8
  <2> QED
    BY <2>1, FlattenSeqEmpty
<1>9. AllData(r) = FlattenSeq(s)
  BY DEF AllData, s, AllParts
<1>10. ASSUME i = n PROVE FlattenSeq(p) = AllData(r)
  <2>1. p = s
    BY <1>4, <1>10
  <2> QED
    BY <1>9, <2>1
<1>11. ASSUME n = 1 PROVE AllData(r) = Data(r, 1)
  <2> DEFINE d == Data(r, 1)
  <2>1. d \in S
    BY <1>2, <1>11
  <2> HIDE DEF d
  <2>2. s = <<d>>
    <3>1. s = [k \in 1 .. 1 |-> Data(r, k)]
      BY <1>3, <1>11
    <3>2. [k \in 1 .. 1 |-> Data(r, k)] = [k \in 1 .. 1 |-> d]
      BY DEF d
    <3>3. [k \in 1 .. 1 |-> d] = <<d>>
      OBVIOUS
    <3> QED
      BY <3>1, <3>2, <3>3
  <2>3. FlattenSeq(<<d>>) = d
    BY <2>1, FlattenSeqOne DEF S
  <2> QED
    BY <1>9, <2>2, <2>3 DEF d
<1> QED
  BY <1>6, <1>7, <1>8, <1>10, <1>11 DEF DataUpTo, p, s, n, S

(* What is sent of a response is its head and its body, or no HTTP.        *)
LEMMA EncodedIs ==
  ASSUME script \in Scripts, NEW r \in 1 .. Len(script)
  PROVE  /\ Encoded(r) \in Seq(Units(r))
         /\ Framing(r) = "bad_head" => Encoded(r) = Junk(r)
         /\ Framing(r) # "bad_head" => /\ Body(r) \in Seq(Units(r))
                                       /\ Encoded(r) = Head1(r) \o Body(r)
<1> DEFINE S == Seq(Units(r))
           s == AllChunks(r)
           n == ChunkCount(r)
<1>1. \A x, y \in S : x \o y \in S
  OBVIOUS
<1>2. Head1(r) \in S /\ Junk(r) \in S /\ LastLine(r) \in S
  BY PiecesAre, ChunksAre
<1>3. n \in Nat /\ Framing(r) \in Framings
  BY ScriptIs
<1>4. CASE Framing(r) = "bad_head"
  BY <1>2, <1>4 DEF Encoded, Framing
<1>5. CASE Framing(r) \in {"length", "none"}
  <2>1. n = 1
    BY <1>5, ScriptIs
  <2>2. Data(r, 1) \in S
    <3>1. 1 \in 1 .. n
      BY <2>1
    <3> QED
      BY <3>1, PiecesAre
  <2>3. AllData(r) = Data(r, 1)
    <3>1. 0 \in 0 .. n
      BY <1>3
    <3> QED
      BY <2>1, <3>1, DataUpToIs
  <2>4. Encoded(r) = Head1(r) \o AllData(r) /\ Body(r) = Data(r, 1)
    BY <1>5 DEF Encoded, Framing, Body
  <2> HIDE DEF S
  <2>5. Head1(r) \o Data(r, 1) \in S
    BY <1>1, <1>2, <2>2
  <2> QED
    BY <1>5, <2>2, <2>3, <2>4, <2>5 DEF S
<1>6. CASE Framing(r) \in {"chunked", "bad_chunk"}
  <2>1. Chunks(r) = ChunksAfter(r, 0) /\ Chunks(r) \in S
    <3>1. s \in Seq(S) /\ Len(s) = n
      BY ChunksAre
    <3>2. Chunks(r) = FlattenSeq(s)
      BY DEF Chunks, AllChunks, ChunkAt
    <3>3. Behind(s, 0) = s
      <4> HIDE DEF s, S
      <4> QED
        BY <3>1 DEF Behind
    <3>4. 0 \in 0 .. n
      BY <1>3
    <3>5. ChunksAfter(r, 0) \in S
      BY <3>4, ChunksAfterIs
    <3> QED
      BY <3>2, <3>3, <3>5 DEF ChunksAfter
  <2>2. Encoded(r) = (Head1(r) \o Chunks(r)) \o LastLine(r)
    <3>1. CASE Framing(r) = "bad_chunk"
      BY <3>1 DEF Encoded, LastLine, Framing
    <3>2. CASE Framing(r) = "chunked"
      <4> DEFINE x == Head1(r) \o Chunks(r)
                 y == SizeLine(r, n + 1)
                 z == LineEnd(r)
      <4>1. Encoded(r) = x \o y \o z /\ LastLine(r) = y \o z
        BY <3>2 DEF Encoded, LastLine, Framing, ChunkCount
      <4>2. y \in S /\ z \in S
        <5>1. n + 1 \in Nat
          BY <1>3
        <5> QED
          BY <5>1, PiecesAre
      <4>3. x \in S
        <5> HIDE DEF S
        <5> QED
          BY <1>1, <1>2, <2>1
      <4> HIDE DEF x, y, z
      <4>4. x \o (y \o z) = (x \o y) \o z
        BY <4>2, <4>3, ConcatAssociative, SMTT(60)
      <4> QED
        BY <4>1, <4>4 DEF x
    <3> QED
      BY <1>6, <3>1, <3>2
  <2>3. (Head1(r) \o Chunks(r)) \o LastLine(r) = Head1(r) \o (Chunks(r) \o LastLine(r))
    BY <1>2, <2>1, ConcatAssociative, SMTT(60)
  <2>4. Body(r) = Chunks(r) \o LastLine(r)
    BY <1>6, <2>1 DEF Body
  <2> HIDE DEF S
  <2>5. Chunks(r) \o LastLine(r) \in S /\ Head1(r) \o (Chunks(r) \o LastLine(r)) \in S
    BY <1>1, <1>2, <2>1
  <2> QED
    BY <1>6, <2>2, <2>3, <2>4, <2>5 DEF S
<1> QED
  BY <1>3, <1>4, <1>5, <1>6 DEF Framings

(* Behind n responses comes the next, and those behind it.                 *)
LEMMA AfterIs ==
  ASSUME script \in Scripts, NEW n \in 0 .. Len(script)
  PROVE  /\ After(n) \in Seq(Unit)
         /\ n < Len(script) => /\ Encoded(n + 1) \in Seq(Unit)
                               /\ After(n) = Encoded(n + 1) \o After(n + 1)
         /\ n = Len(script) => After(n) = <<>>
         /\ \A i \in 1 .. Len(After(n)) : After(n)[i][2] > n
<1> DEFINE N == Len(script)
<1>1. N \in Nat /\ n \in Nat /\ n <= N /\ DOMAIN script = 1 .. N
  <2>1. N \in Nat /\ DOMAIN script = 1 .. N
    BY ScriptIs
  <2> QED
    BY <2>1
<1>2. \A r \in 1 .. N : Encoded(r) \in Seq(Units(r)) /\ Encoded(r) \in Seq(Unit)
  BY EncodedIs, UnitsOfAll
<1> HIDE DEF N
<1>3. All = [r \in 1 .. N |-> Encoded(r)]
  BY <1>1 DEF All
<1>4. All \in Seq(Seq(Unit)) /\ Len(All) = N /\ \A r \in 1 .. N : All[r] = Encoded(r)
  <2> DEFINE S == Seq(Unit)
  <2>1. \A r \in 1 .. N : Encoded(r) \in S
    BY <1>2
  <2> HIDE DEF S
  <2>2. All \in Seq(S) /\ Len(All) = N /\ \A r \in 1 .. N : All[r] = Encoded(r)
    BY <1>1, <1>3, <2>1
  <2> QED
    BY <2>2 DEF S
<1>5. /\ n <= Len(All) => FlattenSeq(Behind(All, n)) \in Seq(Unit)
      /\ n < Len(All) => /\ All[n + 1] \in Seq(Unit)
                         /\ FlattenSeq(Behind(All, n)) = All[n + 1] \o FlattenSeq(Behind(All, n + 1))
      /\ n = Len(All) => FlattenSeq(Behind(All, n)) = <<>>
  BY <1>1, <1>4, FlattenSeqBehind
<1>6. n < N => n + 1 \in 1 .. N
  BY <1>1
<1>7. ASSUME NEW i \in 1 .. Len(After(n)) PROVE After(n)[i][2] > n
  <2>1. PICK k \in n + 1 .. Len(All) : FlattenSeq(Behind(All, n))[i] \in Range(All[k])
    BY <1>1, <1>4, FlattenSeqBehindHolds DEF After
  <2>2. k \in 1 .. N /\ k > n
    BY <1>1, <1>4
  <2>3. Encoded(k) \in Seq(Units(k)) /\ All[k] = Encoded(k)
    BY <1>2, <1>4, <2>2
  <2>4. Range(Encoded(k)) \subseteq Units(k)
    BY <2>3 DEF Range
  <2>5. After(n)[i] \in Units(k)
    BY <2>1, <2>3, <2>4 DEF After
  <2> QED
    BY <2>2, <2>5, UnitsAre
<1> QED
  BY <1>1, <1>4, <1>5, <1>6, <1>7 DEF After, N

-----------------------------------------------------------------------------
(* The invariant.                                                          *)

(* What has still to pass the parser. *)
Way == response_buffer \o (stream \o unsent)

(* Where the parser is after n responses: before the head of the next,     *)
AtHead(n) == curr_state = Headers /\ Way = After(n)

(* in the body of response r,                                              *)
InBody(r) ==
  /\ Framing(r) = "length" /\ curr_state = RawData(script[r].chunks[1])
  /\ partial_response = [head |-> r, data |-> <<>>]
  /\ Way = Data(r, 1) \o After(r)

(* in one that ends with the connection,                                   *)
UntilEnd(r) ==
  /\ Framing(r) = "none" /\ curr_state = RawData(NoLength)
  /\ partial_response = [head |-> r, data |-> <<>>]
  /\ Way = Data(r, 1) \o After(r)

(* before one of its chunks or before the last,                            *)
InChunks(r) ==
  /\ Framing(r) \in {"chunked", "bad_chunk"} /\ curr_state = ChunkedData
  /\ \E i \in 0 .. ChunkCount(r) :
       /\ partial_response = [head |-> r, data |-> DataUpTo(r, i)]
       /\ Way = ChunksWay(r, i)

(* or behind the last response, with its body for the next head.           *)
AfterEnd(n) ==
  /\ curr_state = Headers /\ ended /\ stream = <<>> /\ n = Len(script)
  /\ response_buffer # <<>> => response_buffer[1][1] = "data"

Place(n) ==
  \/ AtHead(n) \/ AfterEnd(n)
  \/ n < Len(script) /\ (InBody(n + 1) \/ UntilEnd(n + 1) \/ InChunks(n + 1))

NextIsBroken(n) == n + 1 \in DOMAIN script /\ Framing(n + 1) \in {"bad_head", "bad_chunk"}

NextIsNotWhole(n) == n < Len(script) => ~Whole(n + 1)

(* Where it sleeps and where it gives up. *)
Stop(n) ==
  /\ pc = "idle" /\ stream = <<>> => NextIsNotWhole(n)
  /\ pc = "dropped" => NextIsNotWhole(n) /\ ((ended /\ stream = <<>>) \/ NextIsBroken(n))

(* What is returned as response r, and what is after n of them.            *)
Given(r) == IF Framing(r) = "none" THEN <<>> ELSE AllData(r)
Response(r) == [head |-> r, data |-> Given(r)]
Returned(n) == [r \in 1 .. n |-> Response(r)]

TypeInv ==
  /\ script \in Scripts
  /\ unsent \in Seq(Unit) /\ stream \in Seq(Unit) /\ response_buffer \in Seq(Unit)
  /\ ended \in BOOLEAN
  /\ pc \in {"idle", "poll", "dropped"}

(* After n responses. *)
InvAt(n) ==
  /\ TypeInv
  /\ n \in 0 .. Len(script) /\ returned = Returned(n)
  /\ \A r \in 1 .. n : Whole(r)
  /\ Place(n)
  /\ Stop(n)

IInv == \E n \in Nat : InvAt(n)

(* The script stays, and so does what it stands for. *)
LEMMA ScriptStays ==
  ASSUME script' = script, NEW r
  PROVE  /\ Framing(r)' = Framing(r) /\ ChunkCount(r)' = ChunkCount(r)
         /\ Body(r)' = Body(r) /\ Encoded(r)' = Encoded(r) /\ After(r)' = After(r)
         /\ LastLine(r)' = LastLine(r)
         /\ \A i : /\ Data(r, i)' = Data(r, i)
                   /\ ChunksAfter(r, i)' = ChunksAfter(r, i)
                   /\ DataUpTo(r, i)' = DataUpTo(r, i)
                   /\ ChunksWay(r, i)' = ChunksWay(r, i)
BY DEF ChunksWay, Framing, ChunkCount, Body, Encoded, After, All, LastLine, ChunksAfter, DataUpTo, AllChunks,
       AllParts, ChunkAt, Chunks, AllData, Data, SizeLine, LineEnd, Junk, Head1, Behind

(* And what has been returned. *)
LEMMA ReturnedStays ==
  ASSUME script' = script, NEW n
  PROVE  Returned(n)' = Returned(n)
BY DEF Returned, Response, Given, Framing, AllData, Data

(* What the buffer holds when the way is a piece and the rest. *)
LEMMA PieceOnTheWay ==
  ASSUME TypeInv, NEW c \in Seq(Unit), NEW d \in Seq(Unit), Way = c \o d
  PROVE  /\ \A i \in 1 .. Len(response_buffer) : i <= Len(c) => response_buffer[i] = c[i]
         /\ Len(response_buffer) < Len(c) /\ stream = <<>> =>
              unsent # <<>> /\ unsent[1] = c[Len(response_buffer) + 1]
         /\ Len(c) <= Len(response_buffer) =>
              /\ SubSeq(response_buffer, 1, Len(c)) = c
              /\ Behind(response_buffer, Len(c)) \o (stream \o unsent) = d
              /\ \E e \in Seq(Unit) : d = e \o unsent
<1> DEFINE a == response_buffer
           b == stream \o unsent
<1>1. a \in Seq(Unit) /\ stream \in Seq(Unit) /\ unsent \in Seq(Unit)
  BY DEF TypeInv
<1>2. b \in Seq(Unit) /\ a \o b = c \o d
  BY <1>1 DEF Way
<1> HIDE DEF a, b
<1>3. /\ \A i \in 1 .. Len(a) : i <= Len(c) => a[i] = c[i]
      /\ Len(a) < Len(c) => b # <<>> /\ b[1] = c[Len(a) + 1]
  BY <1>1, <1>2, HeadsAlike, ZenonT(60)
<1>4. stream = <<>> => b = unsent
  <2> SUFFICES ASSUME stream = <<>> PROVE b = unsent
    OBVIOUS
  <2>1. <<>> \o unsent = unsent
    BY <1>1
  <2> QED
    BY <2>1 DEF b
<1>5. ASSUME Len(c) <= Len(a)
      PROVE  /\ SubSeq(a, 1, Len(c)) = c
             /\ Behind(a, Len(c)) \o b = d
             /\ \E e \in Seq(Unit) : d = e \o unsent
  <2>1. SubSeq(a, 1, Len(c)) = c /\ Behind(a, Len(c)) \o b = d
    BY <1>1, <1>2, <1>5, CutTwice
  <2> DEFINE x == Behind(a, Len(c))
  <2>2. x \in Seq(Unit)
    <3>1. Len(c) \in Nat
      OBVIOUS
    <3> QED
      BY <1>1, <1>5, <3>1, BehindElements
  <2> HIDE DEF x
  <2>3. x \o stream \in Seq(Unit)
    BY <1>1, <2>2
  <2>4. x \o (stream \o unsent) = (x \o stream) \o unsent
    BY <1>1, <2>2, ConcatAssociative, SMTT(60)
  <2>5. x \o b = (x \o stream) \o unsent
    BY <2>4 DEF b
  <2>6. \E e \in Seq(Unit) : x \o b = e \o unsent
    BY <2>3, <2>5
  <2> QED
    BY <2>1, <2>6 DEF x
<1> QED
  BY <1>3, <1>4, <1>5 DEF a, b

(* The first units of the buffer are those of the piece. *)
LEMMA FirstOnTheWay ==
  ASSUME TypeInv, NEW c \in Seq(Unit), NEW d \in Seq(Unit), Way = c \o d,
         NEW i \in 1 .. Len(response_buffer), i <= Len(c)
  PROVE  response_buffer[i] = c[i]
BY PieceOnTheWay

(* When all of the first n responses has been sent. *)
LEMMA SentSoFar ==
  ASSUME NEW n, NEW e \in Seq(Unit), NEW d \in Seq(Unit), unsent \in Seq(Unit),
         d = e \o unsent, \A i \in 1 .. Len(d) : d[i][2] > n
  PROVE  \A i \in DOMAIN unsent : unsent[i][2] > n
<1>1. \A i \in 1 .. Len(unsent) : (e \o unsent)[Len(e) + i] = unsent[i]
  BY ConcatParts
<1>2. Len(d) = Len(e) + Len(unsent) /\ Len(e) \in Nat /\ Len(unsent) \in Nat
  BY ConcatProperties
<1>3. ASSUME NEW i \in 1 .. Len(unsent) PROVE unsent[i][2] > n
  <2>1. Len(e) + i \in 1 .. Len(d)
    BY <1>2
  <2>2. d[Len(e) + i][2] > n /\ d[Len(e) + i] = unsent[i]
    BY <1>1, <2>1
  <2> QED
    BY <2>2
<1> QED
  BY <1>3

(* Which place it is, by the state of the parser. *)
LEMMA PlaceIs ==
  ASSUME NEW n, InvAt(n)
  PROVE  /\ n \in Nat /\ Len(script) \in Nat /\ n <= Len(script)
         /\ curr_state = Headers => AtHead(n) \/ AfterEnd(n)
         /\ curr_state.tag = "RawData" /\ curr_state.len # NoLength =>
              n < Len(script) /\ InBody(n + 1)
         /\ curr_state.tag = "RawData" /\ curr_state.len = NoLength =>
              curr_state = RawData(NoLength)
         /\ curr_state = RawData(NoLength) => n < Len(script) /\ UntilEnd(n + 1)
         /\ curr_state = ChunkedData => n < Len(script) /\ InChunks(n + 1)
<1> DEFINE N == Len(script)
<1>1. n \in Nat /\ N \in Nat /\ n <= N
  <2>1. N \in Nat
    BY ScriptIs DEF InvAt, TypeInv
  <2> QED
    BY <2>1 DEF InvAt
<1>2. ASSUME n < N, InBody(n + 1)
      PROVE  curr_state.tag = "RawData" /\ curr_state.len \in Nat /\ curr_state.len # NoLength
  <2>1. n + 1 \in 1 .. N
    BY <1>1, <1>2
  <2>2. ChunkCount(n + 1) = 1 /\ \A i \in 1 .. ChunkCount(n + 1) : script[n + 1].chunks[i] \in Nat
    BY <1>2, <2>1, ScriptIs DEF InvAt, TypeInv, InBody
  <2>3. script[n + 1].chunks[1] \in Nat
    BY <2>2
  <2>4. curr_state = RawData(script[n + 1].chunks[1])
    BY <1>2 DEF InBody
  <2> QED
    BY <2>3, <2>4 DEF RawData, NoLength
<1>3. \/ AtHead(n) \/ AfterEnd(n)
      \/ n < N /\ (InBody(n + 1) \/ UntilEnd(n + 1) \/ InChunks(n + 1))
  BY DEF InvAt, Place
<1>4. AtHead(n) \/ AfterEnd(n) => curr_state = Headers
  BY DEF AtHead, AfterEnd
<1>5. UntilEnd(n + 1) => curr_state = RawData(NoLength)
  BY DEF UntilEnd
<1>6. InChunks(n + 1) => curr_state = ChunkedData
  BY DEF InChunks
<1>7. /\ Headers.tag = "Headers" /\ ChunkedData.tag = "ChunkedData"
      /\ RawData(NoLength).tag = "RawData" /\ RawData(NoLength).len = NoLength
  BY DEF Headers, ChunkedData, RawData
<1>8. /\ Headers # RawData(NoLength) /\ Headers # ChunkedData /\ ChunkedData # RawData(NoLength)
  BY <1>7
<1> HIDE DEF N
<1>9. curr_state.tag = "RawData" => curr_state # Headers /\ curr_state # ChunkedData
  BY <1>7
<1> QED
  BY <1>1, <1>2, <1>3, <1>4, <1>5, <1>6, <1>7, <1>8, <1>9, Zenon DEF N

(* What is ahead of the parser before the next head. *)
LEMMA HeadAhead ==
  ASSUME NEW n, InvAt(n), AtHead(n), n < Len(script), NEW r, r = n + 1
  PROVE  /\ r \in 1 .. Len(script)
         /\ After(r) \in Seq(Unit)
         /\ Framing(r) = "bad_head" =>
              Junk(r) \in Seq(Unit) /\ Way = Junk(r) \o After(r)
         /\ Framing(r) # "bad_head" =>
              /\ Head1(r) \in Seq(Unit) /\ Body(r) \in Seq(Unit)
              /\ Body(r) \o After(r) \in Seq(Unit)
              /\ Way = Head1(r) \o (Body(r) \o After(r))
<1>1. r \in 1 .. Len(script) /\ n \in 0 .. Len(script) /\ r \in 0 .. Len(script) /\ r \in Nat
  BY PlaceIs
<1>2. script \in Scripts
  BY DEF InvAt, TypeInv
<1>3. After(r) \in Seq(Unit)
  BY <1>1, <1>2, AfterIs
<1>4. Way = Encoded(r) \o After(r)
  BY <1>1, <1>2, AfterIs DEF AtHead
<1>5. \A s \in Seq(Units(r)) : s \in Seq(Unit)
  BY <1>1, UnitsOfAll
<1>6. Head1(r) \in Seq(Unit) /\ Junk(r) \in Seq(Unit)
  BY <1>1, <1>2, <1>5, PiecesAre
<1>7. ASSUME Framing(r) # "bad_head"
      PROVE  /\ Body(r) \in Seq(Unit) /\ Body(r) \o After(r) \in Seq(Unit)
             /\ Way = Head1(r) \o (Body(r) \o After(r))
  <2>1. Body(r) \in Seq(Unit) /\ Encoded(r) = Head1(r) \o Body(r)
    BY <1>1, <1>2, <1>5, <1>7, EncodedIs
  <2>2. Body(r) \o After(r) \in Seq(Unit)
    BY <1>3, <2>1
  <2>3. (Head1(r) \o Body(r)) \o After(r) = Head1(r) \o (Body(r) \o After(r))
    BY <1>3, <1>6, <2>1, ConcatAssociative, SMTT(60)
  <2> QED
    BY <1>4, <2>1, <2>2, <2>3
<1>8. Framing(r) = "bad_head" => Encoded(r) = Junk(r)
  BY <1>1, <1>2, EncodedIs
<1> QED
  BY <1>1, <1>3, <1>4, <1>6, <1>7, <1>8

(* Responses are numbered from one. *)
LEMMA ResponseNumber ==
  ASSUME script \in Scripts, NEW r \in 1 .. Len(script)
  PROVE  r \in Nat
BY ScriptIs

(* The next response is not whole while a piece of it has not come.        *)
LEMMA StillMissing ==
  ASSUME TypeInv, stream = <<>>, NEW r \in 1 .. Len(script),
         NEW c \in Seq(Units(r)), NEW d \in Seq(Unit), Way = c \o d,
         Len(response_buffer) < Len(c),
         Framing(r) = "none" => \A i \in 1 .. Len(c) : c[i][1] = "head"
  PROVE  ~Whole(r)
<1>1. r \in Nat
  BY ResponseNumber DEF TypeInv
<1>2. c \in Seq(Unit) /\ Len(response_buffer) \in Nat /\ Len(c) \in Nat
  <2>1. c \in Seq(Unit)
    BY <1>1, UnitsOfAll
  <2>2. Len(response_buffer) \in Nat /\ Len(c) \in Nat
    BY DEF TypeInv
  <2> QED
    BY <2>1, <2>2
<1>3. unsent # <<>> /\ unsent[1] = c[Len(response_buffer) + 1]
  BY <1>2, PieceOnTheWay
<1>4. Len(response_buffer) + 1 \in 1 .. Len(c)
  BY <1>2
<1>5. unsent[1] \in Units(r)
  BY <1>3, <1>4
<1>6. 1 \in DOMAIN unsent /\ unsent[1][2] = r
  BY <1>3, <1>5, UnitsAre DEF TypeInv
<1>7. ~ (unsent[1][2] > r)
  BY <1>1, <1>6
<1>8. Framing(r) = "none" => unsent[1][1] = "head"
  BY <1>3, <1>4
<1> QED
  BY <1>6, <1>7, <1>8 DEF Whole, Framing

(* The first two elements. *)
LEMMA FirstTwo ==
  ASSUME NEW S, NEW s \in Seq(S), Len(s) >= 2
  PROVE  SubSeq(s, 1, 2) = <<s[1], s[2]>> /\ SubSeq(s, 1, 2)[1] = s[1]
<1> DEFINE a == s[1]
           b == s[2]
           x == SubSeq(s, 1, 2)
           y == <<a, b>>
<1>1. a \in S /\ b \in S /\ 2 \in Nat /\ 2 <= Len(s)
  OBVIOUS
<1>2. x \in Seq(S) /\ Len(x) = 2 /\ \A i \in 1 .. 2 : x[i] = s[i]
  BY <1>1, FirstElements
<1> HIDE DEF a, b
<1>3. y \in Seq(S) /\ Len(y) = 2 /\ y[1] = a /\ y[2] = b
  BY <1>1, OneOrTwo
<1> HIDE DEF x, y
<1>4. \A i \in 1 .. 2 : x[i] = y[i]
  BY <1>2, <1>3 DEF a, b
<1>5. x = y
  BY <1>1, <1>2, <1>3, <1>4, SameElements
<1> QED
  BY <1>2, <1>5 DEF x, y, a, b

(* A head in the buffer is seen.                                           *)
LEMMA HeadIsSeen ==
  ASSUME NEW r, NEW b \in Seq(Unit), b # <<>>,
         \A i \in 1 .. Len(b) : i <= 2 => b[i] = Head1(r)[i]
  PROVE  HeadComplete(b) \/ HeadPartial(b)
<1>1. Head1(r)[1] = <<"head", r, 1>> /\ Head1(r)[2] = <<"head", r, 2>> /\ Len(b) \in Nat
  BY DEF Head1
<1>2. 1 \in 1 .. Len(b)
  BY <1>1
<1>3. b[1] = <<"head", r, 1>>
  BY <1>1, <1>2
<1>4. CASE Len(b) = 1
  BY <1>3, <1>4 DEF HeadPartial
<1>5. CASE Len(b) >= 2
  <2>1. b[2] = <<"head", r, 2>>
    BY <1>1, <1>5
  <2>2. b[1][2] = r
    BY <1>3
  <2>3. SubSeq(b, 1, 2) = <<b[1], b[2]>>
    BY <1>5, FirstTwo
  <2>4. SubSeq(b, 1, 2) = Head1(r)
    BY <1>3, <2>1, <2>3 DEF Head1
  <2> QED
    BY <1>5, <2>2, <2>4 DEF HeadComplete
<1>6. Len(b) = 1 \/ Len(b) >= 2
  <2> DEFINE n == Len(b)
  <2>1. n \in Nat /\ 1 \in 1 .. n
    BY <1>2
  <2> HIDE DEF n
  <2>2. n = 1 \/ n >= 2
    BY <2>1
  <2> QED
    BY <2>2 DEF n
<1> QED
  BY <1>4, <1>5, <1>6

(* What is seen as a head begins with one. *)
LEMMA HeadBegins ==
  ASSUME NEW b \in Seq(Unit), HeadComplete(b) \/ HeadPartial(b)
  PROVE  b # <<>> /\ b[1][1] = "head"
<1>1. CASE HeadPartial(b)
  BY <1>1 DEF HeadPartial
<1>2. CASE HeadComplete(b)
  <2>1. Len(b) >= 2 /\ SubSeq(b, 1, 2) = Head1(b[1][2])
    BY <1>2 DEF HeadComplete
  <2>2. SubSeq(b, 1, 2)[1] = b[1]
    <3>1. Len(b) >= 2
      BY <2>1
    <3> QED
      BY <3>1, FirstTwo
  <2>3. b[1] = <<"head", b[1][2], 1>>
    <3> DEFINE x == b[1][2]
    <3>1. Head1(x)[1] = <<"head", x, 1>>
      BY DEF Head1
    <3> HIDE DEF x
    <3>2. SubSeq(b, 1, 2) = Head1(x)
      BY <2>1 DEF x
    <3>3. b[1] = <<"head", x, 1>>
      BY <2>2, <3>1, <3>2
    <3> QED
      BY <3>3 DEF x
  <2> QED
    BY <2>1, <2>3
<1> QED
  BY <1>1, <1>2

-----------------------------------------------------------------------------
(* The steps of the parser.                                                *)

(* A piece is consumed.                                                    *)
LEMMA Consumed ==
  ASSUME TypeInv, NEW c \in Seq(Unit), NEW d \in Seq(Unit), Way = c \o d,
         Len(c) <= Len(response_buffer), Consume(Len(c)), UNCHANGED <<server, stream>>
  PROVE  /\ response_buffer' \in Seq(Unit) /\ Way' = d
         /\ \E e \in Seq(Unit) : d = e \o unsent
<1>1. response_buffer' = Behind(response_buffer, Len(c)) /\ stream' = stream /\ unsent' = unsent
  BY DEF Consume, Behind, server
<1>2. response_buffer' \in Seq(Unit)
  <2>1. Len(c) \in Nat /\ response_buffer \in Seq(Unit)
    BY DEF TypeInv
  <2> QED
    BY <1>1, <2>1, BehindElements
<1>3. /\ Behind(response_buffer, Len(c)) \o (stream \o unsent) = d
      /\ \E e \in Seq(Unit) : d = e \o unsent
  BY PieceOnTheWay
<1> QED
  BY <1>1, <1>2, <1>3 DEF Way

(* What the server has sent is as whole as before. *)
LEMMA WholeStays ==
  ASSUME NEW r, UNCHANGED server
  PROVE  Whole(r)' = Whole(r)
BY DEF Whole, server

(* A step that moves nothing but units. *)
LEMMA PlaceStays ==
  ASSUME NEW n, Place(n), Way' = Way, script' = script, UNCHANGED <<curr_state, partial_response>>,
         AfterEnd(n) => AfterEnd(n)'
  PROVE  Place(n)'
BY ScriptStays DEF Place, AtHead, InBody, UntilEnd, InChunks

(* A step to another place in the same response.                           *)
LEMMA GoesOn ==
  ASSUME NEW n, InvAt(n), UNCHANGED <<server, stream, pc, returned>>, pc = "poll",
         response_buffer' \in Seq(Unit), Place(n)'
  PROVE  InvAt(n)'
<1>1. TypeInv'
  BY DEF InvAt, TypeInv, server
<1>2. n \in 0 .. Len(script') /\ returned' = Returned(n)'
  BY ReturnedStays DEF InvAt, server
<1>3. \A r \in 1 .. n : Whole(r)'
  BY WholeStays DEF InvAt
<1>4. Stop(n)'
  BY DEF Stop
<1> QED
  BY <1>1, <1>2, <1>3, <1>4 DEF InvAt

(* A step that returns the next response.                                  *)
LEMMA ReturnsNext ==
  ASSUME NEW n, InvAt(n), UNCHANGED <<server, stream, pc>>, pc = "poll",
         response_buffer' \in Seq(Unit), n < Len(script),
         returned' = Append(returned, Response(n + 1)), Whole(n + 1), Place(n + 1)'
  PROVE  InvAt(n + 1)'
<1>1. TypeInv'
  BY DEF InvAt, TypeInv, server
<1>2. n \in Nat /\ Len(script) \in Nat
  BY PlaceIs
<1>3. n + 1 \in 0 .. Len(script') /\ returned' = Returned(n + 1)'
  <2>1. script' = script /\ returned = Returned(n)
    BY DEF InvAt, server
  <2>2. Append(Returned(n), Response(n + 1)) = Returned(n + 1)
    BY <1>2 DEF Returned
  <2>3. Returned(n + 1)' = Returned(n + 1)
    BY <2>1, ReturnedStays
  <2> QED
    BY <1>2, <2>1, <2>2, <2>3
<1>4. \A r \in 1 .. n + 1 : Whole(r)'
  <2>1. \A r \in 1 .. n : Whole(r)
    BY DEF InvAt
  <2>2. \A r \in 1 .. n + 1 : r \in 1 .. n \/ r = n + 1
    BY <1>2
  <2> QED
    BY <2>1, <2>2, WholeStays
<1>5. Stop(n + 1)'
  BY DEF Stop
<1> QED
  BY <1>1, <1>3, <1>4, <1>5 DEF InvAt

(* A step that gives up.                                                   *)
LEMMA GivesUp ==
  ASSUME NEW n, InvAt(n), Fail, NextIsNotWhole(n), (ended /\ stream = <<>>) \/ NextIsBroken(n)
  PROVE  InvAt(n)'
<1>1. /\ UNCHANGED <<server, stream, parser, returned>> /\ pc' = "dropped"
      /\ script' = script /\ ended' = ended /\ stream' = stream /\ unsent' = unsent
      /\ response_buffer' = response_buffer /\ curr_state' = curr_state
      /\ partial_response' = partial_response
  BY DEF Fail, server, parser
<1>2. TypeInv'
  BY <1>1 DEF InvAt, TypeInv
<1>3. n \in 0 .. Len(script') /\ returned' = Returned(n)'
  BY <1>1, ReturnedStays DEF InvAt
<1>4. \A r : Whole(r)' = Whole(r)
  BY <1>1, WholeStays
<1>5. Place(n)'
  <2>1. Place(n)
    BY DEF InvAt
  <2>2. Way' = Way
    BY <1>1 DEF Way
  <2>3. AfterEnd(n) => AfterEnd(n)'
    BY <1>1 DEF AfterEnd
  <2> QED
    BY <1>1, <2>1, <2>2, <2>3, PlaceStays
<1>6. Stop(n)'
  <2>1. NextIsNotWhole(n)'
    BY <1>1, <1>4 DEF NextIsNotWhole
  <2>2. NextIsBroken(n) => NextIsBroken(n)'
    BY <1>1, ScriptStays DEF NextIsBroken
  <2> QED
    BY <1>1, <2>1, <2>2 DEF Stop
<1> QED
  BY <1>2, <1>3, <1>4, <1>5, <1>6 DEF InvAt

(* A head is taken. *)
LEMMA ParseHeadKeeps ==
  ASSUME NEW n, InvAt(n), ParseHead
  PROVE  InvAt(n)'
<1> DEFINE r == n + 1
<1>1. /\ pc = "poll" /\ curr_state = Headers /\ HeadComplete(response_buffer)
      /\ UNCHANGED <<server, stream, pc, returned>> /\ Consume(2)
      /\ script' = script
  BY DEF ParseHead, server
<1>2. response_buffer \in Seq(Unit) /\ TypeInv /\ script \in Scripts
  BY DEF InvAt, TypeInv
<1>3. response_buffer # <<>> /\ response_buffer[1][1] = "head" /\ Len(response_buffer) >= 2
  BY <1>1, <1>2, HeadBegins DEF HeadComplete
<1>4. AtHead(n)
  BY <1>1, <1>3, PlaceIs DEF AfterEnd
<1>5. n < Len(script)
  <2> SUFFICES ASSUME ~ (n < Len(script)) PROVE FALSE
    OBVIOUS
  <2>1. n = Len(script) /\ n \in 0 .. Len(script)
    BY PlaceIs
  <2>2. Way = <<>>
    BY <1>2, <1>4, <2>1, AfterIs DEF AtHead
  <2>3. Len(Way) = Len(response_buffer) + Len(stream \o unsent)
    <3>1. response_buffer \in Seq(Unit) /\ stream \o unsent \in Seq(Unit)
      BY DEF InvAt, TypeInv
    <3> QED
      BY <3>1 DEF Way
  <2>4. Len(stream \o unsent) \in Nat /\ Len(response_buffer) \in Nat
    BY DEF InvAt, TypeInv
  <2> QED
    BY <1>3, <2>2, <2>3, <2>4
<1> HIDE DEF r
<1>6. /\ r \in 1 .. Len(script)
      /\ After(r) \in Seq(Unit)
      /\ Framing(r) = "bad_head" => Junk(r) \in Seq(Unit) /\ Way = Junk(r) \o After(r)
      /\ Framing(r) # "bad_head" =>
           /\ Head1(r) \in Seq(Unit) /\ Body(r) \in Seq(Unit)
           /\ Body(r) \o After(r) \in Seq(Unit)
           /\ Way = Head1(r) \o (Body(r) \o After(r))
  BY <1>4, <1>5, HeadAhead DEF r
<1>7. 1 \in 1 .. Len(response_buffer)
  BY <1>2, <1>3
<1>8. Framing(r) # "bad_head"
  <2> SUFFICES ASSUME Framing(r) = "bad_head" PROVE FALSE
    OBVIOUS
  <2>1. Len(Junk(r)) = 1 /\ Junk(r)[1] = <<"junk", r>>
    BY DEF Junk
  <2>2. response_buffer[1] = Junk(r)[1]
    <3>1. 1 <= Len(Junk(r)) /\ Junk(r) \in Seq(Unit) /\ Way = Junk(r) \o After(r)
      BY <1>6, <2>1
    <3> QED
      BY <1>2, <1>6, <1>7, <3>1, FirstOnTheWay
  <2>3. response_buffer[1][1] = "junk"
    BY <2>1, <2>2
  <2> QED
    BY <1>3, <2>3
<1>9. Len(Head1(r)) = 2 /\ Head1(r)[1] = <<"head", r, 1>>
  BY DEF Head1
<1>10. response_buffer[1][2] = r
  <2>1. response_buffer[1] = Head1(r)[1]
    <3>1. 1 <= Len(Head1(r)) /\ Head1(r) \in Seq(Unit) /\ Body(r) \o After(r) \in Seq(Unit)
          /\ Way = Head1(r) \o (Body(r) \o After(r))
      BY <1>6, <1>8, <1>9
    <3> QED
      BY <1>2, <1>7, <3>1, FirstOnTheWay
  <2> QED
    BY <1>9, <2>1
<1>11. response_buffer' \in Seq(Unit) /\ Way' = Body(r) \o After(r)
  BY <1>1, <1>2, <1>3, <1>6, <1>8, <1>9, Consumed
<1>12. /\ partial_response' = [head |-> r, data |-> <<>>]
       /\ curr_state' = CASE script[r].framing = "length" -> RawData(script[r].chunks[1])
                          [] script[r].framing = "none" -> RawData(NoLength)
                          [] OTHER -> ChunkedData
  BY <1>10 DEF ParseHead
<1>13. CASE Framing(r) = "length"
  <2>1. curr_state' = RawData(script[r].chunks[1]) /\ Body(r) = Data(r, 1)
    BY <1>12, <1>13 DEF Framing, Body
  <2>2. InBody(r)'
    BY <1>1, <1>11, <1>12, <1>13, <2>1, ScriptStays DEF InBody
  <2> QED
    BY <1>1, <1>5, <1>11, <2>2, GoesOn DEF Place, r
<1>14. CASE Framing(r) = "none"
  <2>1. curr_state' = RawData(NoLength) /\ Body(r) = Data(r, 1)
    BY <1>12, <1>14 DEF Framing, Body
  <2>2. UntilEnd(r)'
    BY <1>1, <1>11, <1>12, <1>14, <2>1, ScriptStays DEF UntilEnd
  <2> QED
    BY <1>1, <1>5, <1>11, <2>2, GoesOn DEF Place, r
<1>15. CASE Framing(r) \in {"chunked", "bad_chunk"}
  <2>1. curr_state' = ChunkedData /\ Body(r) = ChunksAfter(r, 0) \o LastLine(r)
    BY <1>12, <1>15 DEF Framing, Body
  <2>2. 0 \in 0 .. ChunkCount(r)
    <3>1. ChunkCount(r) \in Nat
      BY <1>2, <1>6, ScriptIs
    <3> QED
      BY <3>1
  <2>3. DataUpTo(r, 0) = <<>>
    BY <1>2, <1>6, <2>2, DataUpToIs
  <2>4. Way' = ChunksWay(r, 0)
    <3> DEFINE x == ChunksAfter(r, 0)
               y == LastLine(r)
               z == After(r)
    <3>1. x \in Seq(Units(r)) /\ y \in Seq(Units(r)) /\ z \in Seq(Unit)
      BY <1>2, <1>6, <2>2, ChunksAfterIs, ChunksAre
    <3>2. r \in Nat
      BY <1>6
    <3>3. x \in Seq(Unit) /\ y \in Seq(Unit)
      <4> HIDE DEF x, y
      <4> QED
        BY <3>1, <3>2, UnitsOfAll
    <3> HIDE DEF x, y, z
    <3>4. (x \o y) \o z = x \o (y \o z)
      BY <3>1, <3>3, ConcatAssociative, SMTT(60)
    <3> QED
      BY <1>11, <2>1, <3>4 DEF x, y, z, ChunksWay
  <2>5. InChunks(r)'
    <3>1. /\ partial_response' = [head |-> r, data |-> DataUpTo(r, 0)]
          /\ Way' = ChunksWay(r, 0)
      BY <1>12, <2>3, <2>4
    <3> QED
      BY <1>1, <1>15, <2>1, <2>2, <3>1, ScriptStays DEF InChunks
  <2> QED
    BY <1>1, <1>5, <1>11, <2>5, GoesOn DEF Place, r
<1>16. Framing(r) \in Framings
  BY <1>2, <1>6, ScriptIs
<1> QED
  BY <1>8, <1>13, <1>14, <1>15, <1>16 DEF Framings

(* It fails where there is no head. *)
LEMMA HeadErrorKeeps ==
  ASSUME NEW n, InvAt(n), HeadError
  PROVE  InvAt(n)'
<1> DEFINE r == n + 1
<1>1. /\ curr_state = Headers /\ response_buffer # <<>> /\ Fail
      /\ ~HeadComplete(response_buffer) /\ ~HeadPartial(response_buffer)
  BY DEF HeadError
<1>2. response_buffer \in Seq(Unit) /\ TypeInv /\ script \in Scripts
  BY DEF InvAt, TypeInv
<1>3. CASE AfterEnd(n)
  <2>1. ended /\ stream = <<>> /\ ~ (n < Len(script))
    BY <1>3, PlaceIs DEF AfterEnd
  <2> QED
    BY <1>1, <2>1, GivesUp DEF NextIsNotWhole
<1>4. CASE AtHead(n) /\ n < Len(script)
  <2> HIDE DEF r
  <2>1. /\ r \in 1 .. Len(script)
        /\ After(r) \in Seq(Unit)
        /\ Framing(r) # "bad_head" =>
             /\ Head1(r) \in Seq(Unit)
             /\ Body(r) \o After(r) \in Seq(Unit)
             /\ Way = Head1(r) \o (Body(r) \o After(r))
    BY <1>4, HeadAhead DEF r
  <2>2. ASSUME Framing(r) # "bad_head" PROVE FALSE
    <3>1. Len(Head1(r)) = 2
      BY DEF Head1
    <3>2. \A i \in 1 .. Len(response_buffer) : i <= 2 => response_buffer[i] = Head1(r)[i]
      BY <1>2, <2>1, <2>2, <3>1, PieceOnTheWay
    <3> QED
      BY <1>1, <1>2, <3>2, HeadIsSeen
  <2>3. NextIsBroken(n) /\ NextIsNotWhole(n)
    BY <1>2, <2>1, <2>2, ScriptIs DEF NextIsBroken, NextIsNotWhole, Whole, Framing, r
  <2> QED
    BY <1>1, <2>3, GivesUp
<1>5. CASE AtHead(n) /\ ~ (n < Len(script))
  <2>1. n = Len(script) /\ n \in 0 .. Len(script)
    BY <1>5, PlaceIs
  <2>2. Way = <<>>
    BY <1>2, <1>5, <2>1, AfterIs DEF AtHead
  <2>3. Len(Way) = Len(response_buffer) + Len(stream \o unsent)
    <3>1. response_buffer \in Seq(Unit) /\ stream \o unsent \in Seq(Unit)
      BY DEF InvAt, TypeInv
    <3> QED
      BY <3>1 DEF Way
  <2>4. Len(stream \o unsent) \in Nat /\ Len(response_buffer) \in Nat /\ Len(response_buffer) # 0
    BY <1>1, <1>2 DEF TypeInv
  <2> QED
    BY <2>2, <2>3, <2>4
<1> QED
  BY <1>1, <1>3, <1>4, <1>5, PlaceIs

(* All of a response has been sent when nothing before what follows is left. *)
LEMMA AllSent ==
  ASSUME TypeInv, NEW r \in 1 .. Len(script), NEW e \in Seq(Unit), After(r) = e \o unsent,
         Framing(r) \in {"length", "chunked"}
  PROVE  Whole(r)
<1>1. r \in 0 .. Len(script) /\ script \in Scripts /\ unsent \in Seq(Unit)
  <2>1. script \in Scripts /\ unsent \in Seq(Unit)
    BY DEF TypeInv
  <2>2. Len(script) \in Nat
    BY <2>1, ScriptIs
  <2> QED
    BY <2>1, <2>2
<1>2. After(r) \in Seq(Unit) /\ \A i \in 1 .. Len(After(r)) : After(r)[i][2] > r
  BY <1>1, AfterIs
<1> DEFINE d == After(r)
<1>3. d \in Seq(Unit) /\ d = e \o unsent /\ \A i \in 1 .. Len(d) : d[i][2] > r
  BY <1>2
<1> HIDE DEF d
<1>4. \A i \in DOMAIN unsent : unsent[i][2] > r
  BY <1>1, <1>3, SentSoFar
<1> QED
  BY <1>4 DEF Whole, Framing

(* A body with a length is taken, and the response returned. *)
LEMMA TakeBodyKeeps ==
  ASSUME NEW n, InvAt(n), TakeBody
  PROVE  InvAt(n + 1)'
<1> DEFINE r == n + 1
           c == Data(r, 1)
           response == [partial_response EXCEPT !.data = SubSeq(response_buffer, 1, curr_state.len)]
<1>1. /\ pc = "poll" /\ curr_state.tag = "RawData" /\ curr_state.len # NoLength
      /\ Len(response_buffer) >= curr_state.len
      /\ Return(response) /\ Consume(curr_state.len)
  BY DEF TakeBody
<1>2. n < Len(script) /\ InBody(r) /\ n \in Nat /\ Len(script) \in Nat
  BY <1>1, PlaceIs
<1>3. r \in 1 .. Len(script) /\ r \in 0 .. Len(script) /\ r \in Nat
  BY <1>2
<1>4. TypeInv /\ script \in Scripts /\ DOMAIN script = 1 .. Len(script)
  BY ScriptIs DEF InvAt, TypeInv
<1> HIDE DEF r
<1>5. /\ Framing(r) = "length" /\ curr_state = RawData(script[r].chunks[1])
      /\ partial_response = [head |-> r, data |-> <<>>]
      /\ Way = c \o After(r)
  BY <1>2 DEF InBody
<1>6. ChunkCount(r) = 1
  BY <1>3, <1>4, <1>5, ScriptIs
<1>7. c \in Seq(Unit) /\ Len(c) = curr_state.len /\ c = AllData(r)
  <2>1. 1 \in 1 .. ChunkCount(r) /\ 0 \in 0 .. ChunkCount(r)
    BY <1>6
  <2>2. c \in Seq(Units(r)) /\ Len(c) = script[r].chunks[1]
    BY <1>3, <1>4, <2>1, PiecesAre
  <2>3. AllData(r) = c
    BY <1>3, <1>4, <1>6, <2>1, DataUpToIs
  <2> HIDE DEF c
  <2>4. c \in Seq(Unit)
    BY <1>3, <2>2, UnitsOfAll
  <2> QED
    BY <1>5, <2>2, <2>3, <2>4 DEF RawData
<1>8. After(r) \in Seq(Unit)
  BY <1>3, <1>4, AfterIs
<1> HIDE DEF c, response
<1>9. UNCHANGED <<server, stream, pc>> /\ curr_state' = Headers /\ script' = script
  BY <1>1 DEF Return, server
<1>10. /\ response_buffer' \in Seq(Unit) /\ Way' = After(r)
       /\ \E e \in Seq(Unit) : After(r) = e \o unsent
  BY <1>1, <1>4, <1>5, <1>7, <1>8, <1>9, Consumed
<1>11. SubSeq(response_buffer, 1, Len(c)) = c
  BY <1>1, <1>4, <1>5, <1>7, <1>8, PieceOnTheWay
<1>12. response = Response(r)
  <2>1. response = [head |-> r, data |-> AllData(r)]
    <3>1. SubSeq(response_buffer, 1, curr_state.len) = AllData(r)
      BY <1>7, <1>11
    <3>2. partial_response = [head |-> r, data |-> <<>>]
      BY <1>5
    <3>3. response = [partial_response EXCEPT !.data = AllData(r)]
      BY <3>1 DEF response
    <3> DEFINE d == AllData(r)
    <3> HIDE DEF d
    <3>4. [[head |-> r, data |-> <<>>] EXCEPT !.data = d] = [head |-> r, data |-> d]
      OBVIOUS
    <3> QED
      BY <3>2, <3>3, <3>4, Zenon DEF d
  <2>2. Given(r) = AllData(r)
    BY <1>5 DEF Given
  <2> QED
    BY <2>1, <2>2 DEF Response
<1>13. returned' = Append(returned, Response(r))
  BY <1>1, <1>12 DEF Return
<1>14. Whole(r)
  BY <1>3, <1>4, <1>5, <1>10, AllSent
<1>15. Place(r)'
  BY <1>9, <1>10, ScriptStays DEF Place, AtHead
<1> QED
  BY <1>1, <1>2, <1>9, <1>10, <1>13, <1>14, <1>15, ReturnsNext DEF r

(* How long a buffer is that is not empty. *)
LEMMA OneOrMore ==
  ASSUME NEW S, NEW b \in Seq(S), b # <<>>
  PROVE  /\ Len(b) \in Nat /\ 1 \in 1 .. Len(b)
         /\ Len(b) = 1 \/ Len(b) >= 2
         /\ Len(b) < 2 => Len(b) = 1
<1> DEFINE n == Len(b)
<1>1. n \in Nat /\ n # 0
  OBVIOUS
<1> HIDE DEF n
<1>2. 1 \in 1 .. n /\ (n = 1 \/ n >= 2) /\ (n < 2 => n = 1)
  BY <1>1
<1> QED
  BY <1>1, <1>2 DEF n

(* What is seen as the line of a chunk's size begins with a size. *)
LEMMA SizeBegins ==
  ASSUME NEW b
  PROVE  /\ SizeComplete(b) => Len(b) >= 2 /\ b[1][1] = "size"
         /\ SizePartial(b) /\ b # <<>> => Len(b) = 1 /\ b[1][1] = "size"
BY Zenon DEF SizeComplete, SizePartial

(* Chunk q of response r is the next. *)
ChunkIsNext(r, q) ==
  /\ r \in 1 .. Len(script) /\ q \in 1 .. ChunkCount(r)
  /\ script[r].chunks[q] \in Nat
  /\ ChunkAt(r, q) \in Seq(Units(r)) /\ ChunkAt(r, q) \in Seq(Unit)
  /\ ChunksWay(r, q) \in Seq(Unit)
  /\ Way = ChunkAt(r, q) \o ChunksWay(r, q)
  /\ Len(ChunkAt(r, q)) = 2 + script[r].chunks[q] + 2
  /\ ChunkAt(r, q)[1] = SizeBegin(r, q) /\ ChunkAt(r, q)[2] = SizeEnd(r, q)
  /\ \A k \in 1 .. script[r].chunks[q] : ChunkAt(r, q)[2 + k] = Data(r, q)[k]

(* What is ahead in the chunks: a chunk,                                   *)
LEMMA ChunkAhead ==
  ASSUME NEW n, InvAt(n), n < Len(script), NEW r, r = n + 1, NEW i \in 0 .. ChunkCount(r),
         i < ChunkCount(r), Way = ChunksWay(r, i), NEW q, q = i + 1
  PROVE  ChunkIsNext(r, q)
<1> DEFINE c == ChunkAt(r, q)
           x == SizeLine(r, q)
           y == Data(r, q)
           z == LineEnd(r)
           u == ChunksAfter(r, q)
           v == LastLine(r) \o After(r)
           len == script[r].chunks[q]
<1>1. script \in Scripts /\ n \in Nat /\ Len(script) \in Nat
  BY PlaceIs DEF InvAt, TypeInv
<1>2. r \in 1 .. Len(script) /\ r \in 0 .. Len(script) /\ r \in Nat
  BY <1>1
<1>3. ChunkCount(r) \in Nat
  BY <1>1, <1>2, ScriptIs
<1>4. q \in 1 .. ChunkCount(r) /\ q \in 0 .. ChunkCount(r) /\ q \in Nat
  BY <1>3
<1>5. len \in Nat
  BY <1>1, <1>2, <1>4, ScriptIs
<1>20. c = ChunkAt(r, q) /\ ChunksWay(r, q) = u \o v
  BY DEF ChunksWay
<1>6. c \in Seq(Units(r)) /\ c = x \o (y \o z) /\ LastLine(r) \in Seq(Units(r))
  BY <1>1, <1>2, <1>4, <1>20, ChunksAre
<1>7. /\ x \in Seq(Units(r)) /\ Len(x) = 2
      /\ x[1] = SizeBegin(r, q) /\ x[2] = SizeEnd(r, q)
      /\ y \in Seq(Units(r)) /\ Len(y) = len
      /\ z \in Seq(Units(r)) /\ Len(z) = 2
  BY <1>1, <1>2, <1>4, PiecesAre
<1>8. u \in Seq(Units(r)) /\ ChunksAfter(r, i) = c \o u
  BY <1>1, <1>2, <1>4, <1>20, ChunksAfterIs
<1>9. After(r) \in Seq(Unit)
  BY <1>1, <1>2, AfterIs
<1>10. \A s \in Seq(Units(r)) : s \in Seq(Unit)
  BY <1>2, UnitsOfAll
<1> HIDE DEF c, x, y, z, u, len
<1>11. c \in Seq(Unit) /\ u \in Seq(Unit) /\ LastLine(r) \in Seq(Unit)
  BY <1>6, <1>8, <1>10
<1>12. v \in Seq(Unit)
  BY <1>9, <1>11
<1> HIDE DEF v
<1>13. u \o v \in Seq(Unit)
  BY <1>11, <1>12
<1>14. (c \o u) \o v = c \o (u \o v)
  BY <1>11, <1>12, ConcatAssociative, SMTT(60)
<1>15. Way = c \o (u \o v)
  BY <1>8, <1>14 DEF v, ChunksWay
<1> DEFINE w == y \o z
<1>16. w \in Seq(Units(r)) /\ Len(w) = len + 2 /\ \A k \in 1 .. len : w[k] = y[k]
  <2>0. y \in Seq(Units(r)) /\ z \in Seq(Units(r))
    BY <1>7
  <2>1. w \in Seq(Units(r)) /\ Len(w) = Len(y) + Len(z)
    BY <2>0
  <2>2. \A k \in 1 .. Len(y) : (y \o z)[k] = y[k]
    BY <1>7, ConcatParts
  <2>3. Len(y) = len /\ Len(z) = 2
    BY <1>7
  <2> QED
    BY <2>1, <2>2, <2>3
<1> HIDE DEF w
<1>17. c = x \o w
  BY <1>6 DEF w
<1>18. /\ \A k \in 1 .. 2 : c[k] = x[k]
       /\ \A k \in 1 .. len + 2 : c[2 + k] = w[k]
       /\ Len(c) = 2 + (len + 2)
  <2>0. x \in Seq(Units(r)) /\ w \in Seq(Units(r))
    BY <1>7, <1>16
  <2>1. /\ \A k \in 1 .. Len(x) : (x \o w)[k] = x[k]
        /\ \A k \in 1 .. Len(w) : (x \o w)[Len(x) + k] = w[k]
    BY <2>0, ConcatParts
  <2>2. Len(x \o w) = Len(x) + Len(w)
    BY <2>0
  <2>3. Len(x) = 2 /\ Len(w) = len + 2
    BY <1>7, <1>16
  <2> QED
    BY <1>17, <2>1, <2>2, <2>3
<1>19. Len(c) = 2 + len + 2 /\ c[1] = x[1] /\ c[2] = x[2] /\ \A k \in 1 .. len : c[2 + k] = y[k]
  <2>1. \A k \in 1 .. len : k \in 1 .. len + 2
    BY <1>5
  <2> QED
    BY <1>5, <1>16, <1>18, <2>1
<1> QED
  BY <1>2, <1>4, <1>5, <1>6, <1>7, <1>11, <1>13, <1>15, <1>19, <1>20 DEF c, y, len, ChunkIsNext

(* or what ends them.                                                      *)
LEMMA LastAhead ==
  ASSUME NEW n, InvAt(n), n < Len(script), NEW r, r = n + 1, NEW i \in 0 .. ChunkCount(r),
         i = ChunkCount(r), Way = ChunksWay(r, i)
  PROVE  /\ r \in 1 .. Len(script) /\ r \in 0 .. Len(script)
         /\ LastLine(r) \in Seq(Units(r)) /\ LastLine(r) \in Seq(Unit) /\ After(r) \in Seq(Unit)
         /\ Way = LastLine(r) \o After(r)
         /\ Framing(r) = "chunked" =>
              /\ Len(LastLine(r)) = 4
              /\ LastLine(r)[1] = SizeBegin(r, i + 1) /\ LastLine(r)[2] = SizeEnd(r, i + 1)
         /\ Framing(r) # "chunked" => Len(LastLine(r)) = 1 /\ LastLine(r)[1] = <<"junk", r>>
<1> DEFINE c == LastLine(r)
           x == SizeLine(r, i + 1)
           z == LineEnd(r)
<1>1. script \in Scripts /\ n \in Nat /\ Len(script) \in Nat
  BY PlaceIs DEF InvAt, TypeInv
<1>2. r \in 1 .. Len(script) /\ r \in 0 .. Len(script) /\ r \in Nat
  BY <1>1
<1>3. i + 1 \in Nat
  <2>1. ChunkCount(r) \in Nat
    BY <1>1, <1>2, ScriptIs
  <2> QED
    BY <2>1
<1>4. c \in Seq(Units(r)) /\ ChunksAfter(r, i) = <<>>
  BY <1>1, <1>2, ChunksAre, ChunksAfterIs
<1>5. After(r) \in Seq(Unit)
  BY <1>1, <1>2, AfterIs
<1>6. c \in Seq(Unit)
  <2> HIDE DEF c
  <2> QED
    BY <1>2, <1>4, UnitsOfAll
<1>7. Way = c \o After(r)
  <2> HIDE DEF c
  <2>1. c \o After(r) \in Seq(Unit)
    BY <1>5, <1>6
  <2>2. <<>> \o (c \o After(r)) = c \o After(r)
    BY <2>1
  <2> QED
    BY <1>4, <2>2 DEF c, ChunksWay
<1>8. ASSUME Framing(r) = "chunked"
      PROVE  Len(c) = 4 /\ c[1] = SizeBegin(r, i + 1) /\ c[2] = SizeEnd(r, i + 1)
  <2>1. c = x \o z
    BY <1>8 DEF LastLine
  <2>2. /\ x \in Seq(Units(r)) /\ Len(x) = 2 /\ z \in Seq(Units(r)) /\ Len(z) = 2
        /\ x[1] = SizeBegin(r, i + 1) /\ x[2] = SizeEnd(r, i + 1)
    BY <1>1, <1>2, <1>3, PiecesAre
  <2> HIDE DEF c, x, z
  <2>3. x \in Seq(Units(r)) /\ Len(x) = 2 /\ z \in Seq(Units(r)) /\ Len(z) = 2
    BY <2>2
  <2>4. \A k \in 1 .. Len(x) : (x \o z)[k] = x[k]
    BY <2>3, ConcatParts
  <2>5. Len(x \o z) = 4 /\ 1 \in 1 .. Len(x) /\ 2 \in 1 .. Len(x)
    <3>1. Len(x \o z) = Len(x) + Len(z)
      BY <2>3, ConcatProperties, Zenon
    <3>2. Len(x) = 2 /\ Len(z) = 2
      BY <2>3
    <3> QED
      BY <3>1, <3>2
  <2>6. c[1] = x[1] /\ c[2] = x[2]
    BY <2>1, <2>4, <2>5
  <2> QED
    BY <2>1, <2>2, <2>5, <2>6
<1>9. ASSUME Framing(r) # "chunked" PROVE Len(c) = 1 /\ c[1] = <<"junk", r>>
  <2>1. c = Junk(r)
    BY <1>9 DEF LastLine
  <2> QED
    BY <1>1, <1>2, <2>1, PiecesAre
<1> QED
  BY <1>2, <1>4, <1>5, <1>6, <1>7, <1>8, <1>9

(* How long two buffers are. *)
LEMMA TwoLong ==
  ASSUME NEW S, NEW a \in Seq(S), NEW b \in Seq(S), Len(a) >= 2
  PROVE  1 <= Len(a) /\ 2 <= Len(a) /\ (Len(b) >= 2 => 2 \in 1 .. Len(b))
<1> DEFINE k == Len(a)
           l == Len(b)
<1>1. k \in Nat /\ l \in Nat /\ k >= 2
  OBVIOUS
<1> HIDE DEF k, l
<1>2. 1 <= k /\ 2 <= k /\ (l >= 2 => 2 \in 1 .. l)
  BY <1>1
<1> QED
  BY <1>2 DEF k, l

(* What the parser makes of a size, or of junk, at the start of its buffer. *)
LEMMA SizeAhead ==
  ASSUME TypeInv, NEW r, NEW i,
         NEW c \in Seq(Unit), NEW d \in Seq(Unit), Way = c \o d, Len(c) >= 2,
         c[1] = SizeBegin(r, i), c[2] = SizeEnd(r, i), response_buffer # <<>>
  PROVE  /\ response_buffer[1][1] = "size"
         /\ response_buffer[1][2] = r /\ response_buffer[1][3] = i
         /\ Len(response_buffer) >= 2 => SizeComplete(response_buffer)
         /\ Len(response_buffer) < 2 => SizePartial(response_buffer)
<1>1. TypeInv /\ response_buffer \in Seq(Unit)
  BY DEF TypeInv
<1>2. Len(response_buffer) \in Nat /\ 1 \in 1 .. Len(response_buffer)
  BY <1>1, OneOrMore
<1>3. 1 <= Len(c) /\ 2 <= Len(c) /\ (Len(response_buffer) >= 2 => 2 \in 1 .. Len(response_buffer))
  BY <1>1, TwoLong, Zenon
<1>4. response_buffer[1] = c[1] /\ (Len(response_buffer) >= 2 => response_buffer[2] = c[2])
  <2>1. \A k \in 1 .. Len(response_buffer) : k <= Len(c) => response_buffer[k] = c[k]
    BY <1>1, PieceOnTheWay
  <2> QED
    BY <1>2, <1>3, <2>1, Zenon
<1>5. response_buffer[1] = SizeBegin(r, i)
  BY <1>4, Zenon
<1>6. Len(response_buffer) >= 2 => response_buffer[2] = SizeEnd(r, i)
  BY <1>4, Zenon
<1>7. /\ response_buffer[1][1] = "size"
      /\ response_buffer[1][2] = r /\ response_buffer[1][3] = i
  BY <1>5 DEF SizeBegin
<1>8. ASSUME Len(response_buffer) >= 2 PROVE SizeComplete(response_buffer)
  <2>1. response_buffer[2] = SizeEnd(r, i)
    BY <1>6, <1>8, Zenon
  <2>2. response_buffer[2][1] = EndTag
    BY <2>1 DEF SizeEnd
  <2> QED
    BY <1>7, <1>8, <2>2, Zenon DEF SizeComplete, EndTag
<1>9. ASSUME Len(response_buffer) < 2 PROVE SizePartial(response_buffer)
  <2>1. Len(response_buffer) = 1
    BY <1>1, <1>9, OneOrMore, Zenon
  <2> QED
    BY <1>7, <2>1, Zenon DEF SizePartial
<1> QED
  BY <1>7, <1>8, <1>9, Zenon

(* Junk is no size. *)
LEMMA JunkAhead ==
  ASSUME TypeInv, NEW r, NEW c \in Seq(Unit), NEW d \in Seq(Unit), Way = c \o d, Len(c) = 1,
         c[1] = <<"junk", r>>, response_buffer # <<>>
  PROVE  ~SizeComplete(response_buffer) /\ ~SizePartial(response_buffer)
<1>1. TypeInv /\ response_buffer \in Seq(Unit)
  BY DEF TypeInv
<1>2. 1 \in 1 .. Len(response_buffer) /\ 1 <= Len(c)
  BY <1>1, OneOrMore
<1>3. response_buffer[1] = c[1]
  BY <1>1, <1>2, FirstOnTheWay
<1>4. response_buffer[1][1] = "junk"
  BY <1>3
<1> QED
  BY <1>4, SizeBegins

(* What the parser makes of its buffer in the chunks. *)
LEMMA ChunkIsSeen ==
  ASSUME NEW n, InvAt(n), n < Len(script), NEW r, r = n + 1, NEW i \in 0 .. ChunkCount(r),
         Way = ChunksWay(r, i), response_buffer # <<>>
  PROVE  /\ i < ChunkCount(r) \/ Framing(r) = "chunked" =>
              /\ ChunkLen(response_buffer) =
                   (IF i < ChunkCount(r) THEN script[r].chunks[i + 1] ELSE 0)
              /\ Len(response_buffer) >= 2 => SizeComplete(response_buffer)
              /\ Len(response_buffer) < 2 => SizePartial(response_buffer)
         /\ i = ChunkCount(r) /\ Framing(r) # "chunked" =>
              ~SizeComplete(response_buffer) /\ ~SizePartial(response_buffer)
<1> DEFINE S == Len(response_buffer) >= 2 => SizeComplete(response_buffer)
           P == Len(response_buffer) < 2 => SizePartial(response_buffer)
           m == ChunkCount(r)
<1>1. TypeInv /\ script \in Scripts /\ n \in Nat /\ Len(script) \in Nat
  BY PlaceIs DEF InvAt, TypeInv
<1>2. r \in 1 .. Len(script)
  BY <1>1
<1>3. m \in Nat /\ DOMAIN script[r].chunks = 1 .. m
  BY <1>1, <1>2, ScriptIs
<1>4. ASSUME response_buffer[1][2] = r, response_buffer[1][3] = i + 1
      PROVE  ChunkLen(response_buffer) = (IF i < m THEN script[r].chunks[i + 1] ELSE 0)
  <2>1. (i + 1 \in DOMAIN script[r].chunks) <=> i < m
    BY <1>3
  <2> QED
    BY <1>4, <2>1 DEF ChunkLen
<1>5. ASSUME i < m PROVE response_buffer[1][2] = r /\ response_buffer[1][3] = i + 1 /\ S /\ P
  <2> DEFINE q == i + 1
             c == ChunkAt(r, q)
             d == ChunksWay(r, q)
             len == script[r].chunks[q]
  <2>3. q = i + 1
    OBVIOUS
  <2> HIDE DEF q
  <2>1. /\ c \in Seq(Unit) /\ d \in Seq(Unit) /\ Way = c \o d
        /\ len \in Nat /\ Len(c) = 2 + len + 2
        /\ c[1] = SizeBegin(r, q) /\ c[2] = SizeEnd(r, q)
    <3>1. ChunkIsNext(r, q)
      BY <1>5, <2>3, ChunkAhead
    <3> QED
      BY <3>1 DEF ChunkIsNext
  <2> HIDE DEF c, d, len
  <2>2. Len(c) >= 2
    BY <2>1
  <2>4. response_buffer[1][2] = r /\ response_buffer[1][3] = q /\ S /\ P
    BY <1>1, <2>1, <2>2, SizeAhead, ZenonT(60)
  <2> QED
    BY <2>3, <2>4
<1>6. ASSUME i = m, Framing(r) = "chunked"
      PROVE  response_buffer[1][2] = r /\ response_buffer[1][3] = i + 1 /\ S /\ P
  <2> DEFINE q == i + 1
             c == LastLine(r)
             d == After(r)
  <2>1. /\ c \in Seq(Unit) /\ d \in Seq(Unit) /\ Way = c \o d /\ Len(c) = 4
        /\ c[1] = SizeBegin(r, q) /\ c[2] = SizeEnd(r, q)
    BY <1>6, LastAhead
  <2> HIDE DEF q, c, d
  <2>2. Len(c) >= 2
    BY <2>1
  <2>3. response_buffer[1][2] = r /\ response_buffer[1][3] = q /\ S /\ P
    BY <1>1, <2>1, <2>2, SizeAhead, ZenonT(60)
  <2> QED
    BY <2>3 DEF q
<1>7. ASSUME i = m, Framing(r) # "chunked"
      PROVE  ~SizeComplete(response_buffer) /\ ~SizePartial(response_buffer)
  <2>1. /\ LastLine(r) \in Seq(Unit) /\ After(r) \in Seq(Unit) /\ Way = LastLine(r) \o After(r)
        /\ Len(LastLine(r)) = 1 /\ LastLine(r)[1] = <<"junk", r>>
    BY <1>7, LastAhead
  <2> QED
    BY <1>1, <2>1, JunkAhead
<1>8. i < m \/ i = m
  BY <1>3
<1> HIDE DEF m, S, P
<1> QED
  BY <1>4, <1>5, <1>6, <1>7, <1>8 DEF m, S, P

(* The pieces of the chunks are as long as the parser takes them to be.    *)
LEMMA ChunkPiece ==
  ASSUME NEW n, InvAt(n), n < Len(script), NEW r, r = n + 1, NEW i \in 0 .. ChunkCount(r),
         Way = ChunksWay(r, i),
         \/ SizePartial(response_buffer)
         \/ /\ SizeComplete(response_buffer)
            /\ Len(response_buffer) < 2 + ChunkLen(response_buffer) + 2
  PROVE  \E c \in Seq(Units(r)), d \in Seq(Unit) :
           Way = c \o d /\ Len(response_buffer) < Len(c)
<1> DEFINE m == ChunkCount(r)
<1>1. TypeInv /\ script \in Scripts /\ n \in Nat /\ Len(script) \in Nat
  BY PlaceIs DEF InvAt, TypeInv
<1>2. r \in 1 .. Len(script)
  BY <1>1
<1>3. m \in Nat
  BY <1>1, <1>2, ScriptIs
<1>4. response_buffer = <<>> => Len(response_buffer) = 0
  OBVIOUS
<1>5. SizePartial(response_buffer) => response_buffer = <<>> \/ Len(response_buffer) = 1
  BY SizeBegins, Zenon
<1>6. SizeComplete(response_buffer) => response_buffer # <<>>
  <2>1. SizeComplete(response_buffer) => Len(response_buffer) >= 2
    BY SizeBegins, Zenon
  <2> QED
    BY <1>4, <2>1
<1> DEFINE l == Len(response_buffer)
<1> HIDE DEF l
<1>10. /\ SizePartial(response_buffer) => response_buffer = <<>> \/ l = 1
       /\ response_buffer = <<>> => l = 0
       /\ ~SizePartial(response_buffer) => l < 2 + ChunkLen(response_buffer) + 2
  BY <1>4, <1>5 DEF l
<1>11. l \in Nat
  BY <1>1 DEF l, TypeInv
<1>7. CASE i < m
  <2> DEFINE q == i + 1
             c == ChunkAt(r, q)
             d == ChunksWay(r, q)
             len == script[r].chunks[q]
  <2>4. q = i + 1
    OBVIOUS
  <2> HIDE DEF q
  <2>1. /\ c \in Seq(Units(r)) /\ d \in Seq(Unit) /\ Way = c \o d
        /\ len \in Nat /\ Len(c) = 2 + len + 2
    <3>1. ChunkIsNext(r, q)
      BY <1>7, <2>4, ChunkAhead
    <3> QED
      BY <3>1 DEF ChunkIsNext
  <2>2. response_buffer # <<>> => ChunkLen(response_buffer) = len
    BY <1>7, <2>4, ChunkIsSeen
  <2> HIDE DEF c, d, len
  <2>3. l < Len(c)
    BY <1>6, <1>10, <2>1, <2>2
  <2> QED
    BY <2>1, <2>3 DEF l
<1>8. CASE i = m
  <2>1. /\ LastLine(r) \in Seq(Units(r)) /\ After(r) \in Seq(Unit) /\ Way = LastLine(r) \o After(r)
        /\ Framing(r) = "chunked" => Len(LastLine(r)) = 4
        /\ Framing(r) # "chunked" => Len(LastLine(r)) = 1
    BY <1>8, LastAhead
  <2>2. response_buffer # <<>> =>
          /\ Framing(r) = "chunked" => ChunkLen(response_buffer) = 0
          /\ Framing(r) # "chunked" =>
               ~SizeComplete(response_buffer) /\ ~SizePartial(response_buffer)
    <3>1. i < m <=> FALSE
      BY <1>3, <1>8
    <3> QED
      BY <1>8, <3>1, ChunkIsSeen
  <2>3. l < Len(LastLine(r))
    <3>1. CASE response_buffer = <<>>
      <4>1. l = 0 /\ (Len(LastLine(r)) = 4 \/ Len(LastLine(r)) = 1)
        BY <1>10, <2>1, <3>1
      <4> QED
        BY <4>1
    <3>2. CASE response_buffer # <<>> /\ Framing(r) = "chunked"
      <4>1. l < 4 /\ Len(LastLine(r)) = 4
        <5>1. l = 1 \/ l < 2 + 0 + 2
          BY <1>10, <2>2, <3>2
        <5> QED
          BY <1>11, <2>1, <3>2, <5>1
      <4> QED
        BY <4>1
    <3>3. CASE response_buffer # <<>> /\ Framing(r) # "chunked"
      BY <2>2, <3>3
    <3> QED
      BY <3>1, <3>2, <3>3
  <2> QED
    BY <2>1, <2>3 DEF l
<1>9. i < m \/ i = m
  BY <1>3
<1> QED
  BY <1>7, <1>8, <1>9

(* The elements behind the first two. *)
LEMMA BehindTwo ==
  ASSUME NEW S, NEW b \in Seq(S), NEW y \in Seq(S), NEW l, Len(y) = l,
         2 + l <= Len(b), \A k \in 1 .. l : b[2 + k] = y[k]
  PROVE  SubSeq(b, 3, 2 + l) = y
<1> DEFINE s == SubSeq(b, 3, 2 + l)
<1>1. l \in Nat
  OBVIOUS
<1>2. s = [k \in 1 .. l |-> b[2 + k]]
  <2>1. s = [k \in 1 .. ((2 + l) - 3) + 1 |-> b[(3 + k) - 1]]
    BY <1>1
  <2>2. ((2 + l) - 3) + 1 = l /\ \A k \in 1 .. l : (3 + k) - 1 = 2 + k
    BY <1>1
  <2> QED
    BY <2>1, <2>2
<1>3. y = [k \in 1 .. l |-> y[k]]
  OBVIOUS
<1> QED
  BY <1>2, <1>3

(* The next chunk is taken: the size, the data and the line end. *)
LEMMA TakeChunkKeeps ==
  ASSUME NEW n, InvAt(n), TakeChunk
  PROVE  InvAt(n)'
<1> DEFINE r == n + 1
           b == response_buffer
           l == ChunkLen(b)
<1>1. /\ pc = "poll" /\ curr_state = ChunkedData /\ SizeComplete(b)
      /\ l > 0 /\ Len(b) >= 2 + l + 2
      /\ partial_response' = [partial_response EXCEPT !.data = @ \o SubSeq(b, 3, 2 + l)]
      /\ Consume(2 + l + 2)
      /\ UNCHANGED <<server, stream, pc, curr_state, returned>> /\ script' = script
  BY DEF TakeChunk, AtChunk, server
<1>2. n < Len(script) /\ InChunks(r) /\ n \in Nat /\ Len(script) \in Nat
  BY <1>1, PlaceIs
<1>3. r \in 1 .. Len(script) /\ r \in Nat
  BY <1>2
<1>4. TypeInv /\ script \in Scripts /\ b \in Seq(Unit)
  BY DEF InvAt, TypeInv
<1>5. ChunkCount(r) \in Nat
  BY <1>3, <1>4, ScriptIs
<1>6. r = n + 1
  OBVIOUS
<1> HIDE DEF r
<1>7. Framing(r) \in {"chunked", "bad_chunk"}
  BY <1>2 DEF InChunks
<1>8. PICK i \in 0 .. ChunkCount(r) :
        /\ partial_response = [head |-> r, data |-> DataUpTo(r, i)]
        /\ Way = ChunksWay(r, i)
  BY <1>2 DEF InChunks
<1>9. b # <<>>
  <2>1. Len(b) >= 2
    BY <1>1, SizeBegins, Zenon
  <2> QED
    BY <1>4, <2>1
<1>11. /\ i < ChunkCount(r) \/ Framing(r) = "chunked" =>
            l = (IF i < ChunkCount(r) THEN script[r].chunks[i + 1] ELSE 0)
       /\ i = ChunkCount(r) /\ Framing(r) # "chunked" => ~SizeComplete(b)
  BY <1>2, <1>6, <1>8, <1>9, ChunkIsSeen
<1>12. i < ChunkCount(r) /\ l = script[r].chunks[i + 1]
  <2> HIDE DEF l, b
  <2>1. i \in Nat /\ (i < ChunkCount(r) \/ i = ChunkCount(r))
    BY <1>5
  <2> QED
    BY <1>1, <1>7, <1>11, <2>1
<1> DEFINE q == i + 1
           c == ChunkAt(r, q)
           d == ChunksWay(r, q)
           y == Data(r, q)
<1>13. q = i + 1
  OBVIOUS
<1>14. q \in 1 .. ChunkCount(r) /\ q \in 0 .. ChunkCount(r)
  BY <1>5, <1>12
<1> HIDE DEF q
<1>15. l = script[r].chunks[q]
  BY <1>12, <1>13
<1>16. ChunkIsNext(r, q)
  BY <1>2, <1>6, <1>8, <1>12, <1>13, ChunkAhead
<1> HIDE DEF b, l
<1>17. /\ l \in Nat /\ c \in Seq(Unit) /\ d \in Seq(Unit) /\ Way = c \o d
       /\ Len(c) = 2 + l + 2
       /\ \A m \in 1 .. l : c[2 + m] = y[m]
  BY <1>15, <1>16 DEF ChunkIsNext
<1>18. y \in Seq(Unit) /\ Len(y) = l
  <2>1. y \in Seq(Units(r)) /\ Len(y) = l
    BY <1>3, <1>4, <1>14, <1>15, PiecesAre
  <2> HIDE DEF y
  <2> QED
    BY <1>3, <2>1, UnitsOfAll
<1>19. DataUpTo(r, q) = DataUpTo(r, i) \o y
  BY <1>3, <1>4, <1>12, <1>13, DataUpToIs
<1> HIDE DEF c, d, y
<1>20. response_buffer' \in Seq(Unit) /\ Way' = d
  BY <1>1, <1>4, <1>17, Consumed DEF b
<1>21. SubSeq(b, 3, 2 + l) = y
  <2>1. \A m \in 1 .. Len(b) : m <= Len(c) => b[m] = c[m]
    BY <1>4, <1>17, PieceOnTheWay DEF b
  <2>2. ASSUME NEW m \in 1 .. l PROVE b[2 + m] = y[m]
    <3>1. 2 + m \in 1 .. Len(b) /\ 2 + m <= Len(c)
      <4> DEFINE lb == Len(b)
                 lc == Len(c)
      <4>1. lb \in Nat /\ lb >= 2 + l + 2 /\ lc = 2 + l + 2 /\ l \in Nat
        BY <1>1, <1>4, <1>17
      <4> HIDE DEF lb, lc
      <4>2. 2 + m \in 1 .. lb /\ 2 + m <= lc
        BY <4>1
      <4> QED
        BY <4>2 DEF lb, lc
    <3> QED
      BY <1>17, <2>1, <3>1
  <2>3. 2 + l <= Len(b)
    <3> DEFINE lb == Len(b)
    <3>1. lb \in Nat /\ lb >= 2 + l + 2 /\ l \in Nat
      BY <1>1, <1>4, <1>17
    <3> HIDE DEF lb
    <3>2. 2 + l <= lb
      BY <3>1
    <3> QED
      BY <3>2 DEF lb
  <2> QED
    BY <1>4, <1>18, <2>2, <2>3, BehindTwo
<1>22. partial_response' = [head |-> r, data |-> DataUpTo(r, q)]
  BY <1>1, <1>8, <1>19, <1>21
<1>23. InChunks(r)'
  <2>1. Way' = ChunksWay(r, q)
    BY <1>20 DEF d
  <2> QED
    BY <1>1, <1>7, <1>14, <1>22, <2>1, ScriptStays DEF InChunks
<1> QED
  BY <1>1, <1>2, <1>20, <1>23, GoesOn DEF Place, r

(* The last chunk is taken, and the response returned. *)
LEMMA TakeLastChunkKeeps ==
  ASSUME NEW n, InvAt(n), TakeLastChunk
  PROVE  InvAt(n + 1)'
<1> DEFINE r == n + 1
           b == response_buffer
           c == LastLine(r)
<1>1. /\ pc = "poll" /\ curr_state = ChunkedData /\ SizeComplete(b)
      /\ ChunkLen(b) = 0 /\ Len(b) >= 4
      /\ Return(partial_response) /\ Consume(4)
  BY DEF TakeLastChunk, AtChunk
<1>2. n < Len(script) /\ InChunks(r) /\ n \in Nat /\ Len(script) \in Nat
  BY <1>1, PlaceIs
<1>3. r \in 1 .. Len(script) /\ r \in 0 .. Len(script) /\ r \in Nat
  BY <1>2
<1>4. TypeInv /\ script \in Scripts /\ b \in Seq(Unit) /\ DOMAIN script = 1 .. Len(script)
  BY ScriptIs DEF InvAt, TypeInv
<1>5. ChunkCount(r) \in Nat
  BY <1>3, <1>4, ScriptIs
<1>6. r = n + 1
  OBVIOUS
<1> HIDE DEF r
<1>7. Framing(r) \in {"chunked", "bad_chunk"}
  BY <1>2 DEF InChunks
<1>8. PICK i \in 0 .. ChunkCount(r) :
        /\ partial_response = [head |-> r, data |-> DataUpTo(r, i)]
        /\ Way = ChunksWay(r, i)
  BY <1>2 DEF InChunks
<1>9. b # <<>>
  <2>1. Len(b) >= 2
    BY <1>1, SizeBegins, Zenon
  <2> QED
    BY <1>4, <2>1
<1>10. /\ i < ChunkCount(r) \/ Framing(r) = "chunked" =>
            ChunkLen(b) = (IF i < ChunkCount(r) THEN script[r].chunks[i + 1] ELSE 0)
       /\ i = ChunkCount(r) /\ Framing(r) # "chunked" => ~SizeComplete(b)
  BY <1>2, <1>6, <1>8, <1>9, ChunkIsSeen
<1>11. i = ChunkCount(r) /\ Framing(r) = "chunked"
  <2>1. i \in Nat /\ (i < ChunkCount(r) \/ i = ChunkCount(r))
    BY <1>5
  <2>2. i < ChunkCount(r) => script[r].chunks[i + 1] > 0
    <3>1. i < ChunkCount(r) => i + 1 \in 1 .. ChunkCount(r)
      BY <1>5
    <3> QED
      BY <1>3, <1>4, <1>7, <3>1, ScriptIs
  <2>3. ~(i < ChunkCount(r))
    <3> SUFFICES ASSUME i < ChunkCount(r) PROVE FALSE
      OBVIOUS
    <3>1. script[r].chunks[i + 1] > 0 /\ ChunkLen(b) = script[r].chunks[i + 1] /\ ChunkLen(b) = 0
      BY <1>1, <1>10, <2>2
    <3> QED
      BY <3>1
  <2> HIDE DEF b
  <2> QED
    BY <1>1, <1>10, <2>1, <2>3
<1>12. /\ c \in Seq(Unit) /\ After(r) \in Seq(Unit) /\ Way = c \o After(r) /\ Len(c) = 4
  BY <1>2, <1>6, <1>8, <1>11, LastAhead
<1> HIDE DEF c
<1>13. UNCHANGED <<server, stream, pc>> /\ curr_state' = Headers /\ script' = script
  BY <1>1 DEF Return, server
<1>14. /\ response_buffer' \in Seq(Unit) /\ Way' = After(r)
       /\ \E e \in Seq(Unit) : After(r) = e \o unsent
  BY <1>1, <1>4, <1>12, <1>13, Consumed
<1>15. partial_response = Response(r)
  <2>1. DataUpTo(r, i) = AllData(r)
    BY <1>3, <1>4, <1>11, DataUpToIs
  <2>2. Given(r) = AllData(r)
    BY <1>11 DEF Given
  <2> QED
    BY <1>8, <2>1, <2>2 DEF Response
<1>16. returned' = Append(returned, Response(r))
  BY <1>1, <1>15 DEF Return
<1>17. Whole(r)
  BY <1>3, <1>4, <1>11, <1>14, AllSent
<1>18. Place(r)'
  BY <1>13, <1>14, ScriptStays DEF Place, AtHead
<1> QED
  BY <1>1, <1>2, <1>13, <1>14, <1>16, <1>17, <1>18, ReturnsNext DEF r

(* It fails where there is no size. *)
LEMMA ChunkErrorKeeps ==
  ASSUME NEW n, InvAt(n), ChunkError
  PROVE  InvAt(n)'
<1> DEFINE r == n + 1
           b == response_buffer
<1>1. /\ curr_state = ChunkedData /\ Fail
      /\ ~SizeComplete(b) /\ ~SizePartial(b)
  BY DEF ChunkError
<1>2. n < Len(script) /\ InChunks(r) /\ n \in Nat /\ Len(script) \in Nat
  BY <1>1, PlaceIs
<1>3. r \in 1 .. Len(script)
  BY <1>2
<1>4. script \in Scripts /\ DOMAIN script = 1 .. Len(script) /\ Len(b) \in Nat
  <2>1. script \in Scripts /\ b \in Seq(Unit)
    BY DEF InvAt, TypeInv
  <2>2. DOMAIN script = 1 .. Len(script)
    BY <2>1, ScriptIs
  <2> HIDE DEF b
  <2>3. Len(b) \in Nat
    BY <2>1
  <2> QED
    BY <2>1, <2>2, <2>3
<1>5. ChunkCount(r) \in Nat
  BY <1>3, <1>4, ScriptIs
<1>6. r = n + 1
  OBVIOUS
<1> HIDE DEF r
<1>7. Framing(r) \in {"chunked", "bad_chunk"}
  BY <1>2 DEF InChunks
<1>8. PICK i \in 0 .. ChunkCount(r) : Way = ChunksWay(r, i)
  BY <1>2 DEF InChunks
<1>9. b # <<>>
  BY <1>1, Zenon DEF SizePartial
<1>10. ~(i < ChunkCount(r) \/ Framing(r) = "chunked")
  <2> SUFFICES ASSUME i < ChunkCount(r) \/ Framing(r) = "chunked" PROVE FALSE
    OBVIOUS
  <2>1. (Len(b) >= 2 => SizeComplete(b)) /\ (Len(b) < 2 => SizePartial(b))
    BY <1>2, <1>6, <1>8, <1>9, ChunkIsSeen
  <2> HIDE DEF b
  <2>2. Len(b) >= 2 \/ Len(b) < 2
    BY <1>4
  <2> QED
    BY <1>1, <2>1, <2>2
<1>11. Framing(r) = "bad_chunk"
  BY <1>7, <1>10
<1>12. NextIsBroken(n) /\ NextIsNotWhole(n)
  BY <1>3, <1>4, <1>6, <1>11 DEF NextIsBroken, NextIsNotWhole, Whole, Framing
<1> QED
  BY <1>1, <1>12, GivesUp

(* What has arrived is read. *)
LEMMA ReadKeeps ==
  ASSUME NEW n, InvAt(n), Read
  PROVE  InvAt(n)'
<1>1. /\ pc = "poll" /\ stream # <<>>
      /\ response_buffer' = response_buffer \o stream /\ stream' = <<>>
      /\ UNCHANGED <<server, pc, curr_state, partial_response, returned>>
      /\ script' = script /\ unsent' = unsent /\ ended' = ended
  BY DEF Read, NeedsMore, server
<1>2. TypeInv /\ response_buffer \in Seq(Unit) /\ stream \in Seq(Unit) /\ unsent \in Seq(Unit)
  BY DEF InvAt, TypeInv
<1>3. TypeInv'
  <2>1. response_buffer \o stream \in Seq(Unit) /\ <<>> \in Seq(Unit)
    BY <1>2
  <2> QED
    BY <1>1, <1>2, <2>1 DEF TypeInv
<1>4. n \in 0 .. Len(script') /\ returned' = Returned(n)'
  BY <1>1, ReturnedStays DEF InvAt
<1>5. \A r \in 1 .. n : Whole(r)'
  BY <1>1, WholeStays DEF InvAt
<1>6. Place(n)'
  <2>1. Way' = (response_buffer \o stream) \o (<<>> \o unsent)
    BY <1>1 DEF Way
  <2>2. <<>> \o unsent = unsent
    BY <1>2
  <2>3. (response_buffer \o stream) \o unsent = response_buffer \o (stream \o unsent)
    BY <1>2, ConcatAssociative, SMTT(60)
  <2>4. Way' = Way
    BY <2>1, <2>2, <2>3 DEF Way
  <2>5. ~AfterEnd(n)
    BY <1>1 DEF AfterEnd
  <2>6. Place(n)
    BY DEF InvAt
  <2> QED
    BY <1>1, <2>4, <2>5, <2>6, PlaceStays
<1>7. Stop(n)'
  BY <1>1 DEF Stop
<1> QED
  BY <1>3, <1>4, <1>5, <1>6, <1>7 DEF InvAt

(* When nothing can be made of the buffer and nothing has arrived, the next *)
(* response has not been sent as a whole.                                   *)
LEMMA NotWholeYet ==
  ASSUME NEW n, InvAt(n), NeedsMore, stream = <<>>, n < Len(script),
         curr_state = RawData(NoLength) => ~ended
  PROVE  ~Whole(n + 1)
<1> DEFINE r == n + 1
           b == response_buffer
<1>1. TypeInv /\ script \in Scripts /\ b \in Seq(Unit) /\ n \in Nat /\ Len(script) \in Nat
  BY PlaceIs DEF InvAt, TypeInv
<1>2. r \in 1 .. Len(script) /\ r \in Nat /\ r \in 0 .. Len(script) /\ ~AfterEnd(n)
  BY <1>1 DEF AfterEnd
<1>3. r = n + 1
  OBVIOUS
<1> HIDE DEF r
<1>4. CASE curr_state = Headers /\ (b = <<>> \/ HeadPartial(b))
  <2>1. AtHead(n)
    BY <1>2, <1>4, PlaceIs
  <2>2. CASE Framing(r) = "bad_head"
    BY <1>3, <2>2 DEF Whole, Framing
  <2>3. CASE Framing(r) # "bad_head"
    <3>1. Body(r) \o After(r) \in Seq(Unit) /\ Way = Head1(r) \o (Body(r) \o After(r))
      BY <1>3, <2>1, <2>3, HeadAhead
    <3>2. /\ Head1(r) \in Seq(Units(r)) /\ Len(Head1(r)) = 2
          /\ Head1(r)[1] = <<"head", r, 1>> /\ Head1(r)[2] = <<"head", r, 2>>
      BY <1>1, <1>2, PiecesAre
    <3> DEFINE c == Head1(r)
               d == Body(r) \o After(r)
    <3>3. c \in Seq(Units(r)) /\ d \in Seq(Unit) /\ Way = c \o d /\ Len(c) = 2
      BY <3>1, <3>2
    <3>4. \A i \in 1 .. Len(c) : c[i][1] = "head"
      <4>1. \A i \in 1 .. 2 : i = 1 \/ i = 2
        OBVIOUS
      <4>2. c[1][1] = "head" /\ c[2][1] = "head"
        BY <3>2
      <4> QED
        BY <3>3, <4>1, <4>2
    <3> HIDE DEF c, d
    <3>5. Len(b) < 2
      <4>1. b = <<>> => Len(b) = 0
        OBVIOUS
      <4>2. HeadPartial(b) => Len(b) = 1
        BY DEF HeadPartial
      <4> QED
        BY <1>4, <4>1, <4>2
    <3>6. Len(b) < Len(c)
      BY <3>3, <3>5
    <3> QED
      BY <1>1, <1>2, <1>3, <3>3, <3>4, <3>6, StillMissing
  <2> QED
    BY <2>2, <2>3
<1>5. CASE curr_state.tag = "RawData" /\ curr_state.len = NoLength
  <2>1. curr_state = RawData(NoLength)
    BY <1>5, PlaceIs
  <2>2. UntilEnd(r) /\ ~ended
    BY <1>3, <2>1, PlaceIs
  <2> QED
    BY <1>3, <2>2 DEF UntilEnd, Whole, Framing
<1>6. CASE curr_state.tag = "RawData" /\ curr_state.len # NoLength /\ Len(b) < curr_state.len
  <2> DEFINE c == Data(r, 1)
  <2>1. /\ Framing(r) = "length" /\ curr_state = RawData(script[r].chunks[1])
        /\ Way = c \o After(r)
    BY <1>3, <1>6, PlaceIs DEF InBody
  <2>2. c \in Seq(Units(r)) /\ Len(c) = script[r].chunks[1]
    <3>1. ChunkCount(r) = 1
      BY <1>1, <1>2, <2>1, ScriptIs
    <3>2. 1 \in 1 .. ChunkCount(r)
      BY <3>1
    <3> QED
      BY <1>1, <1>2, <3>2, PiecesAre
  <2>3. After(r) \in Seq(Unit)
    BY <1>1, <1>2, AfterIs
  <2> HIDE DEF c
  <2>4. Len(b) < Len(c)
    BY <1>6, <2>1, <2>2 DEF RawData
  <2> QED
    BY <1>1, <1>2, <1>3, <2>1, <2>2, <2>3, <2>4, StillMissing
<1>7. CASE /\ curr_state = ChunkedData
           /\ \/ SizePartial(b)
              \/ SizeComplete(b) /\ Len(b) < 2 + ChunkLen(b) + 2
  <2>1. InChunks(r)
    BY <1>3, <1>7, PlaceIs
  <2>2. PICK i \in 0 .. ChunkCount(r) : Way = ChunksWay(r, i)
    BY <2>1 DEF InChunks
  <2>3. PICK c \in Seq(Units(r)), d \in Seq(Unit) : Way = c \o d /\ Len(b) < Len(c)
    BY <1>3, <1>7, <2>2, ChunkPiece
  <2>4. Framing(r) # "none"
    BY <2>1 DEF InChunks
  <2> QED
    BY <1>1, <1>2, <1>3, <2>3, <2>4, StillMissing
<1> QED
  BY <1>4, <1>5, <1>6, <1>7 DEF NeedsMore, AtChunk

(* The task sleeps. *)
LEMMA ReadWouldBlockKeeps ==
  ASSUME NEW n, InvAt(n), ReadWouldBlock
  PROVE  InvAt(n)'
<1>1. /\ NeedsMore /\ stream = <<>> /\ ~ended /\ pc' = "idle"
      /\ UNCHANGED <<server, stream, curr_state, partial_response, returned>>
      /\ script' = script /\ ended' = ended /\ stream' = stream /\ unsent' = unsent
      /\ response_buffer' = response_buffer
  BY DEF ReadWouldBlock, server, parser
<1>2. TypeInv'
  BY <1>1 DEF InvAt, TypeInv
<1>3. n \in 0 .. Len(script') /\ returned' = Returned(n)'
  BY <1>1, ReturnedStays DEF InvAt
<1>4. \A r : Whole(r)' = Whole(r)
  BY <1>1, WholeStays
<1>5. Place(n)'
  <2>1. Way' = Way /\ (AfterEnd(n) => AfterEnd(n)')
    BY <1>1 DEF Way, AfterEnd
  <2>2. Place(n)
    BY DEF InvAt
  <2> QED
    BY <1>1, <2>1, <2>2, PlaceStays
<1>6. Stop(n)'
  <2>1. NextIsNotWhole(n)
    BY <1>1, NotWholeYet DEF NextIsNotWhole
  <2> QED
    BY <1>1, <1>4, <2>1 DEF Stop, NextIsNotWhole
<1> QED
  BY <1>2, <1>3, <1>4, <1>5, <1>6 DEF InvAt

(* The end of the connection makes the last response whole, or breaks it off. *)
LEMMA ReadEndKeeps ==
  ASSUME NEW n, InvAt(n), ReadEnd
  PROVE  (curr_state = RawData(NoLength) /\ InvAt(n + 1)') \/ InvAt(n)'
<1> DEFINE r == n + 1
           b == response_buffer
           c == Data(r, 1)
<1>1. NeedsMore /\ pc = "poll" /\ stream = <<>> /\ ended
  BY DEF ReadEnd, NeedsMore
<1>2. TypeInv /\ script \in Scripts /\ DOMAIN script = 1 .. Len(script)
      /\ b \in Seq(Unit) /\ unsent \in Seq(Unit) /\ n \in Nat /\ Len(script) \in Nat
  BY PlaceIs, ScriptIs DEF InvAt, TypeInv
<1>3. r = n + 1
  OBVIOUS
<1>4. CASE curr_state # RawData(NoLength) /\ Fail
  <2>1. NextIsNotWhole(n)
    BY <1>1, <1>4, NotWholeYet DEF NextIsNotWhole
  <2> QED
    BY <1>1, <1>4, <2>1, GivesUp
<1>5. CASE curr_state = RawData(NoLength) /\ Return(partial_response) /\ UNCHANGED response_buffer
  <2>1. n < Len(script) /\ UntilEnd(r)
    BY <1>5, PlaceIs
  <2>2. r \in 1 .. Len(script) /\ r \in 0 .. Len(script) /\ r \in Nat
    BY <1>2, <2>1
  <2> HIDE DEF r
  <2>3. /\ Framing(r) = "none"
        /\ partial_response = [head |-> r, data |-> <<>>]
        /\ Way = c \o After(r)
    BY <2>1 DEF UntilEnd
  <2>4. ChunkCount(r) = 1 /\ r = Len(script)
    BY <1>2, <2>2, <2>3, ScriptIs
  <2>5. After(r) = <<>>
    BY <1>2, <2>2, <2>4, AfterIs
  <2>6. c \in Seq(Unit) /\ \A k \in 1 .. Len(c) : c[k][1] = "data" /\ c[k][2] = r
    <3>1. 1 \in 1 .. ChunkCount(r)
      BY <2>4
    <3>2. /\ c \in Seq(Units(r)) /\ Len(c) = script[r].chunks[1]
          /\ \A k \in 1 .. script[r].chunks[1] : c[k] = <<"data", r, 1, k>>
      BY <1>2, <2>2, <3>1, PiecesAre
    <3> HIDE DEF c
    <3>3. c \in Seq(Unit)
      BY <2>2, <3>2, UnitsOfAll
    <3> QED
      BY <3>2, <3>3
  <2> HIDE DEF c
  <2>7. c = b \o unsent
    <3>1. <<>> \o unsent = unsent /\ c \o <<>> = c
      BY <1>2, <2>6
    <3> QED
      BY <1>1, <2>3, <2>5, <3>1 DEF Way
  <2>8. /\ \A k \in 1 .. Len(b) : k \in 1 .. Len(c) /\ c[k] = b[k]
        /\ \A k \in 1 .. Len(unsent) : Len(b) + k \in 1 .. Len(c) /\ c[Len(b) + k] = unsent[k]
    <3>1. /\ \A k \in 1 .. Len(b) : (b \o unsent)[k] = b[k]
          /\ \A k \in 1 .. Len(unsent) : (b \o unsent)[Len(b) + k] = unsent[k]
      BY <1>2, ConcatParts
    <3>2. Len(c) = Len(b) + Len(unsent) /\ Len(b) \in Nat /\ Len(unsent) \in Nat
      BY <1>2, <2>7, ConcatProperties
    <3>3. /\ \A k \in 1 .. Len(b) : k \in 1 .. Len(c)
          /\ \A k \in 1 .. Len(unsent) : Len(b) + k \in 1 .. Len(c)
      BY <3>2
    <3> QED
      BY <2>7, <3>1, <3>3
  <2>9. UNCHANGED <<server, stream, pc>> /\ curr_state' = Headers
        /\ script' = script /\ ended' = ended /\ stream' = stream
        /\ response_buffer' = response_buffer
    BY <1>5 DEF Return, server
  <2>10. partial_response = Response(r)
    BY <2>3 DEF Response, Given
  <2>11. returned' = Append(returned, Response(r))
    BY <1>5, <2>10 DEF Return
  <2>12. Whole(r)
    <3>1. ASSUME NEW k \in DOMAIN unsent PROVE unsent[k][2] >= r /\ unsent[k][1] # "head"
      <4>1. k \in 1 .. Len(unsent)
        BY <1>2
      <4>2. unsent[k][1] = "data" /\ unsent[k][2] = r
        BY <2>6, <2>8, <4>1
      <4> QED
        BY <2>2, <4>2
    <3> QED
      BY <1>1, <2>3, <3>1 DEF Whole, Framing
  <2>13. Place(r)'
    <3>1. b # <<>> => b[1][1] = "data"
      <4> SUFFICES ASSUME b # <<>> PROVE b[1][1] = "data"
        OBVIOUS
      <4>1. 1 \in 1 .. Len(b)
        BY <1>2, OneOrMore
      <4> QED
        BY <2>6, <2>8, <4>1
    <3> QED
      BY <1>1, <2>4, <2>9, <3>1 DEF Place, AfterEnd
  <2>14. response_buffer' \in Seq(Unit)
    BY <1>2, <2>9
  <2> QED
    BY <1>1, <1>3, <1>5, <2>1, <2>9, <2>11, <2>12, <2>13, <2>14, ReturnsNext
<1> QED
  BY <1>4, <1>5 DEF ReadEnd

-----------------------------------------------------------------------------
(* The steps of the server.                                                *)

(* What is whole stays whole when more is sent, or the connection ends. *)
LEMMA WholeLater ==
  ASSUME NEW r, Whole(r), script' = script, ended => ended',
         unsent \in Seq(Unit), unsent' = unsent \/ (unsent # <<>> /\ unsent' = Tail(unsent))
  PROVE  Whole(r)'
<1>1. ASSUME NEW i \in DOMAIN unsent' PROVE \E k \in DOMAIN unsent : unsent'[i] = unsent[k]
  <2>1. CASE unsent' = unsent
    BY <1>1, <2>1
  <2>2. CASE unsent # <<>> /\ unsent' = Tail(unsent)
    <3>1. i \in 1 .. Len(unsent) - 1 /\ Len(unsent) \in Nat
      BY <1>1, <2>2
    <3>2. i + 1 \in DOMAIN unsent /\ Tail(unsent)[i] = unsent[i + 1]
      BY <2>2, <3>1
    <3> QED
      BY <2>2, <3>2
  <2> QED
    BY <2>1, <2>2
<1> QED
  BY <1>1 DEF Whole

(* The server sends a unit. *)
LEMMA ServerSendsKeeps ==
  ASSUME NEW n, InvAt(n), ServerSends
  PROVE  InvAt(n)'
<1>1. /\ unsent # <<>> /\ ~ended /\ stream' = Append(stream, Head(unsent))
      /\ unsent' = Tail(unsent) /\ pc' = (IF pc = "idle" THEN "poll" ELSE pc)
      /\ script' = script /\ ended' = ended /\ response_buffer' = response_buffer
      /\ UNCHANGED <<curr_state, partial_response, returned>>
  BY DEF ServerSends, parser
<1>2. TypeInv /\ unsent \in Seq(Unit) /\ stream \in Seq(Unit) /\ response_buffer \in Seq(Unit)
  BY DEF InvAt, TypeInv
<1>3. Head(unsent) \in Unit /\ Tail(unsent) \in Seq(Unit) /\ Append(stream, Head(unsent)) \in Seq(Unit)
  BY <1>1, <1>2
<1>4. TypeInv'
  BY <1>1, <1>2, <1>3 DEF TypeInv
<1>5. n \in 0 .. Len(script') /\ returned' = Returned(n)'
  BY <1>1, ReturnedStays DEF InvAt
<1>6. \A r \in 1 .. n : Whole(r)'
  BY <1>1, <1>2, WholeLater DEF InvAt
<1>7. Place(n)'
  <2> DEFINE h == Head(unsent)
             t == Tail(unsent)
  <2>1. h \in Unit /\ t \in Seq(Unit) /\ unsent = <<h>> \o t
    BY <1>1, <1>2, <1>3
  <2> HIDE DEF h, t
  <2>2. Append(stream, h) = stream \o <<h>> /\ <<h>> \in Seq(Unit)
    BY <1>2, <2>1
  <2>3. (stream \o <<h>>) \o t = stream \o (<<h>> \o t)
    BY <1>2, <2>1, <2>2, ConcatAssociative, SMTT(60)
  <2>4. stream' \o unsent' = stream \o unsent
    BY <1>1, <2>1, <2>2, <2>3 DEF h, t
  <2>5. Way' = Way
    BY <1>1, <2>4 DEF Way
  <2>6. ~AfterEnd(n)
    BY <1>1 DEF AfterEnd
  <2>7. Place(n)
    BY DEF InvAt
  <2> QED
    BY <1>1, <2>5, <2>6, <2>7, PlaceStays
<1>8. Stop(n)'
  <2>1. pc' # "idle" /\ (pc' = "dropped" => pc = "dropped")
    BY <1>1
  <2> QED
    BY <1>1, <2>1, ScriptStays DEF InvAt, Stop, NextIsBroken, NextIsNotWhole, Whole, Framing
<1> QED
  BY <1>4, <1>5, <1>6, <1>7, <1>8 DEF InvAt

(* The server closes the connection. *)
LEMMA ServerEndsKeeps ==
  ASSUME NEW n, InvAt(n), ServerEnds
  PROVE  InvAt(n)'
<1>1. /\ ~ended /\ ended' = TRUE /\ pc' = (IF pc = "idle" THEN "poll" ELSE pc)
      /\ script' = script /\ unsent' = unsent /\ stream' = stream
      /\ response_buffer' = response_buffer
      /\ UNCHANGED <<curr_state, partial_response, returned>>
  BY DEF ServerEnds, parser
<1>2. TypeInv /\ unsent \in Seq(Unit)
  BY DEF InvAt, TypeInv
<1>3. TypeInv'
  BY <1>1, <1>2 DEF TypeInv
<1>4. n \in 0 .. Len(script') /\ returned' = Returned(n)'
  BY <1>1, ReturnedStays DEF InvAt
<1>5. \A r \in 1 .. n : Whole(r)'
  BY <1>1, <1>2, WholeLater DEF InvAt
<1>6. Place(n)'
  <2>1. Way' = Way /\ ~AfterEnd(n)
    BY <1>1 DEF Way, AfterEnd
  <2>2. Place(n)
    BY DEF InvAt
  <2> QED
    BY <1>1, <2>1, <2>2, PlaceStays
<1>7. Stop(n)'
  <2>1. pc' # "idle" /\ (pc' = "dropped" => pc = "dropped")
    BY <1>1
  <2> QED
    BY <1>1, <2>1, ScriptStays DEF InvAt, Stop, NextIsBroken, NextIsNotWhole, Whole, Framing
<1> QED
  BY <1>3, <1>4, <1>5, <1>6, <1>7 DEF InvAt

-----------------------------------------------------------------------------
(* The invariant holds.                                                    *)

(* It holds at first, before the first response. *)
LEMMA InitHasIInv == Init => InvAt(0)
<1> SUFFICES ASSUME Init PROVE InvAt(0)
  OBVIOUS
<1>1. /\ script \in Scripts /\ ended = FALSE /\ stream = <<>> /\ pc = "poll"
      /\ response_buffer = <<>> /\ curr_state = Headers /\ returned = <<>>
      /\ unsent = FlattenSeq(All)
  BY DEF Init, All
<1>2. Len(script) \in Nat /\ 0 \in 0 .. Len(script)
  <2>1. Len(script) \in Nat
    BY <1>1, ScriptIs
  <2> QED
    BY <2>1
<1>3. unsent = After(0) /\ unsent \in Seq(Unit)
  <2>1. After(0) \in Seq(Unit)
    BY <1>1, <1>2, AfterIs
  <2>2. Behind(All, 0) = All
    <3>1. DOMAIN script = 1 .. Len(script)
      BY <1>1, ScriptIs
    <3> DEFINE N == Len(script)
               S == {Encoded(r) : r \in 1 .. N}
    <3>2. All = [r \in 1 .. N |-> Encoded(r)] /\ N \in Nat
      BY <1>2, <3>1 DEF All
    <3> HIDE DEF N
    <3>3. All \in Seq(S)
      BY <3>2
    <3> HIDE DEF S
    <3> QED
      BY <3>3 DEF Behind
  <2> QED
    BY <1>1, <2>1, <2>2 DEF After
<1>4. Way = After(0)
  <2>1. <<>> \o (<<>> \o unsent) = unsent
    BY <1>3
  <2> QED
    BY <1>1, <1>3, <2>1 DEF Way
<1>5. returned = Returned(0)
  BY <1>1 DEF Returned
<1>6. TypeInv
  <2>1. <<>> \in Seq(Unit)
    OBVIOUS
  <2> QED
    BY <1>1, <1>3, <2>1 DEF TypeInv
<1>7. Place(0) /\ Stop(0)
  BY <1>1, <1>4 DEF Place, AtHead, Stop
<1> QED
  BY <1>2, <1>5, <1>6, <1>7 DEF InvAt

(* A step that changes nothing. *)
LEMMA StutterKeeps ==
  ASSUME NEW n, InvAt(n), UNCHANGED vars
  PROVE  InvAt(n)'
<1>1. /\ script' = script /\ unsent' = unsent /\ ended' = ended /\ stream' = stream /\ pc' = pc
      /\ response_buffer' = response_buffer /\ returned' = returned
      /\ UNCHANGED <<server, curr_state, partial_response>>
  BY DEF vars, server, parser
<1>2. \A r : Whole(r)' = Whole(r)
  BY <1>1, WholeStays
<1>3. returned' = Returned(n)'
  BY <1>1, ReturnedStays DEF InvAt
<1>4. Place(n)'
  <2>1. Place(n) /\ Way' = Way /\ (AfterEnd(n) => AfterEnd(n)')
    BY <1>1 DEF InvAt, Way, AfterEnd
  <2> QED
    BY <1>1, <2>1, PlaceStays
<1>5. Stop(n)'
  BY <1>1, <1>2, ScriptStays DEF InvAt, Stop, NextIsNotWhole, NextIsBroken
<1>6. TypeInv'
  BY <1>1 DEF InvAt, TypeInv
<1> QED
  BY <1>1, <1>2, <1>3, <1>4, <1>5, <1>6 DEF InvAt

(* Every step keeps it, with the same number of responses or with one more. *)
LEMMA NextKeepsInv ==
  ASSUME NEW n, InvAt(n), [Next]_vars
  PROVE  InvAt(n)' \/ InvAt(n + 1)'
<1>1. CASE ParseHead
  BY <1>1, ParseHeadKeeps
<1>2. CASE HeadError
  BY <1>2, HeadErrorKeeps
<1>3. CASE TakeBody
  BY <1>3, TakeBodyKeeps
<1>4. CASE TakeChunk
  BY <1>4, TakeChunkKeeps
<1>5. CASE TakeLastChunk
  BY <1>5, TakeLastChunkKeeps
<1>6. CASE ChunkError
  BY <1>6, ChunkErrorKeeps
<1>7. CASE Read
  BY <1>7, ReadKeeps
<1>8. CASE ReadWouldBlock
  BY <1>8, ReadWouldBlockKeeps
<1>9. CASE ReadEnd
  BY <1>9, ReadEndKeeps
<1>10. CASE ServerSends
  BY <1>10, ServerSendsKeeps
<1>11. CASE ServerEnds
  BY <1>11, ServerEndsKeeps
<1>12. CASE UNCHANGED vars
  BY <1>12, StutterKeeps
<1> QED
  BY <1>1, <1>2, <1>3, <1>4, <1>5, <1>6, <1>7, <1>8, <1>9, <1>10, <1>11, <1>12
  DEF Next, PollForResponse

(* So the invariant is kept. *)
LEMMA NextKeepsIInv == IInv /\ [Next]_vars => IInv'
<1> SUFFICES ASSUME NEW n \in Nat, InvAt(n), [Next]_vars PROVE IInv'
  BY DEF IInv
<1>1. InvAt(n)' \/ InvAt(n + 1)'
  BY NextKeepsInv
<1> QED
  BY <1>1 DEF IInv

(* And it holds always. *)
LEMMA SpecHasIInv == Spec => []IInv
<1>1. Init => IInv
  BY InitHasIInv DEF IInv
<1> QED
  BY <1>1, NextKeepsIInv, PTL DEF Spec

-----------------------------------------------------------------------------
(* The responses that were sent whole.                                     *)

(* The ones before one that is whole are. *)
LEMMA EarlierAreWhole ==
  ASSUME TypeInv, NEW r \in 1 .. Len(script), NEW q \in 1 .. Len(script), q < r, Whole(r)
  PROVE  Whole(q)
<1>1. script \in Scripts /\ Len(script) \in Nat /\ DOMAIN unsent = 1 .. Len(unsent)
  BY ScriptIs DEF TypeInv
<1>2. Framing(q) \in {"length", "chunked"}
  <2>1. Framing(q) \in Framings /\ (Framing(q) \in {"none", "bad_head", "bad_chunk"} => q = Len(script))
    BY <1>1, ScriptIs
  <2>2. q # Len(script)
    BY <1>1
  <2> QED
    BY <2>1, <2>2 DEF Framings
<1>3. ASSUME NEW i \in DOMAIN unsent PROVE unsent[i][2] > q
  <2>1. unsent[i] \in Unit
    BY <1>1 DEF TypeInv
  <2>2. PICK k \in Nat : unsent[i] \in Units(k)
    BY <2>1 DEF Unit
  <2>3. unsent[i][2] = k
    BY <2>2, UnitsAre
  <2>4. unsent[i][2] >= r \/ unsent[i][2] > r
    BY DEF Whole
  <2> QED
    BY <1>1, <2>3, <2>4
<1> QED
  BY <1>2, <1>3 DEF Whole, Framing

(* They are the first ones of the script. *)
LEMMA SentWholeIs ==
  ASSUME TypeInv
  PROVE  \E w \in 0 .. Len(script) :
           SentWhole = UpTo(w) /\ \A r \in 1 .. Len(script) : Whole(r) <=> r <= w
<1> DEFINE N == Len(script)
           S == {k \in 0 .. N : k < N => ~Whole(k + 1)}
<1>1. N \in Nat /\ DOMAIN script = 1 .. N
  BY ScriptIs DEF TypeInv
<1>2. PICK w \in S : \A k \in S : w <= k
  <2> HIDE DEF N
  <2>1. S \in SUBSET Nat /\ N \in S
    BY <1>1
  <2> HIDE DEF S
  <2> QED
    BY <2>1, LeastNumber
<1>3. w \in 0 .. N /\ w \in Nat /\ (w < N => ~Whole(w + 1))
  BY <1>1, <1>2
<1>4. ASSUME NEW r \in 1 .. N, r <= w PROVE Whole(r)
  <2>1. r - 1 \in 0 .. N /\ ~(w <= r - 1) /\ r - 1 < N /\ (r - 1) + 1 = r
    BY <1>1, <1>3, <1>4
  <2>2. r - 1 \notin S
    BY <1>2, <2>1
  <2> QED
    BY <2>1, <2>2
<1>5. ASSUME NEW r \in 1 .. N, Whole(r) PROVE r <= w
  <2> SUFFICES ASSUME ~(r <= w) PROVE FALSE
    OBVIOUS
  <2>1. w < N /\ w + 1 \in 1 .. N /\ (w + 1 = r \/ w + 1 < r)
    BY <1>1, <1>3
  <2>2. Whole(w + 1)
    BY <1>5, <2>1, EarlierAreWhole
  <2> QED
    BY <1>3, <2>1, <2>2
<1>6. {r \in DOMAIN script : Whole(r)} = 1 .. w
  <2> HIDE DEF S
  <2>1. ASSUME NEW r PROVE (r \in DOMAIN script /\ Whole(r)) <=> r \in 1 .. w
    <3>1. r \in 1 .. w => r \in 1 .. N /\ r <= w
      BY <1>1, <1>3
    <3>2. r \in 1 .. N /\ r <= w => r \in 1 .. w
      BY <1>1, <1>3
    <3> HIDE DEF N
    <3> QED
      BY <1>1, <1>4, <1>5, <3>1, <3>2
  <2> QED
    BY <2>1
<1>7. SentWhole = UpTo(w)
  BY <1>6 DEF SentWhole, UpTo
<1> QED
  BY <1>3, <1>4, <1>5, <1>7

(* So it is after a step. *)
LEMMA SentWholeIsThen ==
  TypeInv' => (\E w \in 0 .. Len(script) :
                 SentWhole = UpTo(w) /\ \A r \in 1 .. Len(script) : Whole(r) <=> r <= w)'
<1>1. TypeInv => \E w \in 0 .. Len(script) :
                   SentWhole = UpTo(w) /\ \A r \in 1 .. Len(script) : Whole(r) <=> r <= w
  BY SentWholeIs
<1> QED
  BY <1>1, PTL

(* The responses returned are among them, and when the next is not whole   *)
(* they are all.                                                           *)
LEMMA ReturnedAreWhole ==
  ASSUME NEW n \in Nat, InvAt(n), NEW w \in 0 .. Len(script),
         \A r \in 1 .. Len(script) : Whole(r) <=> r <= w
  PROVE  n <= w /\ (NextIsNotWhole(n) => w = n)
<1>1. Len(script) \in Nat /\ n <= Len(script) /\ w \in Nat /\ w <= Len(script)
  BY PlaceIs
<1>2. n <= w
  <2>1. CASE n = 0
    BY <1>1, <2>1
  <2>2. CASE n # 0
    <3>1. n \in 1 .. n /\ n \in 1 .. Len(script)
      BY <1>1, <2>2
    <3>2. Whole(n)
      BY <3>1 DEF InvAt
    <3> QED
      BY <3>1, <3>2
  <2> QED
    BY <2>1, <2>2
<1>3. ASSUME NextIsNotWhole(n) PROVE w = n
  <2> SUFFICES ASSUME w # n PROVE FALSE
    OBVIOUS
  <2>1. n < w /\ n < Len(script) /\ n + 1 \in 1 .. Len(script) /\ n + 1 <= w
    BY <1>1, <1>2
  <2>2. Whole(n + 1)
    BY <2>1
  <2> QED
    BY <1>3, <2>1, <2>2 DEF NextIsNotWhole
<1> QED
  BY <1>2, <1>3

-----------------------------------------------------------------------------
(* The properties.                                                         *)

(* What is returned is numbered from one on. *)
LEMMA HeadsAre ==
  ASSUME NEW n \in Nat, returned = Returned(n)
  PROVE  Heads = UpTo(n) /\ Len(returned) = n
BY DEF Heads, UpTo, Returned, Response

(* After a step too. *)
LEMMA HeadsAreThen ==
  ASSUME NEW n \in Nat, returned' = Returned(n)'
  PROVE  Heads' = UpTo(n) /\ Len(returned') = n
BY DEF Heads, UpTo, Returned, Response

(* A response that says its length, or comes in chunks, is returned with   *)
(* its own body, all of it and nothing else, however the bytes arrive.     *)
THEOREM ParserReturnsOwnBodies == Spec => []BodiesOfKnownLength
<1>1. IInv => BodiesOfKnownLength
  <2> SUFFICES ASSUME NEW n \in Nat, InvAt(n), NEW i \in DOMAIN returned,
                      script[returned[i].head].framing # "none"
               PROVE  returned[i].data = AllData(returned[i].head)
    BY DEF IInv, BodiesOfKnownLength
  <2>1. returned[i] = Response(i)
    BY DEF InvAt, Returned
  <2> QED
    BY <2>1 DEF Response, Given, Framing
<1> QED
  BY <1>1, SpecHasIInv, PTL

(* However the bytes arrive, the parser gives the connection up only when  *)
(* it has ended or where the server does not keep to the protocol.         *)
THEOREM ParserErrorsAreJustified == Spec => []ErrorsAreJustified
<1>1. IInv => ErrorsAreJustified
  <2> SUFFICES ASSUME NEW n \in Nat, InvAt(n), pc = "dropped", ~(ended /\ stream = <<>>)
               PROVE  LET next == Len(returned) + 1
                      IN  next \in DOMAIN script /\ script[next].framing \in {"bad_head", "bad_chunk"}
    BY DEF IInv, ErrorsAreJustified
  <2>1. NextIsBroken(n)
    BY DEF InvAt, Stop
  <2>2. Len(returned) = n
    BY HeadsAre DEF InvAt
  <2> QED
    BY <2>1, <2>2 DEF NextIsBroken, Framing
<1> QED
  BY <1>1, SpecHasIInv, PTL

(* When the task sleeps, and when the connection is given up, all the      *)
(* responses that came whole have been handed out.                         *)
THEOREM ParserHoldsNothingBack == Spec => []NothingHeldBack
<1>1. IInv => NothingHeldBack
  <2> SUFFICES ASSUME NEW n \in Nat, InvAt(n), pc = "dropped" \/ (pc = "idle" /\ stream = <<>>)
               PROVE  Heads = SentWhole
    BY DEF IInv, NothingHeldBack
  <2>1. NextIsNotWhole(n) /\ Heads = UpTo(n)
    BY HeadsAre DEF InvAt, Stop
  <2>2. PICK w \in 0 .. Len(script) :
          SentWhole = UpTo(w) /\ \A r \in 1 .. Len(script) : Whole(r) <=> r <= w
    BY SentWholeIs DEF InvAt
  <2>3. w = n
    BY <2>1, <2>2, ReturnedAreWhole
  <2> QED
    BY <2>1, <2>2, <2>3
<1> QED
  BY <1>1, SpecHasIInv, PTL

(* A step of the parser leaves the server alone, and returns one at most.  *)
LEMMA PollReturnsOne ==
  ASSUME PollForResponse
  PROVE  /\ UNCHANGED server
         /\ returned' = returned \/ \E x : returned' = Append(returned, x)
<1>1. CASE ParseHead \/ HeadError \/ TakeChunk \/ ChunkError \/ Read \/ ReadWouldBlock
  BY <1>1 DEF ParseHead, HeadError, TakeChunk, ChunkError, Read, ReadWouldBlock, Fail
<1>2. CASE TakeBody \/ TakeLastChunk \/ ReadEnd
  BY <1>2 DEF TakeBody, TakeLastChunk, ReadEnd, Fail, Return
<1> QED
  BY <1>1, <1>2 DEF PollForResponse

(* Every step is one of OrderedDelivery, or none. *)
LEMMA NextIsResponsesNext ==
  IInv /\ IInv' /\ [Next]_vars => [Responses!Next]_<<SentWhole, Heads>>
<1> SUFFICES ASSUME NEW n \in Nat, InvAt(n), NEW m \in Nat, InvAt(m)', [Next]_vars
             PROVE  [Responses!Next]_<<SentWhole, Heads>>
  BY DEF IInv
<1>1. Heads = UpTo(n) /\ Heads' = UpTo(m) /\ TypeInv /\ TypeInv' /\ Len(script) \in Nat
  <2>1. returned = Returned(n) /\ returned' = Returned(m)' /\ TypeInv /\ TypeInv'
    BY DEF InvAt
  <2>2. Len(script) \in Nat
    BY PlaceIs
  <2> QED
    BY <2>1, <2>2, HeadsAre, HeadsAreThen
<1>2. PICK w \in 0 .. Len(script) :
        SentWhole = UpTo(w) /\ \A r \in 1 .. Len(script) : Whole(r) <=> r <= w
  BY <1>1, SentWholeIs
<1>3. n <= w /\ w \in Nat
  BY <1>1, <1>2, ReturnedAreWhole
<1>4. CASE PollForResponse
  <2>1. script' = script /\ unsent' = unsent /\ ended' = ended
    BY <1>4, PollReturnsOne DEF server
  <2>2. SentWhole' = SentWhole
    BY <2>1 DEF SentWhole, Whole
  <2>3. \A r : Whole(r)' = Whole(r)
    BY <2>1 DEF Whole
  <2>4. m <= w
    <3>1. CASE m = 0
      BY <1>3, <3>1
    <3>2. CASE m # 0
      <4>1. m \in 0 .. Len(script) /\ m \in 1 .. m
        BY <2>1, <3>2 DEF InvAt
      <4>2. m \in 1 .. Len(script) /\ Whole(m)
        BY <1>1, <2>3, <3>2, <4>1 DEF InvAt
      <4> QED
        BY <1>2, <4>2
    <3> QED
      BY <3>1, <3>2
  <2>5. n <= m
    <3>1. Len(UpTo(n)) = n /\ Len(UpTo(m)) = m /\ UpTo(n) \in Seq(Nat)
      BY UpToIsPrefix
    <3>2. returned = Returned(n) /\ returned' = Returned(m)'
      BY DEF InvAt
    <3>3. Len(returned) = n /\ returned \in Seq(Range(returned)) /\ Len(returned') = m
      BY <3>2, HeadsAre, HeadsAreThen DEF Returned, Range
    <3> QED
      BY <1>4, <3>3, PollReturnsOne
  <2>6. CASE n = m
    BY <1>1, <2>2, <2>6
  <2>7. CASE n < m
    <3>1. IsStrictPrefix(UpTo(n), UpTo(m)) /\ IsPrefix(UpTo(m), UpTo(w))
      BY <1>3, <2>4, <2>7, UpToIsPrefix
    <3> QED
      BY <1>1, <1>2, <2>2, <3>1 DEF Responses!Next, Responses!Take, Responses!IsStrictPrefix,
                                   Responses!IsPrefix, IsStrictPrefix, IsPrefix
  <2> QED
    BY <2>5, <2>6, <2>7
<1>5. CASE ServerSends \/ ServerEnds
  <2>1. /\ script' = script /\ Heads' = Heads /\ (ended => ended')
        /\ unsent' = unsent \/ (unsent # <<>> /\ unsent' = Tail(unsent))
    BY <1>5 DEF ServerSends, ServerEnds, Heads
  <2>2. PICK v \in 0 .. Len(script) :
          SentWhole' = UpTo(v) /\ \A r \in 1 .. Len(script) : Whole(r)' <=> r <= v
    <3>1. (\E v \in 0 .. Len(script) :
             SentWhole = UpTo(v) /\ \A r \in 1 .. Len(script) : Whole(r) <=> r <= v)'
      BY <1>1, SentWholeIsThen
    <3> QED
      BY <2>1, <3>1
  <2>3. w <= v /\ v \in Nat
    <3>1. CASE w = 0
      BY <3>1
    <3>2. CASE w # 0
      <4>1. w \in 1 .. Len(script) /\ w <= w
        BY <1>3, <3>2
      <4>2. Whole(w)
        BY <1>2, <4>1
      <4>3. Whole(w)'
        BY <1>1, <2>1, <4>2, WholeLater DEF TypeInv
      <4> QED
        BY <2>2, <4>1, <4>3
    <3> QED
      BY <3>1, <3>2
  <2>4. CASE w = v
    BY <1>2, <2>1, <2>2, <2>4
  <2>5. CASE w < v
    <3>1. IsStrictPrefix(UpTo(w), UpTo(v)) /\ UpTo(v) \in Seq(Nat)
      BY <1>3, <2>3, <2>5, UpToIsPrefix
    <3> QED
      BY <1>2, <2>1, <2>2, <3>1 DEF Responses!Next, Responses!Send, Responses!IsStrictPrefix,
                                   Responses!IsPrefix, IsStrictPrefix, IsPrefix
  <2> QED
    BY <1>3, <2>3, <2>4, <2>5
<1>6. CASE UNCHANGED vars
  BY <1>6 DEF vars, server, SentWhole, Whole, Heads
<1> QED
  BY <1>4, <1>5, <1>6 DEF Next

(* At first nothing is whole. *)
LEMMA InitIsResponsesInit == Init => Responses!Init
<1> SUFFICES ASSUME Init PROVE Responses!Init
  OBVIOUS
<1>1. InvAt(0)
  BY InitHasIInv
<1>2. PICK w \in 0 .. Len(script) :
        SentWhole = UpTo(w) /\ \A r \in 1 .. Len(script) : Whole(r) <=> r <= w
  BY <1>1, SentWholeIs DEF InvAt
<1>3. NextIsNotWhole(0)
  <2>1. NeedsMore /\ stream = <<>> /\ ~ended
    BY DEF Init, NeedsMore
  <2> QED
    BY <1>1, <2>1, NotWholeYet DEF NextIsNotWhole
<1>4. w = 0
  BY <1>1, <1>2, <1>3, ReturnedAreWhole
<1>5. SentWhole = <<>>
  BY <1>2, <1>4 DEF UpTo
<1> QED
  BY <1>5 DEF Init, Responses!Init, Heads

(* The responses handed out, told by their heads, are those the server     *)
(* sent, once and in order, none before it was sent whole: HttpParser      *)
(* implements OrderedDelivery.  Bodies: see ParserReturnsOwnBodies.        *)
THEOREM ParserReturnsInOrder == Spec => ReturnsInOrder
<1>1. Init => Responses!Init
  BY InitIsResponsesInit
<1>2. IInv /\ IInv' /\ [Next]_vars => [Responses!Next]_<<SentWhole, Heads>>
  BY NextIsResponsesNext
<1> QED
  BY <1>1, <1>2, SpecHasIInv, PTL DEF Spec, ReturnsInOrder, Responses!Spec
=============================================================================
