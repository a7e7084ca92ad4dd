-------------------------- MODULE MatrixSyncProofs --------------------------
(***************************************************************************)
(* Theorems about MatrixSync for any number of events and of requests that *)
(* are cancelled: the token is never behind or ahead of what was handed    *)
(* over, and the loop implements OrderedDelivery.                          *)
(***************************************************************************)
EXTENDS MatrixSync, SequenceTheorems, TLAPS

Position(token) == IF token = None THEN 0 ELSE token

-----------------------------------------------------------------------------
(* The inductive invariant.                                                *)

Bounded == /\ events \in Nat /\ events <= MaxEvents
           /\ next_token = None \/ next_token \in 0 .. events

(* What has been handed over is all that happened before the token.        *)
DeliveredToToken == delivered = Count(Position(next_token))

RequestHasToken == current_sync = "waiting" => since = next_token

(* A good answer that waits goes on exactly where the token is, although   *)
(* more may have happened since it was given.                              *)
AnswerContinues ==
  current_sync = "answered" /\ response.code = 200 /\ response.valid =>
    /\ response.next_batch \in Nat
    /\ Position(next_token) <= response.next_batch /\ response.next_batch <= events
    /\ response.batch = SubSeq(Count(response.next_batch), Position(next_token) + 1,
                               response.next_batch)

IInv == Bounded /\ DeliveredToToken /\ RequestHasToken /\ AnswerContinues

-----------------------------------------------------------------------------
(* Lemmas on Count.                                                        *)

LEMMA CountIsSeq ==
  ASSUME NEW S, NEW n \in Nat, 1 .. n \subseteq S
  PROVE  Count(n) \in Seq(S) /\ Len(Count(n)) = n /\ DOMAIN Count(n) = 1 .. n
<1>1. Count(n) \in [1 .. n -> S]
  BY DEF Count
<1> QED
  BY <1>1, LenProperties, SMT DEF Seq

(* A count is continued by the rest of a longer one. *)
LEMMA CountContinues ==
  ASSUME NEW m \in Nat, NEW n \in Nat, m <= n
  PROVE  Count(m) \o SubSeq(Count(n), m + 1, n) = Count(n)
<1> DEFINE rest == SubSeq(Count(n), m + 1, n)
<1>1. /\ Count(m) \in Seq(Nat) /\ Len(Count(m)) = m
      /\ Count(n) \in Seq(Nat) /\ Len(Count(n)) = n
  BY CountIsSeq
<1>2. /\ rest \in Seq(Nat) /\ Len(rest) = n - m
      /\ \A i \in 1 .. n - m : rest[i] = Count(n)[m + 1 + i - 1]
  BY <1>1, SubSeqProperties
<1> HIDE DEF rest
<1>3. /\ Count(m) \o rest \in Seq(Nat) /\ Len(Count(m) \o rest) = n
      /\ \A i \in 1 .. n : (Count(m) \o rest)[i] = IF i <= m THEN Count(m)[i] ELSE rest[i - m]
  <2>1. /\ Count(m) \o rest \in Seq(Nat)
        /\ Len(Count(m) \o rest) = Len(Count(m)) + Len(rest)
        /\ \A i \in 1 .. Len(Count(m)) + Len(rest) :
             (Count(m) \o rest)[i] = IF i <= Len(Count(m)) THEN Count(m)[i]
                                                          ELSE rest[i - Len(Count(m))]
    BY <1>1, <1>2, ConcatProperties, Zenon
  <2>2. m + (n - m) = n
    OBVIOUS
  <2> QED
    BY <1>1, <1>2, <2>1, <2>2
<1>4. ASSUME NEW i \in 1 .. n
      PROVE  (Count(m) \o rest)[i] = Count(n)[i]
  <2>1. CASE i <= m
    BY <1>3, <2>1 DEF Count
  <2>2. CASE i > m
    <3>1. i - m \in 1 .. n - m /\ m + 1 + (i - m) - 1 = i
      BY <2>2
    <3> QED
      BY <1>2, <1>3, <2>2, <3>1
  <2>3. i <= m \/ i > m
    OBVIOUS
  <2> QED
    BY <2>1, <2>2, <2>3, Zenon
<1>5. Count(m) \o rest = Count(n)
  <2>1. /\ Len(Count(m) \o rest) = Len(Count(n))
        /\ \A i \in 1 .. Len(Count(m) \o rest) : (Count(m) \o rest)[i] = Count(n)[i]
    BY <1>1, <1>3, <1>4
  <2> QED
    BY <1>1, <1>3, <2>1, SeqEqual, Zenon
<1> QED
  BY <1>5 DEF rest

(* Counts are ordered as their ends are. *)
LEMMA CountIsPrefix ==
  ASSUME NEW m \in Nat, NEW n \in Nat, m <= n
  PROVE  /\ IsPrefix(Count(m), Count(n))
         /\ m < n => IsStrictPrefix(Count(m), Count(n))
<1>1. /\ Count(m) \in Seq(Nat) /\ Len(Count(m)) = m
      /\ Count(n) \in Seq(Nat) /\ Len(Count(n)) = n
  BY CountIsSeq
<1>2. /\ SubSeq(Count(m), 1, m) \in Seq(Nat) /\ Len(SubSeq(Count(m), 1, m)) = m
      /\ \A i \in 1 .. m : SubSeq(Count(m), 1, m)[i] = Count(m)[i]
      /\ SubSeq(Count(n), 1, m) \in Seq(Nat) /\ Len(SubSeq(Count(n), 1, m)) = m
      /\ \A i \in 1 .. m : SubSeq(Count(n), 1, m)[i] = Count(n)[i]
  BY <1>1, SubSeqProperties
<1>3. \A i \in 1 .. m : Count(m)[i] = Count(n)[i]
  BY DEF Count
<1>4. SubSeq(Count(m), 1, m) = SubSeq(Count(n), 1, m)
  BY <1>2, <1>3, SeqEqual
<1> QED
  BY <1>1, <1>4 DEF IsPrefix, IsStrictPrefix

-----------------------------------------------------------------------------
(* The invariant holds in the initial state and is kept.                   *)

LEMMA InitHasIInv == Init => IInv
<1> SUFFICES ASSUME Init PROVE IInv
  OBVIOUS
<1>1. Count(0) = <<>>
  BY DEF Count
<1> QED
  BY <1>1, SyncAssumption
  DEF Init, IInv, Bounded, DeliveredToToken, RequestHasToken, AnswerContinues, Position, None

(* A good answer moves the token and what is handed over alike. *)
LEMMA HandOverKeepsIInv ==
  ASSUME IInv, HandOver
  PROVE  IInv' /\ IsPrefix(delivered, delivered')
<1> DEFINE m == Position(next_token)
           n == response.next_batch
<1>1. /\ m \in Nat /\ n \in Nat /\ m <= n /\ n <= events /\ events \in Nat
      /\ response.batch = SubSeq(Count(n), m + 1, n)
      /\ delivered = Count(m)
      /\ delivered' = delivered \o response.batch
      /\ next_token' = n /\ events' = events /\ current_sync' = "none"
  BY DEF IInv, HandOver, Bounded, AnswerContinues, DeliveredToToken, Position
<1> HIDE DEF m, n
<1>2. delivered' = Count(n)
  BY <1>1, CountContinues
<1>3. n # None /\ Position(n) = n
  BY <1>1 DEF None, Position
<1>4. IInv'
  <2>1. Bounded'
    BY <1>1 DEF IInv, Bounded
  <2>2. DeliveredToToken'
    <3>1. Position(next_token') = n
      BY <1>1, <1>3
    <3> QED
      BY <1>2, <3>1 DEF DeliveredToToken
  <2>3. RequestHasToken' /\ AnswerContinues'
    BY <1>1 DEF RequestHasToken, AnswerContinues
  <2> QED
    BY <2>1, <2>2, <2>3 DEF IInv
<1> QED
  BY <1>1, <1>2, <1>4, CountIsPrefix

LEMMA AnsweredKeepsIInv ==
  ASSUME IInv, Answered
  PROVE  IInv'
<1>1. since = next_token /\ events \in Nat /\ Position(next_token) \in Nat
      /\ Position(next_token) <= events
  BY DEF IInv, Answered, RequestHasToken, Bounded, Position
<1>2. /\ response' = [code |-> 200, valid |-> TRUE,
                      batch |-> SubSeq(Count(events), Position(next_token) + 1, events),
                      next_batch |-> events]
      /\ UNCHANGED <<next_token, events, delivered>> /\ current_sync' = "answered"
  BY <1>1 DEF Answered, Position
<1>3. AnswerContinues'
  BY <1>1, <1>2 DEF AnswerContinues, Position
<1> QED
  BY <1>2, <1>3 DEF IInv, Bounded, DeliveredToToken, RequestHasToken

(* No other answer of the homeserver is taken for a good one. *)
LEMMA BadAnswerIsSeen ==
  ASSUME AnsweredBadly
  PROVE  ~(response.code' = 200 /\ response.valid')
<1>1. CASE response' = WithoutBatch(500, TRUE)
  BY <1>1 DEF WithoutBatch
<1>2. CASE response' = WithoutBatch(200, FALSE)
  BY <1>2 DEF WithoutBatch
<1> QED
  BY <1>1, <1>2 DEF AnsweredBadly

LEMMA StepKeepsIInv ==
  ASSUME IInv, [Next]_vars
  PROVE  IInv'
<1> USE DEF IInv, Bounded, DeliveredToToken, RequestHasToken, AnswerContinues
<1>1. CASE StartSync
  BY <1>1 DEF StartSync
<1>2. CASE NotReady
  BY <1>2 DEF NotReady
<1>3. CASE Repeat
  BY <1>3 DEF Repeat
<1>4. CASE BadResponse
  BY <1>4 DEF BadResponse
<1>5. CASE HandOver
  BY <1>5, HandOverKeepsIInv
<1>6. CASE Happens
  BY <1>6, SyncAssumption DEF Happens
<1>7. CASE Answered
  BY <1>7, AnsweredKeepsIInv
<1>8. CASE AnsweredBadly
  <2>1. ~(response.code' = 200 /\ response.valid')
    BY <1>8, BadAnswerIsSeen
  <2>2. UNCHANGED <<next_token, events, delivered>> /\ current_sync' = "answered"
    BY <1>8 DEF AnsweredBadly
  <2> QED
    BY <2>1, <2>2
<1>9. CASE ConnectionDies
  BY <1>9 DEF ConnectionDies
<1>10. CASE UNCHANGED vars
  BY <1>10 DEF vars
<1> QED
  BY <1>1, <1>2, <1>3, <1>4, <1>5, <1>6, <1>7, <1>8, <1>9, <1>10 DEF Next, PollSync

(* The sync loop keeps its invariant (matrix/sync.rs:60). *)
THEOREM Invariance == Spec => []IInv
BY InitHasIInv, StepKeepsIInv, PTL DEF Spec

-----------------------------------------------------------------------------
(* The theorems.                                                           *)

(* The token, and the one in a request under way, is where the batches     *)
(* handed over end.                                                        *)
TokenIsUpToDate ==
  LET position(token) == IF token = None THEN 0 ELSE token
  IN  /\ position(next_token) = Len(delivered)
      /\ current_sync = "waiting" => since = next_token

(* The token is where the batches handed over end, and a request asks from *)
(* it, however often requests are repeated (matrix/sync.rs:95, :119).      *)
THEOREM TokenStaysUpToDate == Spec => []TokenIsUpToDate
<1>1. ASSUME IInv PROVE TokenIsUpToDate
  <2>1. Position(next_token) \in Nat
    BY <1>1 DEF IInv, Bounded, Position
  <2>2. Len(delivered) = Position(next_token)
    BY <1>1, <2>1, CountIsSeq DEF IInv, DeliveredToToken
  <2> QED
    BY <1>1, <2>2 DEF IInv, RequestHasToken, TokenIsUpToDate, Position
<1> QED
  BY <1>1, Invariance, PTL

(* Every event is handed over once and in order: each step is one of       *)
(* OrderedDelivery or changes nothing it sees (matrix/sync.rs:60).         *)
THEOREM LoopImplementsDelivery == Spec => HandsOverInOrder
<1> USE DEF Batches!Init, Batches!Next, Batches!Send, Batches!Take
<1>1. ASSUME Init PROVE Batches!Init
  BY <1>1 DEF Init, Count
<1>2. ASSUME IInv, IInv', [Next]_vars
      PROVE  [Batches!Next]_<<Count(events), delivered>>
  <2>1. CASE Happens
    <3>1. /\ events \in Nat /\ events' = events + 1 /\ events' <= MaxEvents
          /\ UNCHANGED delivered
      BY <1>2, <2>1 DEF IInv, Bounded, Happens
    <3>2. Count(events') \in Seq(1 .. MaxEvents)
      BY <3>1, SyncAssumption, CountIsSeq
    <3>3. IsStrictPrefix(Count(events), Count(events'))
      BY <3>1, CountIsPrefix
    <3> QED
      BY <3>1, <3>2, <3>3 DEF Batches!IsStrictPrefix, Batches!IsPrefix, IsStrictPrefix, IsPrefix, Count
  <2>2. CASE HandOver
    <3>1. IsPrefix(delivered, delivered') /\ UNCHANGED events
      BY <1>2, <2>2, HandOverKeepsIInv DEF HandOver
    <3>2. IsPrefix(delivered', Count(events))
      <4>1. Position(next_token') \in Nat /\ events \in Nat /\ Position(next_token') <= events
        BY <1>2, <3>1 DEF IInv, Bounded, Position
      <4> QED
        BY <1>2, <4>1, CountIsPrefix DEF IInv, DeliveredToToken
    <3> QED
      BY <3>1, <3>2 DEF Batches!IsStrictPrefix, Batches!IsPrefix, IsPrefix, Count
  <2>3. CASE ~Happens /\ ~HandOver
    BY <1>2, <2>3
    DEF Next, PollSync, StartSync, NotReady, Repeat, BadResponse, Answered, AnsweredBadly,
        ConnectionDies, vars
  <2> QED
    BY <2>1, <2>2, <2>3
<1> QED
  BY <1>1, <1>2, Invariance, PTL DEF Spec, HandsOverInOrder, Batches!Spec
=============================================================================
