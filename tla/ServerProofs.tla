---------------------------- MODULE ServerProofs ----------------------------
(***************************************************************************)
(* For any number of clients and descriptors: the process fails for want of*)
(* descriptors only by what it serves and by the logins it has ever sent.  *)
(***************************************************************************)
EXTENDS Server, FiniteSetTheorems, TLAPS

Stages == {"away", "waiting", "ended"} \cup Serving

ServingNow == {c \in Clients : stage[c] \in Serving}

(* The process holds the sockets of those it serves, and connections of    *)
(* its dialers only; it was out of descriptors when it failed so.          *)
IInv ==
  /\ stage \in [Clients -> Stages]
  /\ backlog \in Seq(Clients)
  /\ open = ServingNow
  /\ dialers \subseteq Clients \X {"account", "sync"}
  /\ connected \subseteq dialers
  /\ process = "full" => Full

LEMMA InitIInv == Init => IInv
BY DEF Init, IInv, Stages, Serving, ServingNow

(* A step of a client's task that goes on. *)
LEMMA TaskGoesOn ==
  ASSUME IInv, NEW c \in Clients, NEW s \in Serving, stage[c] \in Serving,
         stage' = [stage EXCEPT ![c] = s], open' = open
  PROVE  stage' \in [Clients -> Stages] /\ open' = ServingNow'
BY DEF IInv, Stages, ServingNow

LEMMA StepKeepsIInv == IInv /\ [Next]_vars => IInv'
<1> SUFFICES ASSUME IInv, [Next]_vars PROVE IInv'
  OBVIOUS
<1> USE DEF IInv
<1>1. CASE UNCHANGED vars
  BY <1>1 DEF vars, ServingNow, Full
<1>2. CASE Accept
  <2>1. Head(backlog) \in Clients /\ backlog' \in Seq(Clients)
    BY <1>2 DEF Accept
  <2> DEFINE s == IF Tls THEN "handshake" ELSE "registering"
  <2>2. s \in Serving
    BY DEF Serving
  <2>3. stage' = [stage EXCEPT ![Head(backlog)] = s] /\ open' = open \cup {Head(backlog)}
    BY <1>2 DEF Accept
  <2> HIDE DEF s
  <2>4. stage' \in [Clients -> Stages] /\ open' = ServingNow'
    BY <2>1, <2>2, <2>3 DEF Stages, ServingNow
  <2> QED
    BY <1>2, <2>1, <2>4 DEF Accept, Up
<1>3. CASE AcceptFails
  BY <1>3 DEF AcceptFails, ServingNow, Full
<1>4. ASSUME NEW c \in Clients, Connect(c) PROVE IInv'
  BY <1>4 DEF Connect, Stages, Serving, ServingNow, Up
<1>5. ASSUME NEW c \in Clients, Handshake(c) PROVE IInv'
  BY <1>5, TaskGoesOn DEF Handshake, Serving, Up
<1>6. ASSUME NEW c \in Clients, Register(c) PROVE IInv'
  <2>1. /\ stage[c] \in Serving /\ "login" \in Serving
        /\ stage' = [stage EXCEPT ![c] = "login"] /\ open' = open
    BY <1>6 DEF Register, Serving
  <2>2. stage' \in [Clients -> Stages] /\ open' = ServingNow'
    BY <2>1, TaskGoesOn
  <2>3. dialers' = dialers \cup {<<c, "account">>} /\ connected' = connected
    BY <1>6 DEF Register
  <2>4. dialers' \subseteq Clients \X {"account", "sync"} /\ connected' \subseteq dialers'
    BY <2>3
  <2> QED
    BY <1>6, <2>2, <2>4 DEF Register, Up
<1>7. ASSUME NEW c \in Clients, LoggedIn(c) PROVE IInv'
  <2>1. /\ stage[c] \in Serving /\ "session" \in Serving
        /\ stage' = [stage EXCEPT ![c] = "session"] /\ open' = open
    BY <1>7 DEF LoggedIn, Serving
  <2>2. stage' \in [Clients -> Stages] /\ open' = ServingNow'
    BY <2>1, TaskGoesOn
  <2>3. dialers' = dialers \cup {<<c, "sync">>} /\ connected' = connected
    BY <1>7 DEF LoggedIn
  <2>4. dialers' \subseteq Clients \X {"account", "sync"} /\ connected' \subseteq dialers'
    BY <2>3
  <2> QED
    BY <1>7, <2>2, <2>4 DEF LoggedIn, Up
<1>8. ASSUME NEW c \in Clients, Say(c) \/ Settle(c) PROVE IInv'
  BY <1>8 DEF Say, Settle, ServingNow, Up
<1>9. ASSUME NEW c \in Clients, Finish(c) PROVE IInv'
  BY <1>9 DEF Finish, EndTask, Stages, Serving, ServingNow, Up
<1>10. ASSUME NEW d \in dialers, DialUp(d) PROVE IInv'
  BY <1>10 DEF DialUp, ServingNow, Up
<1>11. ASSUME NEW d \in dialers, ConnectionDies(d) PROVE IInv'
  <2>1. d[1] \in Clients
    OBVIOUS
  <2>2. \/ stage' = stage
        \/ stage[d[1]] = "login" /\ stage' = [stage EXCEPT ![d[1]] = "failing"]
    BY <1>11, <2>1 DEF ConnectionDies
  <2>3. stage' \in [Clients -> Stages] /\ open' = ServingNow'
    BY <1>11, <2>1, <2>2, TaskGoesOn DEF ConnectionDies, Serving, ServingNow
  <2> QED
    BY <1>11, <2>3 DEF ConnectionDies, Up
<1> QED
  BY <1>1, <1>2, <1>3, <1>4, <1>5, <1>6, <1>7, <1>8, <1>9, <1>10, <1>11 DEF Next

(* A process that is out of descriptors holds no more than those it serves *)
(* and its dialers account for.                                            *)
LEMMA FullMeansLogins == IInv => FullOnlyByLogins
<1> SUFFICES ASSUME IInv, process = "full"
             PROVE  1 + Cardinality(ServingNow) + Cardinality(dialers) >= MaxDescriptors
  BY DEF FullOnlyByLogins, ServingNow
<1>1. IsFiniteSet(Clients \X {"account", "sync"})
  <2>1. IsFiniteSet({"account"} \cup {"sync"})
    BY FS_Singleton, FS_Union
  <2>2. {"account"} \cup {"sync"} = {"account", "sync"}
    OBVIOUS
  <2> QED
    BY <2>1, <2>2, ServerAssumption, FS_Product
<1>2. IsFiniteSet(dialers)
  BY <1>1, FS_Subset DEF IInv
<1>3. IsFiniteSet(connected) /\ Cardinality(connected) <= Cardinality(dialers)
  BY <1>2, FS_Subset DEF IInv
<1>4. IsFiniteSet(ServingNow)
  BY ServerAssumption, FS_Subset DEF ServingNow
<1>5. /\ Cardinality(connected) \in Nat /\ Cardinality(dialers) \in Nat
      /\ Cardinality(ServingNow) \in Nat
  BY <1>2, <1>3, <1>4, FS_CardinalityType
<1>6. 1 + Cardinality(ServingNow) + Cardinality(connected) >= MaxDescriptors
  BY DEF IInv, Full
<1> QED
  BY <1>3, <1>5, <1>6, ServerAssumption

(* The process fails for want of descriptors only by the clients it serves *)
(* and by the logins there have ever been.                                 *)
THEOREM DescriptorsAreAccountedFor == Spec => []FullOnlyByLogins
<1>1. Spec => []IInv
  BY InitIInv, StepKeepsIInv, PTL DEF Spec
<1> QED
  BY <1>1, FullMeansLogins, PTL
=============================================================================
