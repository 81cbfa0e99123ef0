----------------------------- MODULE RkdgHpx_proofs -----------------------------
(***************************************************************************)
(* Proofs about RkdgHpx, for every mesh partition, number of stages and    *)
(* steps, width of the generation numbers and pattern of exceptions; and   *)
(* about NeighbourSync, which it implements.                               *)
(***************************************************************************)
EXTENDS RkdgHpx, TLAPS, FiniteSetTheorems

-----------------------------------------------------------------------------
(* The inductive invariant.  send_buffer[u][c] is the stamp of the last    *)
(* message u sent for c, and of the last one it asked for, as both happen  *)
(* in one continuation.                                                    *)
Locations == {"preprocessor", "post_receive", "launch", "stage", "receive", "wet_dry",
              "limiter", "sl_receive", "scrutinize", "output", "done", "exceptional"}

TypeOK ==
  /\ at \in [Unit -> Locations]
  /\ timestamp \in [Unit -> Nat]
  /\ threw \in [Unit -> BOOLEAN]
  /\ send_buffer \in [Unit -> [CommTypes -> Nat \cup {-1}]]
  /\ DOMAIN receive_buffer = Slots
  /\ receive_buffer = [s \in Slots |-> receive_buffer[s]]
  /\ channel = [rb \in RankBoundaries |-> channel[rb]]
  /\ pending \subseteq [slot : Slots, offset : Nat]

(* What u has sent at each place of its chain.  A submesh that threw in    *)
(* its preprocessor has not sent its coordinates.                          *)
Chain(u) ==
  /\ \/ send_buffer[u]["baryctr_coord"] = -1 /\ (at[u] = "preprocessor" \/ threw[u])
     \/ send_buffer[u]["baryctr_coord"] = 0 /\ at[u] # "preprocessor"
  /\ send_buffer[u]["bound_state"] = IF at[u] = "receive" THEN timestamp[u] ELSE timestamp[u] - 1
  /\ send_buffer[u]["baryctr_state"] =
       IF ~SlopeLimiting THEN -1
       ELSE SinceLimited(IF at[u] \in {"wet_dry", "limiter"} THEN timestamp[u] - 1 ELSE timestamp[u])
  /\ at[u] \in {"preprocessor", "post_receive"} => ~threw[u]
  /\ at[u] \in {"preprocessor", "post_receive", "launch"} => timestamp[u] = 0
  /\ at[u] \in {"wet_dry", "limiter", "sl_receive", "scrutinize", "output", "done"} => timestamp[u] > 0
  /\ at[u] \in {"limiter", "sl_receive"} => SlopeLimiting

(* The continuation in which u waits for messages of type c.               *)
Waiting(u, c) ==
  \/ at[u] = "post_receive" /\ c = "baryctr_coord"
  \/ at[u] = "receive" /\ c = "bound_state"
  \/ at[u] = "sl_receive" /\ c = "baryctr_state"

(* No get of this slot is outstanding.                                     *)
Quiet(s) == \A p \in pending : p.slot # s

(* The stamp before timestamp in the messages of type c.                   *)
Before(c, ts) == IF c = "baryctr_state" THEN SinceLimited(ts - 1) ELSE ts - 1

(* A get is outstanding only where it is waited for.                       *)
GetsAwaited ==
  \A p \in pending :
    /\ Waiting(p.slot[1], p.slot[3])
    /\ p.offset = Offset(p.slot[3], timestamp[p.slot[1]])
    /\ Before(p.slot[3], timestamp[p.slot[1]]) <= send_buffer[p.slot[2]][p.slot[3]]

(* What was asked for and has come is what the neighbour sent under that   *)
(* stamp.                                                                  *)
Arrived ==
  \A s \in Slots : Quiet(s) =>
    /\ receive_buffer[s] = Written(s[2], s[1], s[3], send_buffer[s[1]][s[3]])
    /\ send_buffer[s[1]][s[3]] <= send_buffer[s[2]][s[3]]

(* A channel holds what was sent and not yet asked for, or asked for and   *)
(* not yet taken.                                                          *)
Untaken(u, v, c, ts) ==
  /\ ts <= send_buffer[u][c]
  /\ ts > send_buffer[v][c] \/ (ts = send_buffer[v][c] /\ ~Quiet(<<v, u, c>>))
Sent(u, v, c, ts) == [offset |-> Offset(c, ts), data |-> Written(u, v, c, ts)]
Channels ==
  \A u \in Unit : \A v \in Neigh[u] : \A m \in channel[<<u, v>>] :
    \E c \in CommTypes, ts \in Nat :
      m = Sent(u, v, c, ts) /\ Untaken(u, v, c, ts) /\ (c = "baryctr_state" => ts > 0)

CommInv == GetsAwaited /\ Arrived /\ Channels /\ NoChannelError

IInv ==
  /\ TypeOK
  /\ \A u \in Unit : Chain(u)
  /\ CommInv
  /\ FreshData

-----------------------------------------------------------------------------
(* Generation numbers.                                                     *)

(* Two numbers with the same remainder are equal or N apart.               *)
LEMMA SameRemainder ==
  ASSUME NEW N \in Nat \ {0}, NEW i \in Nat, NEW j \in Nat, i < j, i % N = j % N
  PROVE  j - i >= N
<1> DEFINE qi == i \div N
           qj == j \div N
           r == i % N
<1>1. qi \in Nat /\ qj \in Nat /\ r \in 0 .. N - 1
  OBVIOUS
<1>2. i = N * qi + r /\ j = N * qj + r
  OBVIOUS
<1> HIDE DEF qi, qj, r
<1>3. j - i = N * (qj - qi)
  BY <1>1, <1>2
<1>4. qj - qi >= 1
  <2>1. SUFFICES ASSUME qj - qi <= 0 PROVE FALSE
    BY <1>1
  <2>2. N * (qj - qi) <= 0
    BY <1>1, <2>1
  <2> QED
    BY <1>3, <2>2
<1>5. N * (qj - qi) >= N
  BY <1>1, <1>4
<1> QED
  BY <1>3, <1>5

LEMMA ThreeTypes == Cardinality(CommTypes) = 3
<1> DEFINE two == {"baryctr_coord", "bound_state"}
<1>1. IsFiniteSet({"baryctr_coord"}) /\ Cardinality({"baryctr_coord"}) = 1
  BY FS_Singleton
<1>2. IsFiniteSet(two) /\ Cardinality(two) = 2
  <2>1. two = {"baryctr_coord"} \cup {"bound_state"} /\ "bound_state" \notin {"baryctr_coord"}
    OBVIOUS
  <2> QED
    BY <1>1, <2>1, FS_AddElement
<1>3. CommTypes = two \cup {"baryctr_state"} /\ "baryctr_state" \notin two
  BY RkdgHpxAssumption
<1> QED
  BY <1>2, <1>3, FS_AddElement

(* Equal generation numbers that are less than five apart are of the same  *)
(* type and stamp.                                                         *)
LEMMA OffsetsApart ==
  ASSUME NEW c \in CommTypes, NEW d \in CommTypes, NEW s \in Nat, NEW t \in Nat,
         Offset(c, s) = Offset(d, t),
         3 * s + CommIndex[c] <= 3 * t + CommIndex[d] + 4,
         3 * t + CommIndex[d] <= 3 * s + CommIndex[c] + 4
  PROVE  c = d /\ s = t
<1> DEFINE i == 3 * s + CommIndex[c]
           j == 3 * t + CommIndex[d]
<1>1. UintRange \in Nat \ {0} /\ UintRange > 4
  BY HpxCommunicatorAssumption, RkdgHpxAssumption
<1>2. CommIndex[c] \in 0 .. 2 /\ CommIndex[d] \in 0 .. 2 /\ (CommIndex[c] = CommIndex[d] => c = d)
  BY RkdgHpxAssumption
<1>3. i \in Nat /\ j \in Nat
  BY <1>2
<1>4. i % UintRange = j % UintRange
  BY ThreeTypes DEF Offset
<1>5. i <= j + 4 /\ j <= i + 4
  OBVIOUS
<1>6. i = j
  <2> HIDE DEF i, j
  <2>1. ASSUME i < j PROVE FALSE
    <3>1. j - i >= UintRange
      BY <2>1, <1>1, <1>3, <1>4, SameRemainder
    <3> QED
      BY <3>1, <1>1, <1>3, <1>5
  <2>2. ASSUME j < i PROVE FALSE
    <3>1. i - j >= UintRange
      BY <2>2, <1>1, <1>3, <1>4, SameRemainder
    <3> QED
      BY <3>1, <1>1, <1>3, <1>5
  <2> QED
    BY <1>3, <2>1, <2>2
<1> QED
  BY <1>2, <1>6

-----------------------------------------------------------------------------
(* The chain of a submesh.                                                 *)

LEMMA InitIInv == Init => IInv
<1> SUFFICES ASSUME Init PROVE IInv
  OBVIOUS
<1> USE NeighAssumption, RkdgHpxAssumption, HpxCommunicatorAssumption DEF Init, CommInit
<1>1. TypeOK
  BY DEF TypeOK, Locations
<1>2. ASSUME NEW u \in Unit PROVE Chain(u)
  BY DEF Chain, SinceLimited
<1>3. CommInv
  <2>1. GetsAwaited /\ NoChannelError
    BY DEF GetsAwaited, NoChannelError
  <2>2. Arrived
    BY DEF Arrived, Slots
  <2>3. Channels
    BY DEF Channels, RankBoundaries
  <2> QED
    BY <2>1, <2>2, <2>3 DEF CommInv
<1>4. FreshData
  BY DEF FreshData, SinceLimited, LimiterPending, RankBoundaries
<1> QED
  BY <1>1, <1>2, <1>3, <1>4 DEF IInv

LEMMA OffsetType ==
  ASSUME NEW c \in CommTypes, NEW ts \in Nat
  PROVE  Offset(c, ts) \in Nat
BY ThreeTypes, HpxCommunicatorAssumption DEF Offset

(* What an exchange of one type does to the types of the state.            *)
LEMMA ExchangeType ==
  ASSUME TypeOK, NEW u \in Unit, NEW c \in CommTypes,
         SendAll(u, c, timestamp[u], timestamp[u]), ReceiveAll(u, c, timestamp[u])
  PROVE  /\ send_buffer' \in [Unit -> [CommTypes -> Nat \cup {-1}]]
         /\ channel' = [rb \in RankBoundaries |-> channel'[rb]]
         /\ pending' \subseteq [slot : Slots, offset : Nat]
<1>1. Offset(c, timestamp[u]) \in Nat
  BY OffsetType DEF TypeOK
<1>2. send_buffer' \in [Unit -> [CommTypes -> Nat \cup {-1}]]
  BY DEF TypeOK, SendAll
<1>3. channel' = [rb \in RankBoundaries |-> channel'[rb]]
  BY DEF SendAll
<1>4. pending' \subseteq [slot : Slots, offset : Nat]
  BY <1>1 DEF TypeOK, ReceiveAll
<1> QED
  BY <1>2, <1>3, <1>4

(* A continuation leaves the communicator alone or sends and asks for one  *)
(* message per neighbour, under one stamp and type.                        *)
Exchange(u, c) ==
  /\ SendAll(u, c, timestamp[u], timestamp[u])
  /\ ReceiveAll(u, c, timestamp[u])
  /\ UNCHANGED receive_buffer

LEMMA StepComm ==
  ASSUME NEW u \in Unit, UnitStep(u)
  PROVE  UNCHANGED commVars \/ \E c \in CommTypes : Exchange(u, c)
<1>1. CASE Preprocessor(u) \/ Stage(u) \/ Limiter(u)
  <2> SUFFICES ASSUME ~UNCHANGED commVars
               PROVE  \E c \in {"baryctr_coord", "bound_state", "baryctr_state"} : Exchange(u, c)
    BY RkdgHpxAssumption
  <2>1. CASE Preprocessor(u)
    BY <2>1 DEF Preprocessor, Exchange
  <2>2. CASE Stage(u)
    BY <2>2 DEF Stage, Exchange
  <2>3. CASE Limiter(u)
    BY <2>3 DEF Limiter, Exchange
  <2> QED
    BY <1>1, <2>1, <2>2, <2>3
<1>2. CASE ~(Preprocessor(u) \/ Stage(u) \/ Limiter(u))
  BY <1>2 DEF UnitStep, PostReceive, Launch, Receive, WetDry, SlReceive, Scrutinize, Output, Local
<1> QED
  BY <1>1, <1>2

LEMMA TypeStep ==
  ASSUME TypeOK, NEW u \in Unit, UnitStep(u)
  PROVE  TypeOK'
<1>1. at' \in [Unit -> Locations] /\ timestamp' \in [Unit -> Nat] /\ threw' \in [Unit -> BOOLEAN]
  <2> USE DEF TypeOK, Goto, Throw, Locations
  <2>1. CASE Preprocessor(u)
    BY <2>1 DEF Preprocessor
  <2>2. CASE PostReceive(u)
    BY <2>2 DEF PostReceive
  <2>3. CASE Launch(u) \/ WetDry(u) \/ Output(u)
    BY <2>3 DEF Launch, WetDry, Output, Local, AfterWetDry
  <2>4. CASE Stage(u)
    BY <2>4 DEF Stage
  <2>5. CASE Receive(u)
    BY <2>5 DEF Receive, AfterReceive, AfterWetDry
  <2>6. CASE Limiter(u)
    BY <2>6 DEF Limiter
  <2>7. CASE SlReceive(u)
    BY <2>7 DEF SlReceive
  <2>8. CASE Scrutinize(u)
    BY <2>8 DEF Scrutinize, Local, AfterStage
  <2> QED
    BY <2>1, <2>2, <2>3, <2>4, <2>5, <2>6, <2>7, <2>8 DEF UnitStep
<1>2. CASE UNCHANGED commVars
  BY <1>1, <1>2 DEF TypeOK, commVars
<1>3. ASSUME NEW c \in CommTypes, Exchange(u, c)
      PROVE  TypeOK'
  BY <1>1, <1>3, ExchangeType DEF TypeOK, Exchange
<1> QED
  BY <1>2, <1>3, StepComm

LEMMA ChainStep ==
  ASSUME TypeOK, NEW u \in Unit, UnitStep(u), NEW w \in Unit, Chain(w)
  PROVE  Chain(w)'
<1> USE RkdgHpxAssumption DEF TypeOK, Goto, Throw, Chain, Locations
<1>1. CASE Preprocessor(u)
  BY <1>1 DEF Preprocessor, commVars, SendAll, SinceLimited
<1>2. CASE PostReceive(u)
  BY <1>2 DEF PostReceive, commVars
<1>3. CASE Launch(u) \/ WetDry(u) \/ Output(u)
  BY <1>3 DEF Launch, WetDry, Output, Local, commVars, AfterWetDry
<1>4. CASE Stage(u)
  BY <1>4 DEF Stage, commVars, SendAll
<1>5. CASE Receive(u)
  BY <1>5 DEF Receive, commVars, AfterReceive, AfterWetDry
<1>6. CASE Limiter(u)
  BY <1>6 DEF Limiter, SendAll, SinceLimited
<1>7. CASE SlReceive(u)
  BY <1>7 DEF SlReceive, commVars
<1>8. CASE Scrutinize(u)
  BY <1>8 DEF Scrutinize, Local, commVars, AfterStage
<1> QED
  BY <1>1, <1>2, <1>3, <1>4, <1>5, <1>6, <1>7, <1>8 DEF UnitStep

-----------------------------------------------------------------------------
(* The messages.                                                           *)

(* Where u waits, it has sent its own message of the stamp it waits for.   *)
LEMMA WaitingSent ==
  ASSUME TypeOK, NEW u \in Unit, Chain(u), NEW c \in CommTypes, Waiting(u, c)
  PROVE  send_buffer[u][c] = timestamp[u]
BY RkdgHpxAssumption DEF TypeOK, Chain, Waiting, SinceLimited

(* Outside its waits, and when all it waits for has come, a submesh has no *)
(* get outstanding.                                                        *)
LEMMA NoGets ==
  ASSUME TypeOK, GetsAwaited, NEW u \in Unit, NEW c \in CommTypes,
         at[u] \notin {"post_receive", "receive", "sl_receive"} \/ (Waiting(u, c) /\ Received(u, c)),
         NEW p \in pending
  PROVE  p.slot[1] # u
<1> SUFFICES ASSUME p.slot[1] = u PROVE FALSE
  OBVIOUS
<1>1. Waiting(u, p.slot[3])
  BY DEF GetsAwaited
<1>2. Waiting(u, c) /\ Received(u, c)
  BY <1>1 DEF Waiting
<1>3. p.slot[3] = c
  BY <1>1, <1>2 DEF Waiting
<1> QED
  BY <1>2, <1>3 DEF Received

(* A continuation that exchanges nothing leaves the messages in order.     *)
LEMMA LocalComm ==
  ASSUME TypeOK, CommInv, UNCHANGED commVars, NEW u \in Unit,
         \A p \in pending : p.slot[1] # u,
         \A w \in Unit \ {u} : at'[w] = at[w] /\ timestamp'[w] = timestamp[w]
  PROVE  CommInv'
<1>1. GetsAwaited'
  <2> SUFFICES ASSUME NEW p \in pending
               PROVE  /\ Waiting(p.slot[1], p.slot[3])'
                      /\ p.offset = Offset(p.slot[3], timestamp'[p.slot[1]])
                      /\ Before(p.slot[3], timestamp'[p.slot[1]]) <= send_buffer[p.slot[2]][p.slot[3]]
    BY DEF GetsAwaited, commVars
  <2>1. p.slot[1] \in Unit \ {u}
    BY DEF TypeOK, Slots
  <2> QED
    BY <2>1 DEF CommInv, GetsAwaited, Waiting
<1>2. Arrived' /\ NoChannelError'
  BY DEF CommInv, Arrived, Quiet, NoChannelError, commVars
<1>3. Channels'
  BY DEF CommInv, Channels, Untaken, Quiet, commVars
<1> QED
  BY <1>1, <1>2, <1>3 DEF CommInv

(* A submesh with no get outstanding is not ahead of a neighbour in any    *)
(* type of message.                                                        *)
LEMMA NotAhead ==
  ASSUME CommInv, NEW u \in Unit, \A p \in pending : p.slot[1] # u,
         NEW v \in Neigh[u], NEW c \in CommTypes
  PROVE  /\ Quiet(<<u, v, c>>)
         /\ send_buffer[u][c] <= send_buffer[v][c]
<1>1. v \in Unit
  BY NeighAssumption
<1>2. <<u, v, c>> \in Slots
  BY <1>1 DEF Slots
<1>3. Quiet(<<u, v, c>>)
  BY DEF Quiet
<1> QED
  BY <1>2, <1>3 DEF CommInv, Arrived

(* What it has sent and the neighbour has not taken is the one message the *)
(* neighbour waits for.                                                    *)
LEMMA OnlyAwaited ==
  ASSUME TypeOK, CommInv, NEW u \in Unit, \A p \in pending : p.slot[1] # u,
         NEW v \in Neigh[u], Chain(v), NEW m \in channel[<<u, v>>]
  PROVE  \E c \in CommTypes :
           /\ m = Sent(u, v, c, timestamp[v])
           /\ Waiting(v, c)
           /\ timestamp[v] = send_buffer[u][c]
           /\ ~Quiet(<<v, u, c>>)
           /\ c = "baryctr_state" => timestamp[v] > 0
<1>1. v \in Unit
  BY NeighAssumption
<1>2. PICK c \in CommTypes, ts \in Nat :
        m = Sent(u, v, c, ts) /\ Untaken(u, v, c, ts) /\ (c = "baryctr_state" => ts > 0)
  BY <1>1 DEF CommInv, Channels
<1>3. send_buffer[u][c] <= send_buffer[v][c]
  BY NotAhead
<1>4. send_buffer[u][c] \in Int /\ send_buffer[v][c] \in Int
  BY <1>1 DEF TypeOK
<1>5. ts = send_buffer[u][c] /\ ts = send_buffer[v][c] /\ ~Quiet(<<v, u, c>>)
  BY <1>2, <1>3, <1>4 DEF Untaken
<1>6. Waiting(v, c)
  BY <1>5 DEF Quiet, CommInv, GetsAwaited
<1>7. ts = timestamp[v]
  BY <1>1, <1>5, <1>6, WaitingSent
<1> QED
  BY <1>2, <1>5, <1>6, <1>7

(* Where the messages of a type are sent.                                  *)
Sending(u, c) ==
  \/ at[u] = "preprocessor" /\ c = "baryctr_coord"
  \/ at[u] = "stage" /\ c = "bound_state"
  \/ at[u] = "limiter" /\ c = "baryctr_state"

(* No message in a channel has the number of the next one.                 *)
LEMMA NoClash ==
  ASSUME TypeOK, CommInv, NEW u \in Unit, Chain(u), \A p \in pending : p.slot[1] # u,
         NEW c \in CommTypes, Sending(u, c),
         NEW v \in Neigh[u], Chain(v), NEW m \in channel[<<u, v>>]
  PROVE  m.offset # Offset(c, timestamp[u])
<1> DEFINE S == timestamp[u]
           T == timestamp[v]
<1>1. PICK d \in CommTypes :
         /\ m = Sent(u, v, d, T)
         /\ Waiting(v, d)
         /\ T = send_buffer[u][d]
         /\ d = "baryctr_state" => T > 0
  BY OnlyAwaited
<1>2. \A e \in CommTypes : send_buffer[u][e] <= send_buffer[v][e]
  BY NotAhead
<1>3. S \in Nat /\ T \in Nat
  BY NeighAssumption DEF TypeOK
<1>4. /\ ~(c = d /\ S = T)
      /\ 3 * S + CommIndex[c] <= 3 * T + CommIndex[d] + 4
      /\ 3 * T + CommIndex[d] <= 3 * S + CommIndex[c] + 4
  <2> USE RkdgHpxAssumption, <1>1, <1>2, <1>3 DEF Chain, SinceLimited, Waiting
  <2>1. CASE at[u] = "preprocessor" /\ c = "baryctr_coord"
    BY <2>1
  <2>2. CASE at[u] = "stage" /\ c = "bound_state"
    <3>1. send_buffer[u]["bound_state"] = S - 1
      BY <2>2
    <3>2. CASE d = "baryctr_coord"
      <4>1. T = 0 /\ send_buffer[v]["bound_state"] = -1
        BY <3>2
      <4>2. S = 0
        BY <3>1, <4>1
      <4> QED
        BY <2>2, <3>2, <4>1, <4>2
    <3>3. CASE d = "bound_state"
      <4>1. T = S - 1
        BY <3>1, <3>3
      <4> QED
        BY <2>2, <3>3, <4>1
    <3>4. CASE d = "baryctr_state"
      <4>1. T = S
        BY <2>2, <3>4
      <4> QED
        BY <2>2, <3>4, <4>1
    <3> QED
      BY <3>2, <3>3, <3>4
  <2>3. CASE at[u] = "limiter" /\ c = "baryctr_state"
    BY <2>3
  <2> QED
    BY <2>1, <2>2, <2>3 DEF Sending
<1>5. Offset(c, S) # Offset(d, T)
  BY <1>3, <1>4, OffsetsApart
<1> QED
  BY <1>1, <1>5 DEF Sent

(* A continuation that exchanges messages leaves them in order.            *)
LEMMA ExchangeComm ==
  ASSUME TypeOK, TypeOK', CommInv, \A w \in Unit : Chain(w), NEW u \in Unit,
         \A p \in pending : p.slot[1] # u,
         NEW c \in CommTypes, Exchange(u, c), Sending(u, c), Waiting(u, c)', UNCHANGED timestamp,
         \A w \in Unit \ {u} : at'[w] = at[w]
  PROVE  CommInv'
<1> DEFINE S == timestamp[u]
<1>1. S \in Nat /\ send_buffer[u][c] = Before(c, S) /\ Before(c, S) < S
  BY RkdgHpxAssumption DEF TypeOK, Chain, Sending, Before, SinceLimited
<1>0. \A w \in Unit, d \in CommTypes : send_buffer[w][d] \in Int /\ send_buffer'[w][d] \in Int
  BY DEF TypeOK
<1>2. /\ send_buffer'[u][c] = S
      /\ \A w \in Unit, d \in CommTypes :
           /\ w # u \/ d # c => send_buffer'[w][d] = send_buffer[w][d]
           /\ send_buffer[w][d] <= send_buffer'[w][d]
  BY <1>1 DEF TypeOK, Exchange, SendAll
<1>3. \A s \in Slots : Quiet(s)' => Quiet(s) /\ ~(s[1] = u /\ s[3] = c)
  <2> SUFFICES ASSUME NEW s \in Slots, Quiet(s)' PROVE Quiet(s) /\ ~(s[1] = u /\ s[3] = c)
    OBVIOUS
  <2>1. Quiet(s)
    BY DEF Exchange, ReceiveAll, Quiet
  <2>2. ASSUME s[1] = u /\ s[3] = c PROVE FALSE
    <3>1. [slot |-> s, offset |-> Offset(c, S)] \in pending'
      BY <2>2 DEF Exchange, ReceiveAll
    <3> QED
      BY <3>1 DEF Quiet
  <2> QED
    BY <2>1, <2>2
<1>4. GetsAwaited'
  <2> SUFFICES ASSUME NEW p \in pending'
               PROVE  /\ Waiting(p.slot[1], p.slot[3])'
                      /\ p.offset = Offset(p.slot[3], timestamp[p.slot[1]])
                      /\ Before(p.slot[3], timestamp[p.slot[1]]) <= send_buffer'[p.slot[2]][p.slot[3]]
    BY DEF GetsAwaited
  <2>1. CASE p \in pending
    <3>1. p.slot[1] \in Unit \ {u} /\ p.slot[2] \in Unit /\ p.slot[3] \in CommTypes
      BY <2>1 DEF TypeOK, Slots
    <3>2. Before(p.slot[3], timestamp[p.slot[1]]) <= send_buffer'[p.slot[2]][p.slot[3]]
      <4>1. Before(p.slot[3], timestamp[p.slot[1]]) <= send_buffer[p.slot[2]][p.slot[3]]
        BY <2>1 DEF CommInv, GetsAwaited
      <4>2. Before(p.slot[3], timestamp[p.slot[1]]) \in Int
        BY <3>1 DEF TypeOK, Before, SinceLimited
      <4> QED
        BY <1>0, <1>2, <3>1, <4>1, <4>2
    <3> QED
      BY <2>1, <3>1, <3>2 DEF CommInv, GetsAwaited, Waiting
  <2>2. CASE p \notin pending
    <3>1. PICK v \in Neigh[u] : p.slot = <<u, v, c>> /\ p.offset = Offset(c, S)
      <4>1. PICK s \in Slots : s[1] = u /\ s[3] = c /\ p = [slot |-> s, offset |-> Offset(c, S)]
        BY <2>2 DEF Exchange, ReceiveAll
      <4> QED
        BY <4>1 DEF Slots
    <3>2. send_buffer[u][c] <= send_buffer[v][c]
      BY NotAhead
    <3>3. v \in Unit /\ v # u
      BY NeighAssumption
    <3> QED
      BY <1>1, <1>2, <3>1, <3>2, <3>3 DEF Exchange, ReceiveAll
  <2> QED
    BY <2>1, <2>2
<1>5. Arrived'
  <2> SUFFICES ASSUME NEW s \in Slots, Quiet(s)'
               PROVE  /\ receive_buffer[s] = Written(s[2], s[1], s[3], send_buffer'[s[1]][s[3]])
                      /\ send_buffer'[s[1]][s[3]] <= send_buffer'[s[2]][s[3]]
    BY DEF Arrived, Exchange
  <2>1. s[1] \in Unit /\ s[2] \in Unit /\ s[3] \in CommTypes
    BY DEF Slots
  <2>2. send_buffer'[s[1]][s[3]] = send_buffer[s[1]][s[3]]
    BY <1>2, <1>3, <2>1
  <2>3. /\ receive_buffer[s] = Written(s[2], s[1], s[3], send_buffer[s[1]][s[3]])
        /\ send_buffer[s[1]][s[3]] <= send_buffer[s[2]][s[3]]
    BY <1>3 DEF CommInv, Arrived
  <2>4. send_buffer[s[2]][s[3]] <= send_buffer'[s[2]][s[3]]
    BY <1>2, <2>1
  <2> QED
    BY <1>0, <2>1, <2>2, <2>3, <2>4
<1>6. Channels'
  <2> SUFFICES ASSUME NEW a \in Unit, NEW b \in Neigh[a], NEW m \in channel'[<<a, b>>]
               PROVE  \E d \in CommTypes, ts \in Nat :
                        m = Sent(a, b, d, ts) /\ Untaken(a, b, d, ts)' /\ (d = "baryctr_state" => ts > 0)
    BY DEF Channels
  <2>1. b \in Unit /\ a # b /\ <<a, b>> \in RankBoundaries /\ a \in Neigh[b]
    BY NeighAssumption DEF RankBoundaries
  <2>2. CASE m \in channel[<<a, b>>]
    <3>1. PICK d \in CommTypes, ts \in Nat :
            m = Sent(a, b, d, ts) /\ Untaken(a, b, d, ts) /\ (d = "baryctr_state" => ts > 0)
      BY <2>2 DEF CommInv, Channels
    <3>2. ts <= send_buffer'[a][d]
      BY <1>0, <1>2, <3>1 DEF Untaken
    <3>3. CASE b = u /\ d = c
      <4>1. ts > Before(c, S)
        BY <1>1, <3>1, <3>3, <2>1, NotAhead DEF Untaken
      <4>2. ts >= S
        BY <1>1, <3>1, <3>3, <4>1 DEF Before, SinceLimited
      <4>3. <<b, a, d>> \in Slots
        BY <2>1 DEF Slots
      <4>4. Untaken(a, b, d, ts)'
        BY <1>1, <1>2, <1>3, <3>2, <3>3, <4>2, <4>3 DEF Untaken
      <4> QED
        BY <3>1, <4>4
    <3>4. CASE ~(b = u /\ d = c)
      <4>1. send_buffer'[b][d] = send_buffer[b][d]
        BY <1>2, <2>1, <3>4
      <4>2. <<b, a, d>> \in Slots
        BY <2>1 DEF Slots
      <4> QED
        BY <1>3, <3>1, <3>2, <4>1, <4>2 DEF Untaken
    <3> QED
      BY <3>3, <3>4
  <2>3. CASE m \notin channel[<<a, b>>]
    <3>1. a = u /\ m = Sent(u, b, c, S)
      BY <2>1, <2>3 DEF Exchange, SendAll, Sent
    <3>2. send_buffer'[b][c] = send_buffer[b][c]
      BY <1>2, <2>1, <3>1
    <3>3. send_buffer[b][c] < S \/ (send_buffer[b][c] = S /\ ~Quiet(<<b, u, c>>))
      <4>1. <<b, u, c>> \in Slots
        BY <2>1, <3>1 DEF Slots
      <4>2. CASE Quiet(<<b, u, c>>)
        <5>1. send_buffer[b][c] <= Before(c, S)
          BY <1>1, <4>1, <4>2 DEF CommInv, Arrived
        <5>2. Before(c, S) \in Int
          BY <1>1 DEF Before, SinceLimited
        <5> QED
          BY <1>0, <1>1, <2>1, <5>1, <5>2
      <4>3. CASE ~Quiet(<<b, u, c>>)
        <5>1. Waiting(b, c) /\ Before(c, timestamp[b]) <= Before(c, S)
          BY <1>1, <4>3 DEF Quiet, CommInv, GetsAwaited
        <5>2. send_buffer[b][c] = timestamp[b] /\ timestamp[b] \in Nat
          BY <2>1, <5>1, WaitingSent DEF TypeOK
        <5>3. c = "baryctr_state" => timestamp[b] > 0 /\ S > 0
          BY <2>1, <5>1 DEF Waiting, Sending, Chain
        <5>4. timestamp[b] <= S
          BY <1>1, <5>1, <5>2, <5>3 DEF Before, SinceLimited
        <5> QED
          BY <1>1, <4>3, <5>2, <5>4
      <4> QED
        BY <4>2, <4>3
    <3>4. <<b, u, c>> \in Slots
      BY <2>1, <3>1 DEF Slots
    <3>5. Untaken(u, b, c, S)'
      BY <1>1, <1>2, <1>3, <2>1, <3>2, <3>3, <3>4 DEF Untaken, TypeOK
    <3>6. c = "baryctr_state" => S > 0
      BY DEF Sending, Chain
    <3> QED
      BY <1>1, <3>1, <3>5, <3>6
  <2> QED
    BY <2>2, <2>3
<1>7. NoChannelError'
  <2>1. \A v \in Neigh[u] : \A m \in channel[<<u, v>>] : m.offset # Offset(c, S)
    BY NoClash, NeighAssumption
  <2> QED
    BY <2>1 DEF CommInv, NoChannelError, Exchange, SendAll
<1> QED
  BY <1>4, <1>5, <1>6, <1>7 DEF CommInv

(* A message in a channel is awaited by its receiver, or is the one its    *)
(* sender sent last and the receiver has not come to yet.                  *)
LEMMA InChannel ==
  ASSUME TypeOK, CommInv, \A w \in Unit : Chain(w),
         NEW u \in Unit, NEW v \in Neigh[u], NEW m \in channel[<<u, v>>]
  PROVE  \E d \in CommTypes :
           \/ /\ Waiting(v, d)
              /\ m = Sent(u, v, d, timestamp[v])
              /\ timestamp[v] <= send_buffer[u][d]
           \/ /\ Waiting(u, d)
              /\ m = Sent(u, v, d, timestamp[u])
              /\ Before(d, timestamp[u]) <= send_buffer[v][d]
              /\ send_buffer[v][d] < timestamp[u]
<1>1. v \in Unit /\ timestamp[u] \in Nat /\ timestamp[v] \in Nat
  BY NeighAssumption DEF TypeOK
<1>2. PICK d \in CommTypes, ts \in Nat :
        m = Sent(u, v, d, ts) /\ Untaken(u, v, d, ts) /\ (d = "baryctr_state" => ts > 0)
  BY <1>1 DEF CommInv, Channels
<1>3. CASE ts = send_buffer[v][d] /\ ~Quiet(<<v, u, d>>)
  <2>1. Waiting(v, d)
    BY <1>3 DEF Quiet, CommInv, GetsAwaited
  <2>2. ts = timestamp[v]
    BY <1>1, <1>3, <2>1, WaitingSent
  <2> QED
    BY <1>2, <2>1, <2>2 DEF Untaken
<1>4. CASE ts > send_buffer[v][d]
  <2>1. ~Quiet(<<u, v, d>>)
    <3>1. <<u, v, d>> \in Slots
      BY <1>1 DEF Slots
    <3> QED
      BY <1>1, <1>2, <1>4, <3>1 DEF CommInv, Arrived, Untaken, TypeOK
  <2>2. Waiting(u, d) /\ Before(d, timestamp[u]) <= send_buffer[v][d]
    BY <2>1 DEF Quiet, CommInv, GetsAwaited
  <2>3. send_buffer[u][d] = timestamp[u]
    BY <1>1, <2>2, WaitingSent
  <2>4. ts <= timestamp[u] /\ ts > Before(d, timestamp[u])
    BY <1>1, <1>2, <1>4, <2>2, <2>3 DEF Untaken, TypeOK, Before, SinceLimited
  <2>5. ts = timestamp[u]
    BY <1>1, <1>2, <2>4 DEF Before, SinceLimited
  <2> QED
    BY <1>2, <1>4, <2>2, <2>5
<1> QED
  BY <1>2, <1>3, <1>4 DEF Untaken

(* A get takes the message of its own type and stamp.                      *)
LEMMA RightMessage ==
  ASSUME TypeOK, CommInv, \A w \in Unit : Chain(w),
         NEW u \in Unit, NEW v \in Neigh[u], NEW c \in CommTypes,
         Waiting(v, c), Before(c, timestamp[v]) <= send_buffer[u][c],
         NEW m \in channel[<<u, v>>], m.offset = Offset(c, timestamp[v])
  PROVE  m = Sent(u, v, c, timestamp[v]) /\ timestamp[v] <= send_buffer[u][c]
<1> DEFINE S == timestamp[u]
           T == timestamp[v]
<1>1. v \in Unit /\ u \in Neigh[v] /\ S \in Nat /\ T \in Nat
  BY NeighAssumption DEF TypeOK
<1>2. PICK d \in CommTypes :
        \/ Waiting(v, d) /\ m = Sent(u, v, d, T) /\ T <= send_buffer[u][d]
        \/ /\ Waiting(u, d) /\ m = Sent(u, v, d, S)
           /\ Before(d, S) <= send_buffer[v][d] /\ send_buffer[v][d] < S
  BY InChannel
<1>3. CASE Waiting(v, d) /\ m = Sent(u, v, d, T) /\ T <= send_buffer[u][d]
  BY <1>3 DEF Waiting
<1>4. CASE /\ Waiting(u, d) /\ m = Sent(u, v, d, S)
           /\ Before(d, S) <= send_buffer[v][d] /\ send_buffer[v][d] < S
  <2>1. Offset(d, S) = Offset(c, T)
    BY <1>4 DEF Sent
  <2>2. Waiting(u, d) /\ Before(d, S) <= send_buffer[v][d]
    BY <1>4
  <2>3. send_buffer[u][d] = S /\ send_buffer[v][c] = T
    BY <1>1, <2>2, WaitingSent
  <2>5. \A e \in CommTypes : e # d => send_buffer[u][e] <= send_buffer[v][e]
    <3> SUFFICES ASSUME NEW e \in CommTypes, e # d PROVE send_buffer[u][e] <= send_buffer[v][e]
      OBVIOUS
    <3>1. <<u, v, e>> \in Slots
      BY <1>1 DEF Slots
    <3>2. Quiet(<<u, v, e>>)
      BY <2>2 DEF Quiet, CommInv, GetsAwaited, Waiting
    <3> QED
      BY <3>1, <3>2 DEF CommInv, Arrived
  <2>6. \A e \in CommTypes : e # c => send_buffer[v][e] <= send_buffer[u][e]
    <3> SUFFICES ASSUME NEW e \in CommTypes, e # c PROVE send_buffer[v][e] <= send_buffer[u][e]
      OBVIOUS
    <3>1. <<v, u, e>> \in Slots
      BY <1>1 DEF Slots
    <3>2. Quiet(<<v, u, e>>)
      BY DEF Quiet, CommInv, GetsAwaited, Waiting
    <3> QED
      BY <3>1, <3>2 DEF CommInv, Arrived
  <2>7. /\ ~(c = d /\ S = T)
        /\ 3 * S + CommIndex[d] <= 3 * T + CommIndex[c] + 4
        /\ 3 * T + CommIndex[c] <= 3 * S + CommIndex[d] + 4
    <3> USE RkdgHpxAssumption, <1>1, <2>2, <2>3 DEF Chain, Before, SinceLimited
    <3>1. S > send_buffer[v][d] /\ Chain(u) /\ Chain(v)
      BY <1>4
    <3>2. CASE at[u] = "post_receive" /\ d = "baryctr_coord" /\ at[v] = "post_receive" /\ c = "baryctr_coord"
      BY <3>1, <3>2
    <3>3. CASE at[u] = "post_receive" /\ d = "baryctr_coord" /\ at[v] = "receive" /\ c = "bound_state"
      BY <3>1, <3>3
    <3>4. CASE at[u] = "post_receive" /\ d = "baryctr_coord" /\ at[v] = "sl_receive" /\ c = "baryctr_state"
      BY <3>1, <3>4, <2>6
    <3>5. CASE at[u] = "receive" /\ d = "bound_state" /\ at[v] = "post_receive" /\ c = "baryctr_coord"
      BY <3>1, <3>5
    <3>6. CASE at[u] = "receive" /\ d = "bound_state" /\ at[v] = "receive" /\ c = "bound_state"
      BY <3>1, <3>6
    <3>7. CASE at[u] = "receive" /\ d = "bound_state" /\ at[v] = "sl_receive" /\ c = "baryctr_state"
      BY <3>1, <3>7
    <3>8. CASE at[u] = "sl_receive" /\ d = "baryctr_state" /\ at[v] = "post_receive" /\ c = "baryctr_coord"
      BY <3>1, <3>8, <2>5
    <3>9. CASE at[u] = "sl_receive" /\ d = "baryctr_state" /\ at[v] = "receive" /\ c = "bound_state"
      BY <3>1, <3>9, <2>5
    <3>10. CASE at[u] = "sl_receive" /\ d = "baryctr_state" /\ at[v] = "sl_receive" /\ c = "baryctr_state"
      BY <3>1, <3>10
    <3> QED
      BY <3>2, <3>3, <3>4, <3>5, <3>6, <3>7, <3>8, <3>9, <3>10 DEF Waiting
  <2> QED
    BY <1>1, <2>1, <2>7, OffsetsApart
<1> QED
  BY <1>2, <1>3, <1>4

(* The arrival of a message.                                               *)
LEMMA ArriveComm ==
  ASSUME TypeOK, CommInv, \A w \in Unit : Chain(w), UNCHANGED <<at, timestamp, threw>>,
         NEW p \in pending, Arrive(p)
  PROVE  TypeOK' /\ CommInv'
<1> DEFINE v == p.slot[1]
           u == p.slot[2]
           c == p.slot[3]
           T == timestamp[v]
<1>1. PICK m \in channel[<<u, v>>] :
        /\ m.offset = p.offset
        /\ receive_buffer' = [receive_buffer EXCEPT ![p.slot] = m.data]
        /\ channel' = [channel EXCEPT ![<<u, v>>] = @ \ {m}]
        /\ pending' = pending \ {p}
        /\ UNCHANGED <<send_buffer, channel_error>>
  BY DEF Arrive
<1>2. /\ v \in Unit /\ u \in Unit /\ c \in CommTypes /\ u \in Neigh[v] /\ v \in Neigh[u]
      /\ p.slot = <<v, u, c>> /\ p.slot \in Slots /\ <<u, v>> \in RankBoundaries
  BY NeighAssumption DEF TypeOK, Slots, RankBoundaries
<1>3. Waiting(v, c) /\ p.offset = Offset(c, T) /\ Before(c, T) <= send_buffer[u][c]
  BY DEF CommInv, GetsAwaited
<1>4. m = Sent(u, v, c, T) /\ T <= send_buffer[u][c]
  BY <1>1, <1>2, <1>3, RightMessage
<1>5. send_buffer[v][c] = T
  BY <1>2, <1>3, WaitingSent
<1> HIDE DEF v, u, c, T
<1>6. \A s \in Slots : Quiet(s)' => s = p.slot \/ Quiet(s)
  BY <1>1 DEF Quiet
<1>7. TypeOK'
  BY <1>1, <1>2 DEF TypeOK
<1>8. GetsAwaited'
  BY <1>1 DEF CommInv, GetsAwaited, Waiting
<1>9. Arrived'
  <2> SUFFICES ASSUME NEW s \in Slots, Quiet(s)'
               PROVE  /\ receive_buffer'[s] = Written(s[2], s[1], s[3], send_buffer[s[1]][s[3]])
                      /\ send_buffer[s[1]][s[3]] <= send_buffer[s[2]][s[3]]
    BY <1>1 DEF Arrived
  <2>1. CASE s = p.slot
    <3>1. receive_buffer'[s] = Written(u, v, c, T)
      BY <1>1, <1>4, <2>1 DEF TypeOK, Sent
    <3> QED
      BY <1>2, <1>4, <1>5, <2>1, <3>1
  <2>2. CASE s # p.slot
    <3>1. Quiet(s) /\ receive_buffer'[s] = receive_buffer[s]
      BY <1>1, <1>6, <2>2 DEF TypeOK
    <3> QED
      BY <3>1 DEF CommInv, Arrived
  <2> QED
    BY <2>1, <2>2
<1>10. Channels'
  <2> SUFFICES ASSUME NEW a \in Unit, NEW b \in Neigh[a], NEW n \in channel'[<<a, b>>]
               PROVE  \E d \in CommTypes, ts \in Nat :
                        n = Sent(a, b, d, ts) /\ Untaken(a, b, d, ts)' /\ (d = "baryctr_state" => ts > 0)
    BY DEF Channels
  <2>1. b \in Unit /\ <<a, b>> \in RankBoundaries /\ a \in Neigh[b]
    BY NeighAssumption DEF RankBoundaries
  <2>2. n \in channel[<<a, b>>] /\ (<<a, b>> = <<u, v>> => n # m)
    BY <1>1, <2>1 DEF TypeOK
  <2>3. PICK d \in CommTypes, ts \in Nat :
          n = Sent(a, b, d, ts) /\ Untaken(a, b, d, ts) /\ (d = "baryctr_state" => ts > 0)
    BY <2>2 DEF CommInv, Channels
  <2>4. ts = send_buffer[b][d] => <<b, a, d>> # p.slot
    BY <1>2, <1>4, <1>5, <2>2, <2>3
  <2>5. <<b, a, d>> \in Slots
    BY <2>1 DEF Slots
  <2>6. Untaken(a, b, d, ts)'
    BY <1>1, <1>6, <2>3, <2>4, <2>5 DEF Untaken
  <2> QED
    BY <2>3, <2>6
<1>11. NoChannelError'
  BY <1>1 DEF CommInv, NoChannelError
<1> QED
  BY <1>7, <1>8, <1>9, <1>10, <1>11 DEF CommInv

-----------------------------------------------------------------------------
(* The steps.                                                              *)

LEMMA CommStep ==
  ASSUME TypeOK, TypeOK', CommInv, \A w \in Unit : Chain(w), NEW u \in Unit, UnitStep(u)
  PROVE  CommInv'
<1> USE RkdgHpxAssumption
<1>1. \A w \in Unit \ {u} : at'[w] = at[w] /\ timestamp'[w] = timestamp[w]
  BY DEF TypeOK, UnitStep, Preprocessor, PostReceive, Launch, Stage, Receive, WetDry, Limiter,
         SlReceive, Scrutinize, Output, Local, Goto, Throw
<1>2. CASE UNCHANGED commVars
  <2>1. \E c \in {"baryctr_coord", "bound_state", "baryctr_state"} :
          at[u] \notin {"post_receive", "receive", "sl_receive"} \/ (Waiting(u, c) /\ Received(u, c))
    BY DEF UnitStep, Preprocessor, PostReceive, Launch, Stage, Receive, WetDry, Limiter,
           SlReceive, Scrutinize, Output, Local, Waiting
  <2>2. \A p \in pending : p.slot[1] # u
    BY <2>1, NoGets DEF CommInv
  <2> QED
    BY <1>1, <1>2, <2>2, LocalComm
<1>3. CASE ~UNCHANGED commVars
  <2>1. \E c \in {"baryctr_coord", "bound_state", "baryctr_state"} :
          Exchange(u, c) /\ Sending(u, c) /\ Waiting(u, c)'
    <3>1. CASE Preprocessor(u)
      BY <1>3, <3>1 DEF Preprocessor, Exchange, Sending, Waiting, Goto, TypeOK
    <3>2. CASE Stage(u)
      BY <1>3, <3>2 DEF Stage, Exchange, Sending, Waiting, Goto, TypeOK
    <3>3. CASE Limiter(u)
      BY <1>3, <3>3 DEF Limiter, Exchange, Sending, Waiting, Goto, TypeOK
    <3> QED
      BY <1>3, <3>1, <3>2, <3>3 DEF UnitStep, PostReceive, Launch, Receive, WetDry, SlReceive,
                                    Scrutinize, Output, Local
  <2>2. UNCHANGED timestamp
    BY <1>3 DEF UnitStep, Preprocessor, PostReceive, Launch, Stage, Receive, WetDry, Limiter,
                SlReceive, Scrutinize, Output, Local
  <2>3. \A p \in pending : p.slot[1] # u
    BY <2>1, NoGets DEF CommInv, Sending
  <2> QED
    BY <1>1, <2>1, <2>2, <2>3, ExchangeComm
<1> QED
  BY <1>2, <1>3

LEMMA FreshStep ==
  ASSUME TypeOK, CommInv, \A w \in Unit : Chain(w), FreshData, NEW u \in Unit, UnitStep(u)
  PROVE  FreshData'
<1> USE RkdgHpxAssumption
<1>1. SUFFICES ASSUME NEW a \in Unit, NEW b \in Neigh[a]
               PROVE  /\ at'[a] \notin {"preprocessor", "post_receive"} /\ ~threw'[a] =>
                           baryctr_coord_neigh'[<<a, b>>] = Written(b, a, "baryctr_coord", 0)
                      /\ q_ex'[<<a, b>>] = Written(b, a, "bound_state", timestamp'[a] - 1)
                      /\ SlopeLimiting =>
                           q_at_baryctr_neigh'[<<a, b>>] = Written(b, a, "baryctr_state",
                             SinceLimited(IF at'[a] \in LimiterPending THEN timestamp'[a] - 1 ELSE timestamp'[a]))
  BY DEF FreshData, RankBoundaries
<1>2. b \in Unit /\ <<a, b>> \in RankBoundaries
  BY NeighAssumption DEF RankBoundaries
<1>3. /\ at[a] \notin {"preprocessor", "post_receive"} /\ ~threw[a] =>
           baryctr_coord_neigh[<<a, b>>] = Written(b, a, "baryctr_coord", 0)
      /\ q_ex[<<a, b>>] = Written(b, a, "bound_state", timestamp[a] - 1)
      /\ SlopeLimiting =>
           q_at_baryctr_neigh[<<a, b>>] = Written(b, a, "baryctr_state",
             SinceLimited(IF at[a] \in LimiterPending THEN timestamp[a] - 1 ELSE timestamp[a]))
  BY <1>2 DEF FreshData
<1>4. ASSUME NEW c \in CommTypes, Waiting(u, c), Received(u, c), a = u
      PROVE  receive_buffer[<<a, b, c>>] = Written(b, a, c, timestamp[a])
  <2>1. \A p \in pending : p.slot[1] # u
    BY <1>4, NoGets DEF CommInv
  <2>2. Quiet(<<a, b, c>>) /\ <<a, b, c>> \in Slots
    BY <1>2, <1>4, <2>1 DEF Quiet, Slots
  <2>3. receive_buffer[<<a, b, c>>] = Written(b, a, c, send_buffer[a][c])
    BY <2>2 DEF CommInv, Arrived
  <2> QED
    BY <1>4, <2>3, WaitingSent
<1> USE DEF TypeOK, Goto, Throw, LimiterPending, SinceLimited
<1>5. CASE Preprocessor(u)
  BY <1>3, <1>5 DEF Preprocessor
<1>6. CASE PostReceive(u)
  <2>1. a = u => baryctr_coord_neigh'[<<a, b>>] = Written(b, a, "baryctr_coord", timestamp[a])
    BY <1>2, <1>4, <1>6 DEF PostReceive, Taken, Waiting
  <2>2. a # u => baryctr_coord_neigh'[<<a, b>>] = baryctr_coord_neigh[<<a, b>>]
    BY <1>2, <1>6 DEF PostReceive, Taken
  <2> QED
    BY <1>3, <1>6, <2>1, <2>2 DEF PostReceive, Chain
<1>7. CASE Launch(u) \/ WetDry(u) \/ Output(u)
  BY <1>3, <1>7 DEF Launch, WetDry, Output, Local, AfterWetDry
<1>8. CASE Stage(u)
  BY <1>3, <1>8 DEF Stage
<1>9. CASE Receive(u)
  <2>1. a = u => q_ex'[<<a, b>>] = Written(b, a, "bound_state", timestamp[a])
    BY <1>2, <1>4, <1>9 DEF Receive, Taken, Waiting
  <2>2. a # u => q_ex'[<<a, b>>] = q_ex[<<a, b>>]
    BY <1>2, <1>9 DEF Receive, Taken
  <2> QED
    BY <1>3, <1>9, <2>1, <2>2 DEF Receive, AfterReceive, AfterWetDry
<1>10. CASE Limiter(u)
  BY <1>3, <1>10 DEF Limiter
<1>11. CASE SlReceive(u)
  <2>1. a = u => q_at_baryctr_neigh'[<<a, b>>] = Written(b, a, "baryctr_state", timestamp[a])
    BY <1>2, <1>4, <1>11 DEF SlReceive, Taken, Waiting
  <2>2. a # u => q_at_baryctr_neigh'[<<a, b>>] = q_at_baryctr_neigh[<<a, b>>]
    BY <1>2, <1>11 DEF SlReceive, Taken
  <2> QED
    BY <1>3, <1>11, <2>1, <2>2 DEF SlReceive, Chain
<1>12. CASE Scrutinize(u)
  BY <1>3, <1>12 DEF Scrutinize, Local, AfterStage
<1> QED
  BY <1>5, <1>6, <1>7, <1>8, <1>9, <1>10, <1>11, <1>12 DEF UnitStep

LEMMA NextIInv == IInv /\ [Next]_vars => IInv'
<1> SUFFICES ASSUME IInv, [Next]_vars PROVE IInv'
  OBVIOUS
<1>1. CASE UNCHANGED vars
  <2> USE <1>1 DEF vars, commVars, rkdgVars, IInv
  <2>1. TypeOK' /\ (\A u \in Unit : Chain(u))'
    BY DEF TypeOK, Chain
  <2>2. CommInv'
    <3>1. GetsAwaited' /\ NoChannelError'
      BY DEF CommInv, GetsAwaited, Waiting, NoChannelError
    <3>2. Arrived'
      BY DEF CommInv, Arrived, Quiet
    <3>3. Channels'
      <4>1. \A u, v, c, ts : Untaken(u, v, c, ts)' <=> Untaken(u, v, c, ts)
        BY DEF Untaken, Quiet
      <4> QED
        BY <4>1 DEF CommInv, Channels
    <3> QED
      BY <3>1, <3>2, <3>3 DEF CommInv
  <2>3. FreshData'
    BY DEF FreshData
  <2> QED
    BY <2>1, <2>2, <2>3
<1>2. ASSUME NEW u \in Unit, UnitStep(u) PROVE IInv'
  <2>1. TypeOK'
    BY <1>2, TypeStep DEF IInv
  <2>2. \A w \in Unit : Chain(w)'
    BY <1>2, ChainStep DEF IInv
  <2>3. CommInv'
    BY <1>2, <2>1, CommStep DEF IInv
  <2>4. FreshData'
    BY <1>2, FreshStep DEF IInv
  <2> QED
    BY <2>1, <2>2, <2>3, <2>4 DEF IInv
<1>3. CASE Message
  <2>1. TypeOK' /\ CommInv'
    BY <1>3, ArriveComm DEF Message, IInv, rkdgVars
  <2>2. \A u \in Unit : Chain(u)'
    BY <1>3 DEF Message, IInv, rkdgVars, Arrive, Chain
  <2>3. FreshData'
    BY <1>3 DEF Message, IInv, rkdgVars, FreshData
  <2> QED
    BY <2>1, <2>2, <2>3 DEF IInv
<1> QED
  BY <1>1, <1>2, <1>3 DEF Next, Stopped

THEOREM Invariance == Spec => []IInv
BY InitIInv, NextIInv, PTL DEF Spec

(* Every flux over a distributed face and every limited slope is computed  *)
(* from the neighbour's data of the same stage, for every partition of the *)
(* mesh, every order of arrival and every pattern of exceptions.           *)
THEOREM Freshness == Spec => []FreshData
<1>1. IInv => FreshData
  BY DEF IInv
<1> QED
  BY <1>1, Invariance, PTL

(* No generation number is set twice in a channel, although the unsigned   *)
(* number wraps around: numbers in use at once are less than five apart.   *)
THEOREM ChannelsSound == Spec => []NoChannelError
<1>1. IInv => NoChannelError
  BY DEF IInv, CommInv
<1> QED
  BY <1>1, Invariance, PTL

(* At most two messages wait in a channel, however long the run: the one   *)
(* the receiver waits for and the one the sender sent before its own wait. *)
THEOREM ChannelsBounded == Spec => []ChannelBound
<1>1. IInv => ChannelBound
  <2> SUFFICES ASSUME IInv, NEW u \in Unit, NEW v \in Neigh[u]
               PROVE  Cardinality(channel[<<u, v>>]) <= 2
    BY DEF ChannelBound, RankBoundaries
  <2> DEFINE Awaited(w) == CASE at[w] = "post_receive" -> "baryctr_coord"
                             [] at[w] = "receive" -> "bound_state"
                             [] OTHER -> "baryctr_state"
             first == Sent(u, v, Awaited(v), timestamp[v])
             second == Sent(u, v, Awaited(u), timestamp[u])
  <2>1. channel[<<u, v>>] \subseteq {first, second}
    <3> SUFFICES ASSUME NEW m \in channel[<<u, v>>] PROVE m \in {first, second}
      OBVIOUS
    <3>1. \E d \in CommTypes :
             \/ (Waiting(v, d) /\ m = Sent(u, v, d, timestamp[v]))
             \/ (Waiting(u, d) /\ m = Sent(u, v, d, timestamp[u]))
      BY InChannel DEF IInv
    <3> QED
      BY <3>1 DEF Waiting
  <2> HIDE DEF first, second
  <2>2. IsFiniteSet({first}) /\ Cardinality({first}) = 1
    BY FS_Singleton
  <2>3. {first, second} = {first} \cup {second}
    OBVIOUS
  <2>4. IsFiniteSet({first, second}) /\ Cardinality({first, second}) <= 2
    BY <2>2, <2>3, FS_AddElement
  <2>5. Cardinality(channel[<<u, v>>]) <= Cardinality({first, second}) /\ IsFiniteSet(channel[<<u, v>>])
    BY <2>1, <2>4, FS_Subset
  <2> QED
    BY <2>4, <2>5, FS_CardinalityType
<1> QED
  BY <1>1, Invariance, PTL

-----------------------------------------------------------------------------
(* The program implements NeighbourSync.                                   *)

LEMMA InitRounds == Init => Sync!Init
<1> SUFFICES ASSUME Init PROVE Sync!Init
  OBVIOUS
<1>1. ASSUME NEW u \in Unit
      PROVE  /\ PostedRounds(u) = 0 /\ ConsumedRounds(u) = 0
             /\ \A v \in Neigh[u] : RoundOf(InUse(<<u, v>>)) = 0
  <2>1. at[u] = "preprocessor" /\ timestamp[u] = 0
    BY DEF Init
  <2>2. PostedRounds(u) = 0 /\ ConsumedRounds(u) = 0
    BY <2>1 DEF PostedRounds, ConsumedRounds
  <2>3. ASSUME NEW v \in Neigh[u] PROVE RoundOf(InUse(<<u, v>>)) = 0
    <3>1. InUse(<<u, v>>) = baryctr_coord_neigh[<<u, v>>] /\ <<u, v>> \in RankBoundaries
      BY <2>1, NeighAssumption DEF InUse, RankBoundaries
    <3>2. InUse(<<u, v>>).ts = -1
      BY <3>1 DEF Init, Written
    <3> QED
      BY <3>2 DEF RoundOf
  <2> QED
    BY <2>2, <2>3
<1> QED
  BY <1>1 DEF Sync!Init

(* The rounds a submesh has posted and taken, and those of its data.       *)
SameRounds(w) ==
  /\ PostedRounds(w)' = PostedRounds(w)
  /\ ConsumedRounds(w)' = ConsumedRounds(w)
  /\ \A v \in Neigh[w] : RoundOf(InUse(<<w, v>>))' = RoundOf(InUse(<<w, v>>))

LEMMA KeepRounds ==
  ASSUME \A w \in Unit : SameRounds(w)
  PROVE  UNCHANGED Sync!vars
BY DEF SameRounds, Sync!vars

LEMMA PostRound ==
  ASSUME NEW u \in Unit, \A w \in Unit \ {u} : SameRounds(w),
         PostedRounds(u) = ConsumedRounds(u),
         PostedRounds(u)' = PostedRounds(u) + 1, ConsumedRounds(u)' = ConsumedRounds(u),
         \A v \in Neigh[u] : RoundOf(InUse(<<u, v>>))' = RoundOf(InUse(<<u, v>>))
  PROVE  Sync!Post(u)
BY DEF SameRounds, Sync!Post

LEMMA TakeRound ==
  ASSUME NEW u \in Unit, \A w \in Unit \ {u} : SameRounds(w),
         PostedRounds(u) = ConsumedRounds(u) + 1,
         \A v \in Neigh[u] : PostedRounds(v) >= PostedRounds(u),
         PostedRounds(u)' = PostedRounds(u), ConsumedRounds(u)' = ConsumedRounds(u) + 1,
         \A v \in Neigh[u] : RoundOf(InUse(<<u, v>>))' = PostedRounds(u)
  PROVE  Sync!Consume(u)
<1> DEFINE P == [w \in Unit |-> PostedRounds(w)]
           C == [w \in Unit |-> ConsumedRounds(w)]
           G == [w \in Unit |-> [v \in Neigh[w] |-> RoundOf(InUse(<<w, v>>))]]
<1>1. P[u] = C[u] + 1 /\ \A v \in Neigh[u] : P[v] >= P[u]
  BY NeighAssumption
<1>2. C' = [C EXCEPT ![u] = @ + 1]
  BY DEF SameRounds
<1>3. G' = [G EXCEPT ![u] = [v \in Neigh[u] |-> P[u]]]
  <2>1. ASSUME NEW w \in Unit
        PROVE  [v \in Neigh[w] |-> RoundOf(InUse(<<w, v>>))]' =
                 IF w = u THEN [v \in Neigh[u] |-> P[u]]
                 ELSE [v \in Neigh[w] |-> RoundOf(InUse(<<w, v>>))]
    BY DEF SameRounds
  <2> QED
    BY <2>1
<1>4. P' = P
  BY DEF SameRounds
<1> QED
  BY <1>1, <1>2, <1>3, <1>4 DEF Sync!Consume

(* A continuation that takes no data leaves the round of those in use.     *)
LEMMA SameData ==
  ASSUME NEW w \in Unit, timestamp'[w] = timestamp[w],
         SlopeLimiting => (at'[w] \in LimiterPending <=> at[w] \in LimiterPending),
         \A v \in Neigh[w] :
           /\ baryctr_coord_neigh'[<<w, v>>] = baryctr_coord_neigh[<<w, v>>]
           /\ q_ex'[<<w, v>>] = q_ex[<<w, v>>]
           /\ q_at_baryctr_neigh'[<<w, v>>] = q_at_baryctr_neigh[<<w, v>>]
  PROVE  \A v \in Neigh[w] : RoundOf(InUse(<<w, v>>))' = RoundOf(InUse(<<w, v>>))
<1> SUFFICES ASSUME NEW v \in Neigh[w] PROVE RoundOf(InUse(<<w, v>>))' = RoundOf(InUse(<<w, v>>))
  OBVIOUS
<1>1. InUse(<<w, v>>)' = InUse(<<w, v>>)
  BY DEF InUse
<1> QED
  BY <1>1 DEF RoundOf

LEMMA OthersKeep ==
  ASSUME TypeOK, NEW u \in Unit, UnitStep(u), NEW w \in Unit \ {u}
  PROVE  SameRounds(w)
<1>1. at'[w] = at[w] /\ timestamp'[w] = timestamp[w]
  BY DEF TypeOK, UnitStep, Preprocessor, PostReceive, Launch, Stage, Receive, WetDry, Limiter,
         SlReceive, Scrutinize, Output, Local, Goto, Throw
<1>2. ASSUME NEW v \in Neigh[w]
      PROVE  /\ baryctr_coord_neigh'[<<w, v>>] = baryctr_coord_neigh[<<w, v>>]
             /\ q_ex'[<<w, v>>] = q_ex[<<w, v>>]
             /\ q_at_baryctr_neigh'[<<w, v>>] = q_at_baryctr_neigh[<<w, v>>]
  <2>1. <<w, v>> \in RankBoundaries /\ <<w, v>>[1] # u
    BY NeighAssumption DEF RankBoundaries
  <2> QED
    BY <2>1 DEF UnitStep, Preprocessor, PostReceive, Launch, Stage, Receive, WetDry, Limiter,
         SlReceive, Scrutinize, Output, Local, Taken
<1>3. PostedRounds(w)' = PostedRounds(w) /\ ConsumedRounds(w)' = ConsumedRounds(w)
  BY <1>1 DEF PostedRounds, ConsumedRounds
<1> QED
  BY <1>1, <1>2, <1>3, SameData DEF SameRounds

(* The round a neighbour has posted, from the stamp of its last message.   *)
LEMMA NeighbourPosted ==
  ASSUME TypeOK, NEW u \in Unit, NEW v \in Unit, Chain(v), ~threw[v],
         NEW c \in CommTypes, NEW ts \in Nat, ts <= send_buffer[v][c], c = "baryctr_coord" => ts = 0
  PROVE  PostedRounds(v) >= RoundOf(Written(v, u, c, ts))
<1> DEFINE T == timestamp[v]
<1>1. T \in Nat /\ PerStage = (IF SlopeLimiting THEN 2 ELSE 1)
  BY DEF TypeOK, PerStage
<1>2. PostedRounds(v) \in Int
  BY <1>1 DEF PostedRounds, ConsumedRounds
<1>3. CASE c = "baryctr_coord"
  <2>1. at[v] # "preprocessor" /\ RoundOf(Written(v, u, c, ts)) = 1
    BY <1>3 DEF Chain, RoundOf, Written
  <2>2. at[v] = "post_receive" => PostedRounds(v) = 1
    BY DEF PostedRounds, ConsumedRounds
  <2>3. at[v] # "post_receive" /\ at[v] \in LimiterPending => PostedRounds(v) >= 1
    BY <1>1, <2>1 DEF PostedRounds, ConsumedRounds, Chain, LimiterPending
  <2>4. at[v] # "post_receive" /\ at[v] \notin LimiterPending => PostedRounds(v) >= 1
    BY <1>1, <2>1 DEF PostedRounds, ConsumedRounds
  <2> QED
    BY <2>1, <2>2, <2>3, <2>4
<1>4. CASE c = "bound_state"
  <2>1. RoundOf(Written(v, u, c, ts)) = 2 + PerStage * ts
    BY <1>4 DEF RoundOf, Written
  <2>2. CASE at[v] = "receive"
    <3>1. PostedRounds(v) = 2 + PerStage * T
      BY <1>1, <2>2 DEF PostedRounds, ConsumedRounds, LimiterPending
    <3>2. ts <= T
      BY <1>4, <2>2 DEF Chain
    <3> QED
      BY <1>1, <2>1, <3>1, <3>2
  <2>3. CASE at[v] # "receive"
    <3>1. ts <= T - 1 /\ at[v] \notin {"preprocessor", "post_receive"}
      BY <1>1, <1>4, <2>3 DEF Chain
    <3>2. PostedRounds(v) >= 1 + PerStage * T - (IF SlopeLimiting THEN 1 ELSE 0)
      BY <1>1, <3>1 DEF PostedRounds, ConsumedRounds
    <3> QED
      BY <1>1, <1>2, <2>1, <3>1, <3>2
  <2> QED
    BY <2>2, <2>3
<1>5. CASE c = "baryctr_state"
  <2>1. RoundOf(Written(v, u, c, ts)) = 1 + PerStage * ts
    BY <1>5 DEF RoundOf, Written
  <2>2. SlopeLimiting /\ PerStage = 2
    BY <1>1, <1>5 DEF Chain
  <2>3. CASE at[v] \in {"wet_dry", "limiter"}
    <3>1. PostedRounds(v) = 2 * T
      BY <1>1, <2>2, <2>3 DEF PostedRounds, ConsumedRounds, LimiterPending
    <3>2. ts <= T - 1
      BY <1>1, <1>5, <2>2, <2>3 DEF Chain, SinceLimited
    <3> QED
      BY <1>1, <2>1, <2>2, <3>1, <3>2
  <2>4. CASE at[v] \notin {"wet_dry", "limiter"}
    <3>1. ts <= T /\ T > 0
      BY <1>1, <1>5, <2>2, <2>4 DEF Chain, SinceLimited
    <3>2. PostedRounds(v) >= 1 + 2 * T
      BY <1>1, <2>2, <2>4, <3>1 DEF PostedRounds, ConsumedRounds, LimiterPending, Chain
    <3> QED
      BY <1>1, <1>2, <2>1, <2>2, <3>1, <3>2
  <2> QED
    BY <2>3, <2>4
<1> QED
  BY <1>3, <1>4, <1>5, RkdgHpxAssumption

LEMMA RoundStep ==
  ASSUME IInv, NEW u \in Unit, UnitStep(u), ~Failed'
  PROVE  Sync!Post(u) \/ Sync!Consume(u) \/ UNCHANGED Sync!vars
<1> DEFINE T == timestamp[u]
           L == PerStage * T
<1>1. T \in Nat /\ L \in Nat /\ PerStage * (T + 1) = L + PerStage /\ (T = 0 => L = 0)
  BY DEF IInv, TypeOK, PerStage
<1>2. PerStage = (IF SlopeLimiting THEN 2 ELSE 1)
  BY DEF PerStage
<1>3. \A w \in Unit : ~threw'[w] /\ ~threw[w]
  BY DEF Failed, UnitStep, Preprocessor, PostReceive, Launch, Stage, Receive, WetDry, Limiter,
         SlReceive, Scrutinize, Output, Local, Goto, Throw, IInv, TypeOK
<1>4. TypeOK /\ CommInv /\ Chain(u) /\ \A w \in Unit : Chain(w)
  BY DEF IInv
<1>5. \A w \in Unit \ {u} : SameRounds(w)
  BY <1>4, OthersKeep
<1>6. \A v \in Neigh[u] : v \in Unit /\ <<u, v>> \in RankBoundaries
  BY NeighAssumption DEF RankBoundaries
<1>7. ASSUME NEW c \in CommTypes, Waiting(u, c), Received(u, c), NEW v \in Neigh[u]
      PROVE  /\ receive_buffer[<<u, v, c>>] = Written(v, u, c, T)
             /\ PostedRounds(v) >= RoundOf(Written(v, u, c, T))
  <2>1. \A p \in pending : p.slot[1] # u
    BY <1>4, <1>7, NoGets DEF CommInv
  <2>2. /\ Quiet(<<u, v, c>>) /\ <<u, v, c>> \in Slots
        /\ send_buffer[u][c] = T /\ send_buffer[u][c] <= send_buffer[v][c]
    BY <1>4, <1>6, <1>7, <2>1, NotAhead, WaitingSent DEF Slots
  <2>3. receive_buffer[<<u, v, c>>] = Written(v, u, c, T)
    BY <1>4, <2>2 DEF CommInv, Arrived
  <2>4. c = "baryctr_coord" => T = 0
    BY <1>4, <1>7, RkdgHpxAssumption DEF Waiting, Chain
  <2>5. PostedRounds(v) >= RoundOf(Written(v, u, c, T))
    BY <1>1, <1>3, <1>4, <1>6, <2>2, <2>4, NeighbourPosted
  <2> QED
    BY <2>3, <2>5
<1> HIDE DEF L
<1>8. CASE Preprocessor(u)
  <2>1. /\ at[u] = "preprocessor" /\ at'[u] = "post_receive"
        /\ UNCHANGED <<timestamp, baryctr_coord_neigh, q_ex, q_at_baryctr_neigh>>
    BY <1>3, <1>4, <1>8 DEF Preprocessor, Goto, Throw, TypeOK
  <2>2. /\ PostedRounds(u) = 0 /\ ConsumedRounds(u) = 0
        /\ PostedRounds(u)' = 1 /\ ConsumedRounds(u)' = 0
    BY <2>1 DEF PostedRounds, ConsumedRounds
  <2>3. \A v \in Neigh[u] : RoundOf(InUse(<<u, v>>))' = RoundOf(InUse(<<u, v>>))
    BY <2>1, SameData DEF LimiterPending
  <2> QED
    BY <1>5, <2>2, <2>3, PostRound
<1>9. CASE Stage(u) \/ Limiter(u)
  <2>1. /\ (at[u] = "stage" /\ at'[u] = "receive") \/ (at[u] = "limiter" /\ at'[u] = "sl_receive")
        /\ UNCHANGED <<timestamp, baryctr_coord_neigh, q_ex, q_at_baryctr_neigh>>
    BY <1>3, <1>4, <1>9 DEF Stage, Limiter, Goto, Throw, TypeOK
  <2>2. /\ PostedRounds(u) = ConsumedRounds(u)
        /\ PostedRounds(u)' = PostedRounds(u) + 1 /\ ConsumedRounds(u)' = ConsumedRounds(u)
    BY <1>1, <2>1 DEF PostedRounds, ConsumedRounds, LimiterPending, L
  <2>3. \A v \in Neigh[u] : RoundOf(InUse(<<u, v>>))' = RoundOf(InUse(<<u, v>>))
    BY <2>1, SameData DEF LimiterPending
  <2> QED
    BY <1>5, <2>2, <2>3, PostRound
<1>10. CASE Launch(u) \/ WetDry(u) \/ Scrutinize(u) \/ Output(u)
  <2>1. /\ UNCHANGED <<timestamp, baryctr_coord_neigh, q_ex, q_at_baryctr_neigh>>
        /\ at[u] \notin {"preprocessor", "post_receive", "receive", "sl_receive"}
        /\ at'[u] \notin {"preprocessor", "post_receive", "receive", "sl_receive"}
        /\ SlopeLimiting => (at'[u] \in LimiterPending <=> at[u] \in LimiterPending)
    BY <1>4, <1>10 DEF Launch, WetDry, Scrutinize, Output, Local, Goto, AfterWetDry, AfterStage,
                       LimiterPending, TypeOK
  <2>2. PostedRounds(u)' = PostedRounds(u) /\ ConsumedRounds(u)' = ConsumedRounds(u)
    BY <2>1 DEF PostedRounds, ConsumedRounds
  <2>3. SameRounds(u)
    BY <2>1, <2>2, SameData DEF SameRounds
  <2> QED
    BY <1>5, <2>3, KeepRounds
<1>11. CASE PostReceive(u)
  <2>1. /\ at[u] = "post_receive" /\ at'[u] = "launch" /\ Received(u, "baryctr_coord")
        /\ T = 0 /\ timestamp' = timestamp
        /\ baryctr_coord_neigh' = Taken(baryctr_coord_neigh, u, "baryctr_coord")
    BY <1>4, <1>11 DEF PostReceive, Goto, TypeOK, Chain
  <2>2. PostedRounds(u) = 1 /\ ConsumedRounds(u) = 0 /\ PostedRounds(u)' = 1 /\ ConsumedRounds(u)' = 1
    BY <1>1, <2>1 DEF PostedRounds, ConsumedRounds, LimiterPending, L
  <2>3. ASSUME NEW v \in Neigh[u]
        PROVE  RoundOf(InUse(<<u, v>>))' = 1 /\ PostedRounds(v) >= 1
    <3>1. /\ receive_buffer[<<u, v, "baryctr_coord">>] = Written(v, u, "baryctr_coord", 0)
          /\ PostedRounds(v) >= RoundOf(Written(v, u, "baryctr_coord", 0))
      BY <1>7, <2>1, RkdgHpxAssumption DEF Waiting
    <3>2. InUse(<<u, v>>)' = Written(v, u, "baryctr_coord", 0)
      BY <1>6, <2>1, <3>1 DEF InUse, Taken
    <3>3. RoundOf(Written(v, u, "baryctr_coord", 0)) = 1
      BY DEF RoundOf, Written
    <3> QED
      BY <3>1, <3>2, <3>3 DEF RoundOf
  <2>4. /\ PostedRounds(u) = ConsumedRounds(u) + 1
        /\ PostedRounds(u)' = PostedRounds(u) /\ ConsumedRounds(u)' = ConsumedRounds(u) + 1
        /\ \A v \in Neigh[u] : RoundOf(InUse(<<u, v>>))' = PostedRounds(u) /\ PostedRounds(v) >= PostedRounds(u)
    BY <2>2, <2>3
  <2> QED
    BY <1>5, <2>4, TakeRound
<1>12. CASE Receive(u)
  <2>1. /\ at[u] = "receive" /\ Received(u, "bound_state")
        /\ at'[u] \notin {"preprocessor", "post_receive", "receive", "sl_receive"}
        /\ SlopeLimiting => at'[u] \in LimiterPending
        /\ timestamp'[u] = T + 1
        /\ q_ex' = Taken(q_ex, u, "bound_state")
    BY <1>4, <1>12 DEF Receive, Goto, TypeOK, AfterReceive, AfterWetDry, LimiterPending
  <2>2. PostedRounds(u) = 2 + L /\ ConsumedRounds(u) = 1 + L
    BY <1>1, <2>1 DEF PostedRounds, ConsumedRounds, LimiterPending, L
  <2>3. ConsumedRounds(u)' = 1 + PerStage * (T + 1) - (IF SlopeLimiting THEN 1 ELSE 0)
    BY <2>1 DEF ConsumedRounds, PerStage
  <2>4. PostedRounds(u)' = ConsumedRounds(u)'
    BY <1>1, <1>2, <2>1, <2>3 DEF PostedRounds
  <2>5. ConsumedRounds(u)' = 2 + L
    BY <1>1, <1>2, <2>3
  <2>6. ASSUME NEW v \in Neigh[u]
        PROVE  RoundOf(InUse(<<u, v>>))' = 2 + L /\ PostedRounds(v) >= 2 + L
    <3>1. /\ receive_buffer[<<u, v, "bound_state">>] = Written(v, u, "bound_state", T)
          /\ PostedRounds(v) >= RoundOf(Written(v, u, "bound_state", T))
      BY <1>7, <2>1, RkdgHpxAssumption DEF Waiting
    <3>2. InUse(<<u, v>>)' = Written(v, u, "bound_state", T)
      BY <1>1, <1>6, <2>1, <3>1 DEF InUse, Taken
    <3>3. RoundOf(Written(v, u, "bound_state", T)) = 2 + L
      BY <1>1 DEF RoundOf, Written, L
    <3> QED
      BY <3>1, <3>2, <3>3 DEF RoundOf, PerStage
  <2>7. /\ PostedRounds(u) = ConsumedRounds(u) + 1
        /\ PostedRounds(u)' = PostedRounds(u) /\ ConsumedRounds(u)' = ConsumedRounds(u) + 1
        /\ \A v \in Neigh[u] : RoundOf(InUse(<<u, v>>))' = PostedRounds(u) /\ PostedRounds(v) >= PostedRounds(u)
    BY <1>1, <2>2, <2>4, <2>5, <2>6
  <2> QED
    BY <1>5, <2>7, TakeRound
<1>13. CASE SlReceive(u)
  <2>1. /\ at[u] = "sl_receive" /\ at'[u] = "scrutinize" /\ Received(u, "baryctr_state")
        /\ SlopeLimiting /\ T > 0 /\ timestamp' = timestamp
        /\ q_at_baryctr_neigh' = Taken(q_at_baryctr_neigh, u, "baryctr_state")
    BY <1>4, <1>13 DEF SlReceive, Goto, TypeOK, Chain
  <2>2. /\ PostedRounds(u) = 1 + L /\ ConsumedRounds(u) = L
        /\ PostedRounds(u)' = 1 + L /\ ConsumedRounds(u)' = 1 + L
    BY <1>1, <2>1 DEF PostedRounds, ConsumedRounds, LimiterPending, L
  <2>3. ASSUME NEW v \in Neigh[u]
        PROVE  RoundOf(InUse(<<u, v>>))' = 1 + L /\ PostedRounds(v) >= 1 + L
    <3>1. /\ receive_buffer[<<u, v, "baryctr_state">>] = Written(v, u, "baryctr_state", T)
          /\ PostedRounds(v) >= RoundOf(Written(v, u, "baryctr_state", T))
      BY <1>7, <2>1, RkdgHpxAssumption DEF Waiting
    <3>2. InUse(<<u, v>>)' = Written(v, u, "baryctr_state", T)
      BY <1>6, <2>1, <3>1 DEF InUse, Taken, LimiterPending
    <3>3. RoundOf(Written(v, u, "baryctr_state", T)) = 1 + L
      BY <1>1 DEF RoundOf, Written, L
    <3> QED
      BY <3>1, <3>2, <3>3 DEF RoundOf, PerStage
  <2>4. /\ PostedRounds(u) = ConsumedRounds(u) + 1
        /\ PostedRounds(u)' = PostedRounds(u) /\ ConsumedRounds(u)' = ConsumedRounds(u) + 1
        /\ \A v \in Neigh[u] : RoundOf(InUse(<<u, v>>))' = PostedRounds(u) /\ PostedRounds(v) >= PostedRounds(u)
    BY <1>1, <2>2, <2>3
  <2> QED
    BY <1>5, <2>4, TakeRound
<1> QED
  BY <1>8, <1>9, <1>10, <1>11, <1>12, <1>13 DEF UnitStep

(* As long as no exception is thrown, every step of the program is a round *)
(* posted, a round taken or no step of NeighbourSync.                      *)
THEOREM Implementation == Spec => SyncSpec
<1>1. IInv /\ [Next]_vars => [Failed' \/ Sync!Next]_(Sync!vars)
  <2> SUFFICES ASSUME IInv, [Next]_vars, ~Failed' PROVE [Sync!Next]_(Sync!vars)
    OBVIOUS
  <2>1. ASSUME NEW u \in Unit, UnitStep(u) PROVE [Sync!Next]_(Sync!vars)
    BY <2>1, RoundStep DEF Sync!Next
  <2>2. CASE Message \/ UNCHANGED vars
    <3>1. \A w \in Unit : SameRounds(w)
      <4> SUFFICES ASSUME NEW w \in Unit PROVE SameRounds(w)
        OBVIOUS
      <4>1. UNCHANGED rkdgVars
        BY <2>2 DEF Message, vars
      <4>2. PostedRounds(w)' = PostedRounds(w) /\ ConsumedRounds(w)' = ConsumedRounds(w)
        BY <4>1 DEF rkdgVars, PostedRounds, ConsumedRounds
      <4> QED
        BY <4>1, <4>2, SameData DEF rkdgVars, SameRounds
    <3> QED
      BY <3>1, KeepRounds
  <2> QED
    BY <2>1, <2>2 DEF Next, Stopped
<1> QED
  BY <1>1, InitRounds, Invariance, PTL DEF Spec, SyncSpec

-----------------------------------------------------------------------------
(* What NeighbourSync promises, of variables of its own.                   *)

VARIABLES posted, consumed, got

Rounds == INSTANCE NeighbourSync

(* Initially nothing is published and nothing is taken.                    *)
LEMMA SyncInitInv == Rounds!Init => Rounds!Inv
BY NeighAssumption DEF Rounds!Init, Rounds!Inv, Rounds!TypeOK

(* Publishing keeps the invariant: only posted[u] grows, from consumed[u]. *)
LEMMA PostInv ==
  ASSUME Rounds!Inv, NEW u \in Unit, Rounds!Post(u)
  PROVE  Rounds!Inv'
<1>1. Rounds!TypeOK'
  BY DEF Rounds!Inv, Rounds!TypeOK, Rounds!Post
<1>2. (\A w \in Unit : posted[w] \in {consumed[w], consumed[w] + 1})'
  BY DEF Rounds!Inv, Rounds!TypeOK, Rounds!Post
<1>3. (\A w \in Unit : \A v \in Neigh[w] : consumed[w] <= posted[v])'
  BY NeighAssumption DEF Rounds!Inv, Rounds!TypeOK, Rounds!Post
<1>4. (\A w \in Unit : \A v \in Neigh[w] : got[w][v] = consumed[w])'
  BY DEF Rounds!Inv, Rounds!TypeOK, Rounds!Post
<1>5. QED
  BY <1>1, <1>2, <1>3, <1>4 DEF Rounds!Inv

(* Taking a round keeps it, because every neighbour has published it.      *)
LEMMA ConsumeInv ==
  ASSUME Rounds!Inv, NEW u \in Unit, Rounds!Consume(u)
  PROVE  Rounds!Inv'
<1>1. Rounds!TypeOK'
  BY DEF Rounds!Inv, Rounds!TypeOK, Rounds!Consume
<1>2. (\A w \in Unit : posted[w] \in {consumed[w], consumed[w] + 1})'
  BY DEF Rounds!Inv, Rounds!TypeOK, Rounds!Consume
<1>3. (\A w \in Unit : \A v \in Neigh[w] : consumed[w] <= posted[v])'
  BY NeighAssumption DEF Rounds!Inv, Rounds!TypeOK, Rounds!Consume
<1>4. (\A w \in Unit : \A v \in Neigh[w] : got[w][v] = consumed[w])'
  BY NeighAssumption DEF Rounds!Inv, Rounds!TypeOK, Rounds!Consume
<1>5. QED
  BY <1>1, <1>2, <1>3, <1>4 DEF Rounds!Inv

LEMMA SyncNextInv == Rounds!Inv /\ [Rounds!Next]_(Rounds!vars) => Rounds!Inv'
<1> SUFFICES ASSUME Rounds!Inv, [Rounds!Next]_(Rounds!vars) PROVE Rounds!Inv'
  OBVIOUS
<1>1. CASE Rounds!Next
  BY <1>1, PostInv, ConsumeInv DEF Rounds!Next
<1>2. CASE UNCHANGED Rounds!vars
  BY <1>2 DEF Rounds!vars, Rounds!Inv, Rounds!TypeOK
<1>3. QED
  BY <1>1, <1>2

(* The data a submesh computes with is of the round in progress, for every *)
(* neighbour, and rounds are published only when the previous is taken.    *)
THEOREM RoundsInOrder == Rounds!Spec => []Rounds!Inv
BY SyncInitInv, SyncNextInv, PTL DEF Rounds!Spec

(* Neighbours are at most one round apart and at most two published rounds *)
(* are outstanding between them, whatever the mesh.                        *)
THEOREM BoundedSkew == Rounds!Spec => []Rounds!Skew
<1>1. Rounds!Inv => Rounds!Skew
  BY NeighAssumption DEF Rounds!Inv, Rounds!TypeOK, Rounds!Skew
<1>2. QED
  BY <1>1, RoundsInOrder, PTL

(* A step gives a submesh the next round of a neighbour's data or leaves   *)
(* what it has: no round is taken twice and none is skipped.               *)
THEOREM NoRoundLost == Rounds!Spec => Rounds!EveryRoundOnce
<1> DEFINE Once == \A u \in Unit : \A v \in Neigh[u] : got'[u][v] \in {got[u][v], got[u][v] + 1}
<1>1. Rounds!Inv /\ [Rounds!Next]_(Rounds!vars) => [Once]_(Rounds!vars)
  <2> SUFFICES ASSUME Rounds!Inv, NEW w \in Unit, Rounds!Post(w) \/ Rounds!Consume(w) PROVE Once
    BY DEF Rounds!Next
  <2>1. CASE Rounds!Post(w)
    BY <2>1 DEF Rounds!Post, Rounds!Inv, Rounds!TypeOK
  <2>2. CASE Rounds!Consume(w)
    BY <2>2, NeighAssumption DEF Rounds!Consume, Rounds!Inv, Rounds!TypeOK
  <2>3. QED
    BY <2>1, <2>2
<1>2. QED
  BY <1>1, RoundsInOrder, PTL DEF Rounds!Spec, Rounds!EveryRoundOnce
=============================================================================
