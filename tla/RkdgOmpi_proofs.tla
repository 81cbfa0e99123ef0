---------------------------- MODULE RkdgOmpi_proofs ----------------------------
(***************************************************************************)
(* Proofs about RkdgOmpi, for every mesh partition, assignment of submeshes*)
(* to ranks and threads, number of stages and steps.                       *)
(***************************************************************************)
EXTENDS RkdgOmpi, OmpiThreads_proofs

-----------------------------------------------------------------------------
(* Type correctness.                                                       *)

(* What a unit takes from its receive buffers is data.                     *)
LEMMA TakenType ==
  ASSUME CommTypeOK, NEW u \in Unit, NEW c \in CommTypes,
         NEW old \in [RankBoundaries -> Data]
  PROVE  Taken(old, u, c) \in [RankBoundaries -> Data]
<1>1. ASSUME NEW rb \in RankBoundaries, rb[1] = u
      PROVE  <<u, rb[2], c>> \in Slots
  BY <1>1 DEF RankBoundaries, Slots
<1>2. QED
  BY <1>1 DEF Taken, GetFromReceiveBuffer, CommTypeOK

(* What every action leaves of the type invariant when it touches neither  *)
(* the stored data nor the timestamps.                                     *)
RestTypeOK ==
  /\ timestamp \in [Unit -> Nat]
  /\ baryctr_coord_neigh \in [RankBoundaries -> Data]
  /\ q_ex \in [RankBoundaries -> Data]
  /\ q_at_baryctr_neigh \in [RankBoundaries -> Data]
  /\ aborted \in BOOLEAN

LEMMA TypeParts ==
  TypeOK <=> CommTypeOK /\ at \in [Unit -> Locations] /\ RestTypeOK
BY DEF TypeOK, RestTypeOK

LEMMA InitType == Init => TypeOK
<1> SUFFICES ASSUME Init PROVE TypeOK
  OBVIOUS
<1>1. \A rb \in RankBoundaries : rb[1] \in Unit /\ rb[2] \in Unit
  BY DEF RankBoundaries
<1>2. \A s \in Slots : s[2] \in Unit /\ s[3] \in CommTypes
  BY DEF Slots
<1>3. CommTypeOK
  <2>1. receive_buffer \in [Slots -> Data]
    BY <1>2 DEF Init, CommInit, Written, Data, Slots
  <2>2. network \in [Envelopes -> Seq(Message)] /\ posted \in [Envelopes -> Seq(Slots)]
    BY DEF Init, CommInit
  <2>3. send_buffer \in [Unit -> [CommTypes -> Nat \cup {-1}]]
    BY DEF Init, CommInit
  <2>4. QED
    BY <2>1, <2>2, <2>3 DEF Init, CommInit, CommTypeOK
<1>4. at \in [Unit -> Locations]
  BY DEF Init, Locations
<1>5. RestTypeOK
  BY <1>1, RkdgOmpiAssumption DEF Init, RestTypeOK, Written, Data
<1>6. QED
  BY <1>3, <1>4, <1>5, TypeParts

(* A loop body that neither starts nor waits for requests.                 *)
LEMMA LocalType ==
  ASSUME TypeOK, NEW u \in Unit, NEW from, NEW to \in Locations, Local(u, from, to)
  PROVE  TypeOK'
<1>1. CommTypeOK'
  BY DEF Local, commVars, TypeOK, CommTypeOK
<1>2. QED
  BY <1>1 DEF Local, TypeOK, Goto

(* The loops that exchange: buffers are filled and requests started.       *)
LEMMA ExchangeType ==
  ASSUME TypeOK, NEW u \in Unit, InitData(u) \/ PreReceiveAll(u) \/ PreSendAll(u) \/ Exchange(u) \/ SlExchange(u)
  PROVE  TypeOK'
<1>1. CASE InitData(u)
  <2>1. CommTypeOK'
    BY <1>1 DEF InitData, SetToSendBuffer, TypeOK, CommTypeOK
  <2>2. QED
    BY <1>1, <2>1 DEF InitData, TypeOK, Goto, Locations
<1>2. CASE PreReceiveAll(u)
  <2>1. CommTypeOK'
    BY <1>2, ReceiveAllType, RkdgOmpiAssumption DEF PreReceiveAll, ReceiveErroneous, TypeOK, CommTypeOK
  <2>2. QED
    BY <1>2, <2>1 DEF PreReceiveAll, TypeOK, Goto, Locations
<1>3. CASE PreSendAll(u)
  <2>1. CommTypeOK'
    BY <1>3, SendAllType, RkdgOmpiAssumption DEF PreSendAll, SendErroneous, TypeOK, CommTypeOK
  <2>2. QED
    BY <1>3, <2>1 DEF PreSendAll, TypeOK, Goto, Locations
<1>4. CASE Exchange(u)
  <2>1. CommTypeOK'
    BY <1>4, SendAllType, ReceiveAllType, RkdgOmpiAssumption
       DEF Exchange, SetToSendBuffer, SendErroneous, ReceiveErroneous, TypeOK, CommTypeOK
  <2>2. QED
    BY <1>4, <2>1 DEF Exchange, TypeOK, Goto, Locations
<1>5. CASE SlExchange(u)
  <2>1. CommTypeOK'
    BY <1>5, SendAllType, ReceiveAllType, RkdgOmpiAssumption
       DEF SlExchange, SetToSendBuffer, SendErroneous, ReceiveErroneous, TypeOK, CommTypeOK
  <2>2. QED
    BY <1>5, <2>1 DEF SlExchange, TypeOK, Goto, Locations
<1>6. QED
  BY <1>1, <1>2, <1>3, <1>4, <1>5

(* The loops that wait for receives and use what has arrived.              *)
LEMMA ReceiveType ==
  ASSUME TypeOK, NEW u \in Unit, PrePostReceive(u) \/ Receive(u) \/ SlReceive(u)
  PROVE  TypeOK'
<1> USE RkdgOmpiAssumption DEF TypeOK
<1>1. CASE PrePostReceive(u)
  <2>1. CommTypeOK'
    BY <1>1 DEF PrePostReceive, WaitAllReceives, CommTypeOK
  <2>2. baryctr_coord_neigh' \in [RankBoundaries -> Data]
    BY <1>1, TakenType DEF PrePostReceive
  <2>3. QED
    BY <1>1, <2>1, <2>2 DEF PrePostReceive, Goto, Locations
<1>2. CASE Receive(u)
  <2>1. CommTypeOK'
    BY <1>2 DEF Receive, WaitAllReceives, CommTypeOK
  <2>2. q_ex' \in [RankBoundaries -> Data]
    BY <1>2, TakenType DEF Receive
  <2>3. QED
    BY <1>2, <2>1, <2>2 DEF Receive, Goto, Locations, AfterReceive, AfterWetDry
<1>3. CASE SlReceive(u)
  <2>1. CommTypeOK'
    BY <1>3 DEF SlReceive, WaitAllReceives, CommTypeOK
  <2>2. q_at_baryctr_neigh' \in [RankBoundaries -> Data]
    BY <1>3, TakenType DEF SlReceive
  <2>3. QED
    BY <1>3, <2>1, <2>2 DEF SlReceive, Goto, Locations
<1>4. QED
  BY <1>1, <1>2, <1>3

(* The loops that wait for sends: only completed requests are given up.    *)
LEMMA WaitSendsType ==
  ASSUME TypeOK, NEW u \in Unit, PreWaitSends(u) \/ SlWaitSends(u) \/ WaitSends(u)
  PROVE  TypeOK'
<1>1. CommTypeOK'
  BY DEF PreWaitSends, SlWaitSends, WaitSends, WaitAllSends, TypeOK, CommTypeOK
<1>2. QED
  BY <1>1 DEF PreWaitSends, SlWaitSends, WaitSends, TypeOK, Goto, Locations

(* The loops without communication.                                        *)
LEMMA WorkType ==
  ASSUME TypeOK, NEW u \in Unit,
         Launch(u) \/ PreWork(u) \/ WetDry(u) \/ SlWork(u) \/ Scrutinize(u) \/ Output(u)
  PROVE  TypeOK'
<1>1. CASE Launch(u) \/ PreWork(u) \/ WetDry(u) \/ SlWork(u) \/ Output(u)
  BY <1>1, LocalType DEF Launch, PreWork, WetDry, SlWork, Output, AfterWetDry, Locations
<1>2. CASE Local(u, "scrutinize", "wait_sends")
  BY <1>2, LocalType DEF Locations
<1>3. CASE aborted' = TRUE /\ UNCHANGED <<at, timestamp, baryctr_coord_neigh, q_ex, q_at_baryctr_neigh>>
           /\ UNCHANGED commVars
  BY <1>3 DEF TypeOK, CommTypeOK, commVars
<1>4. QED
  BY <1>1, <1>2, <1>3 DEF Scrutinize

LEMMA MpiType ==
  ASSUME TypeOK, Mpi
  PROVE  TypeOK'
<1>1. CommTypeOK'
  BY BufferType, DeliverType DEF Mpi, MpiProgress, TypeOK
<1>2. QED
  BY <1>1 DEF Mpi, rkdgVars, TypeOK

LEMMA NextType == TypeOK /\ [Next]_vars => TypeOK'
<1> SUFFICES ASSUME TypeOK, [Next]_vars PROVE TypeOK'
  OBVIOUS
<1>1. ASSUME NEW u \in Unit, UnitStep(u) PROVE TypeOK'
  BY <1>1, ExchangeType, ReceiveType, WaitSendsType, WorkType DEF UnitStep
<1>2. CASE Mpi
  BY <1>2, MpiType
<1>3. CASE UNCHANGED vars
  BY <1>3 DEF vars, commVars, rkdgVars, TypeOK, CommTypeOK
<1>4. QED
  BY <1>1, <1>2, <1>3 DEF Next, Terminated

(* Every variable keeps its range, the messages in the network carry data  *)
(* of a submesh and a type, and MPI reads and fills only buffers whose     *)
(* request has not been waited for.                                        *)
THEOREM TypeCorrect == Spec => []TypeOK
BY InitType, NextType, PTL DEF Spec

-----------------------------------------------------------------------------
(* Requests: each exchange of a type ends before the next one begins.      *)

(* Of the requests of the unit that moves, those that stay active are of a *)
(* type whose wait is still to come; the other units' are untouched.       *)
LEMMA MoveDiscipline ==
  ASSUME TypeOK, RequestDiscipline, NEW u \in Unit, NEW loc \in Locations, Goto(u, loc),
         send_requests' \subseteq Slots, receive_requests' \subseteq Slots,
         \A s \in send_requests' : s[1] # u => s \in send_requests,
         \A s \in receive_requests' : s[1] # u => s \in receive_requests,
         \A s \in send_requests' : s[1] = u => loc \in SendPending(s[3]),
         \A s \in receive_requests' : s[1] = u => loc \in ReceivePending(s[3])
  PROVE  RequestDiscipline'
<1>1. \A s \in Slots : s[1] \in Unit
  BY DEF Slots
<1>2. \A w \in Unit : at'[w] = IF w = u THEN loc ELSE at[w]
  BY DEF Goto, TypeOK
<1>3. (\A s \in send_requests : at[s[1]] \in SendPending(s[3]))'
  <2> SUFFICES ASSUME NEW s \in send_requests' PROVE at'[s[1]] \in SendPending(s[3])
    BY DEF SendPending
  <2>1. s[1] \in Unit
    BY <1>1
  <2>2. CASE s[1] = u
    BY <1>2, <2>1, <2>2
  <2>3. CASE s[1] # u
    BY <1>2, <2>1, <2>3 DEF RequestDiscipline
  <2>4. QED
    BY <2>2, <2>3
<1>4. (\A s \in receive_requests : at[s[1]] \in ReceivePending(s[3]))'
  <2> SUFFICES ASSUME NEW s \in receive_requests' PROVE at'[s[1]] \in ReceivePending(s[3])
    BY DEF ReceivePending
  <2>1. s[1] \in Unit
    BY <1>1
  <2>2. CASE s[1] = u
    BY <1>2, <2>1, <2>2
  <2>3. CASE s[1] # u
    BY <1>2, <2>1, <2>3 DEF RequestDiscipline
  <2>4. QED
    BY <2>2, <2>3
<1>5. QED
  BY <1>3, <1>4 DEF RequestDiscipline

(* The types of a unit's requests, and the wait each of them is before.    *)
LEMMA Pending ==
  /\ SendPending("baryctr_coord") = {"pre_post_receive", "pre_wait_sends"}
  /\ SendPending("bound_state") = {"pre_work", "receive", "wet_dry", "sl_exchange", "sl_work",
                                   "sl_receive", "sl_wait_sends", "scrutinize", "wait_sends"}
  /\ SendPending("baryctr_state") = {"sl_work", "sl_receive", "sl_wait_sends"}
  /\ ReceivePending("baryctr_coord") = {"pre_send", "pre_post_receive"}
  /\ ReceivePending("bound_state") = {"pre_work", "receive"}
  /\ ReceivePending("baryctr_state") = {"sl_work", "sl_receive"}
BY DEF SendPending, ReceivePending

LEMMA SlotTypes ==
  ASSUME TypeOK
  PROVE  \A s \in Slots : s[3] \in {"baryctr_coord", "bound_state", "baryctr_state"}
BY RkdgOmpiAssumption DEF Slots

(* A step of a unit keeps the discipline.                                  *)
LEMMA UnitDiscipline ==
  ASSUME TypeOK, TypeOK', RequestDiscipline, NEW u \in Unit, UnitStep(u)
  PROVE  RequestDiscipline'
<1> DEFINE Kept(loc) ==
      /\ Goto(u, loc)
      /\ \A s \in send_requests' : s[1] # u => s \in send_requests
      /\ \A s \in receive_requests' : s[1] # u => s \in receive_requests
      /\ \A s \in send_requests' : s[1] = u => loc \in SendPending(s[3])
      /\ \A s \in receive_requests' : s[1] = u => loc \in ReceivePending(s[3])
<1>0. ASSUME NEW loc \in Locations, Kept(loc) PROVE RequestDiscipline'
  BY <1>0, MoveDiscipline DEF TypeOK, CommTypeOK
<1>1. send_requests \subseteq Slots /\ receive_requests \subseteq Slots
  BY DEF TypeOK, CommTypeOK
<1>2. \A s \in send_requests : s[1] = u => at[u] \in SendPending(s[3])
  BY DEF RequestDiscipline
<1>3. \A s \in receive_requests : s[1] = u => at[u] \in ReceivePending(s[3])
  BY DEF RequestDiscipline
<1>4. ASSUME NEW c \in CommTypes, NEW s \in UnitSlots(u, c) PROVE s[1] = u /\ s[3] = c
  BY DEF UnitSlots
<1>5. ASSUME NEW s \in Slots, s[1] = u PROVE s \in UnitSlots(u, s[3])
  BY <1>5 DEF UnitSlots
<1>6. CASE InitData(u)
  <2>1. Kept("pre_receive")
    BY <1>1, <1>2, <1>3, <1>6, Pending, SlotTypes DEF InitData
  <2>2. QED
    BY <1>0, <2>1 DEF Locations
<1>7. CASE PreReceiveAll(u)
  <2>1. Kept("pre_send")
    BY <1>1, <1>2, <1>3, <1>4, <1>7, Pending, SlotTypes, RkdgOmpiAssumption DEF PreReceiveAll, ReceiveAll
  <2>2. QED
    BY <1>0, <2>1 DEF Locations
<1>8. CASE PreSendAll(u)
  <2>1. Kept("pre_post_receive")
    BY <1>1, <1>2, <1>3, <1>4, <1>8, Pending, SlotTypes, RkdgOmpiAssumption DEF PreSendAll, SendAll
  <2>2. QED
    BY <1>0, <2>1 DEF Locations
<1>9. CASE PrePostReceive(u)
  <2>1. Kept("pre_wait_sends")
    BY <1>1, <1>2, <1>3, <1>5, <1>9, Pending, SlotTypes DEF PrePostReceive, WaitAllReceives
  <2>2. QED
    BY <1>0, <2>1 DEF Locations
<1>10. CASE PreWaitSends(u)
  <2>1. Kept("launch")
    BY <1>1, <1>2, <1>3, <1>5, <1>10, Pending, SlotTypes DEF PreWaitSends, WaitAllSends
  <2>2. QED
    BY <1>0, <2>1 DEF Locations
<1>11. CASE Launch(u)
  <2>1. Kept("exchange")
    BY <1>1, <1>2, <1>3, <1>11, Pending, SlotTypes DEF Launch, Local, commVars
  <2>2. QED
    BY <1>0, <2>1 DEF Locations
<1>12. CASE Exchange(u)
  <2>1. /\ send_requests' = send_requests \cup UnitSlots(u, "bound_state")
        /\ receive_requests' = receive_requests \cup UnitSlots(u, "bound_state")
        /\ at[u] \notin SendPending("baryctr_coord") \cup ReceivePending("baryctr_coord")
        /\ Goto(u, "pre_work")
    BY <1>12, Pending DEF Exchange, SendAll, ReceiveAll
  <2>2. Kept("pre_work")
    BY <1>1, <1>2, <1>3, <1>4, <1>12, <2>1, Pending, SlotTypes, RkdgOmpiAssumption DEF Exchange
  <2>3. QED
    BY <1>0, <2>2 DEF Locations
<1>13. CASE PreWork(u)
  <2>1. Kept("receive")
    BY <1>1, <1>2, <1>3, <1>13, Pending, SlotTypes DEF PreWork, Local, commVars
  <2>2. QED
    BY <1>0, <2>1 DEF Locations
<1>14. CASE Receive(u)
  <2>1. Kept(AfterReceive)
    BY <1>1, <1>2, <1>3, <1>5, <1>14, Pending, SlotTypes
       DEF Receive, WaitAllReceives, AfterReceive, AfterWetDry
  <2>2. QED
    BY <1>0, <2>1 DEF Locations, AfterReceive, AfterWetDry
<1>15. CASE WetDry(u)
  <2>1. Kept(AfterWetDry)
    BY <1>1, <1>2, <1>3, <1>15, Pending, SlotTypes DEF WetDry, Local, commVars, AfterWetDry
  <2>2. QED
    BY <1>0, <2>1 DEF Locations, AfterWetDry
<1>16. CASE SlExchange(u)
  <2>1. /\ send_requests' = send_requests \cup UnitSlots(u, "baryctr_state")
        /\ receive_requests' = receive_requests \cup UnitSlots(u, "baryctr_state")
        /\ at[u] \notin SendPending("baryctr_coord") \cup ReceivePending("baryctr_coord")
        /\ Goto(u, "sl_work")
    BY <1>16, Pending DEF SlExchange, SendAll, ReceiveAll
  <2>2. Kept("sl_work")
    BY <1>1, <1>2, <1>3, <1>4, <1>16, <2>1, Pending, SlotTypes, RkdgOmpiAssumption DEF SlExchange
  <2>3. QED
    BY <1>0, <2>2 DEF Locations
<1>17. CASE SlWork(u)
  <2>1. Kept("sl_receive")
    BY <1>1, <1>2, <1>3, <1>17, Pending, SlotTypes DEF SlWork, Local, commVars
  <2>2. QED
    BY <1>0, <2>1 DEF Locations
<1>18. CASE SlReceive(u)
  <2>1. Kept("sl_wait_sends")
    BY <1>1, <1>2, <1>3, <1>5, <1>18, Pending, SlotTypes DEF SlReceive, WaitAllReceives
  <2>2. QED
    BY <1>0, <2>1 DEF Locations
<1>19. CASE SlWaitSends(u)
  <2>1. Kept("scrutinize")
    BY <1>1, <1>2, <1>3, <1>5, <1>19, Pending, SlotTypes DEF SlWaitSends, WaitAllSends
  <2>2. QED
    BY <1>0, <2>1 DEF Locations
<1>20. CASE Scrutinize(u)
  <2>1. CASE Local(u, "scrutinize", "wait_sends")
    <3>1. Kept("wait_sends")
      BY <1>1, <1>2, <1>3, <2>1, Pending, SlotTypes DEF Local, commVars
    <3>2. QED
      BY <1>0, <3>1 DEF Locations
  <2>2. CASE UNCHANGED <<at, send_requests, receive_requests>>
    BY <2>2, Pending DEF RequestDiscipline, SendPending, ReceivePending
  <2>3. QED
    BY <1>20, <2>1, <2>2 DEF Scrutinize, commVars
<1>21. CASE WaitSends(u)
  <2> DEFINE next == IF timestamp[u] % NumStages = 0 THEN "output" ELSE "exchange"
  <2>1. Kept(next)
    BY <1>1, <1>2, <1>3, <1>5, <1>21, Pending, SlotTypes DEF WaitSends, WaitAllSends
  <2>2. QED
    BY <1>0, <2>1 DEF Locations
<1>22. CASE Output(u)
  <2> DEFINE next == IF timestamp[u] = NumSteps * NumStages THEN "done" ELSE "exchange"
  <2>1. Kept(next)
    BY <1>1, <1>2, <1>3, <1>22, Pending, SlotTypes DEF Output, Local, commVars
  <2>2. QED
    BY <1>0, <2>1 DEF Locations
<1>23. QED
  BY <1>6, <1>7, <1>8, <1>9, <1>10, <1>11, <1>12, <1>13, <1>14, <1>15, <1>16, <1>17, <1>18,
     <1>19, <1>20, <1>21, <1>22 DEF UnitStep

LEMMA NextDiscipline == TypeOK /\ RequestDiscipline /\ [Next]_vars => RequestDiscipline'
<1> SUFFICES ASSUME TypeOK, RequestDiscipline, [Next]_vars PROVE RequestDiscipline'
  OBVIOUS
<1>1. ASSUME NEW u \in Unit, UnitStep(u) PROVE RequestDiscipline'
  BY <1>1, NextType, UnitDiscipline DEF Next
<1>2. ASSUME UNCHANGED <<at, send_requests, receive_requests>> PROVE RequestDiscipline'
  BY <1>2 DEF RequestDiscipline, SendPending, ReceivePending
<1>3. CASE Mpi
  BY <1>2, <1>3 DEF Mpi, MpiProgress, Deliver, Buffer, rkdgVars
<1>4. CASE UNCHANGED vars
  BY <1>2, <1>4 DEF vars, commVars, rkdgVars
<1>5. QED
  BY <1>1, <1>3, <1>4 DEF Next, Terminated

(* A request is active only between the call that starts it and the wait   *)
(* for its type, on every path through the preprocessor and the stages.    *)
THEOREM RequestsDisciplined == Spec => []RequestDiscipline
<1>1. Init => RequestDiscipline
  BY DEF Init, CommInit, RequestDiscipline
<1>2. QED
  BY <1>1, TypeCorrect, NextDiscipline, PTL DEF Spec

(* No kernel writes a part of a send buffer that MPI may still read: when  *)
(* the buffer of a type changes, no send of the type is active.            *)
THEOREM BuffersStable == Spec => SendBufferStable
<1> DEFINE Stable == \A u \in Unit : \A c \in CommTypes :
             send_buffer'[u][c] # send_buffer[u][c] => UnitSlots(u, c) \cap send_requests = {}
<1>1. TypeOK /\ RequestDiscipline /\ [Next]_vars => [Stable]_vars
  <2> SUFFICES ASSUME TypeOK, RequestDiscipline, [Next]_vars,
                      NEW u \in Unit, NEW c \in CommTypes,
                      send_buffer'[u][c] # send_buffer[u][c]
               PROVE  UnitSlots(u, c) \cap send_requests = {}
    OBVIOUS
  <2>1. ASSUME at[u] \notin SendPending(c) PROVE UnitSlots(u, c) \cap send_requests = {}
    BY <2>1 DEF RequestDiscipline, UnitSlots
  <2>2. \/ /\ InitData(u) /\ c = "baryctr_coord"
        \/ /\ Exchange(u) /\ c = "bound_state"
        \/ /\ SlExchange(u) /\ c = "baryctr_state"
    <3>1. ASSUME NEW w \in Unit, NEW type \in CommTypes, NEW ts, SetToSendBuffer(w, type, ts)
          PROVE  w = u /\ type = c
      BY <3>1 DEF SetToSendBuffer, TypeOK, CommTypeOK
    <3>2. send_buffer' # send_buffer
      OBVIOUS
    <3>3. ~Mpi /\ ~Terminated /\ vars' # vars
      BY <3>2 DEF Mpi, MpiProgress, Deliver, Buffer, Terminated, vars, commVars
    <3>4. PICK w \in Unit : UnitStep(w)
      BY <3>3 DEF Next
    <3>5. InitData(w) \/ Exchange(w) \/ SlExchange(w)
      BY <3>2, <3>4
         DEF UnitStep, PreReceiveAll, PreSendAll, PrePostReceive, PreWaitSends, Launch, PreWork,
             Receive, WetDry, SlWork, SlReceive, SlWaitSends, Scrutinize, WaitSends, Output,
             Local, commVars
    <3>6. QED
      BY <3>1, <3>5, RkdgOmpiAssumption DEF InitData, Exchange, SlExchange
  <2>3. at[u] \notin SendPending(c)
    BY <2>2, Pending DEF InitData, Exchange, SlExchange
  <2>4. QED
    BY <2>1, <2>3
<1>2. QED
  BY <1>1, TypeCorrect, RequestsDisciplined, PTL DEF Spec, SendBufferStable

-----------------------------------------------------------------------------
(* The messages between two submeshes.                                     *)

(* The rounds for which a submesh has started its receives.                *)
AskedRounds(v) ==
  ConsumedRounds(v) +
    (IF at[v] \in {"pre_send", "pre_post_receive", "pre_work", "receive", "sl_work", "sl_receive"}
     THEN 1 ELSE 0)

(* What a submesh knows of its own progress.                               *)
Chain(u) ==
  /\ at[u] \in BeforePostReceive \cup {"pre_wait_sends", "launch"} => timestamp[u] = 0
  /\ at[u] \in LimiterPending \cup {"sl_wait_sends", "scrutinize", "wait_sends", "output", "done"} =>
       timestamp[u] > 0
  /\ at[u] \in {"sl_exchange", "sl_work", "sl_receive", "sl_wait_sends"} => SlopeLimiting
  /\ at[u] = "done" => timestamp[u] = NumSteps * NumStages
  /\ at[u] \in {"pre_receive", "pre_send"} => send_buffer[u]["baryctr_coord"] = 0

(* The messages from u to v that are delivered: v has asked for one round  *)
(* after the other, and waits for each before it asks for the next.        *)
Delivered(u, v) == AskedRounds(v) - Len(posted[SendEnvelope(u, v)])

(* m is the message of round r from u to v.  Until MPI has read it, it is  *)
(* in the send buffer, which still holds what was sent.                    *)
OfRound(m, u, v, r) ==
  \E c \in CommTypes, ts \in Nat :
    /\ RoundOf(Written(u, v, c, ts)) = r
    /\ c = "baryctr_coord" => ts = 0
    /\ c = "baryctr_state" => SlopeLimiting /\ ts > 0
    /\ m.slot = <<u, v, c>>
    /\ IF m.data = NotRead THEN <<u, v, c>> \in unsent /\ send_buffer[u][c] = ts
       ELSE m.data = Written(u, v, c, ts)

(* The network holds the rounds sent and not delivered, in their order.    *)
InOrder(u, v) ==
  /\ Len(network[SendEnvelope(u, v)]) = PostedRounds(u) - Delivered(u, v)
  /\ \A i \in DOMAIN network[SendEnvelope(u, v)] :
       OfRound(network[SendEnvelope(u, v)][i], u, v, Delivered(u, v) + i)

(* At most one receive is posted, of the round v waits for.                *)
OneReceive(u, v) ==
  \/ posted[SendEnvelope(u, v)] = <<>>
  \/ \E c \in CommTypes :
       /\ posted[SendEnvelope(u, v)] = << <<v, u, c>> >>
       /\ at[v] \in ReceivePending(c)
       /\ <<v, u, c>> \in unreceived

(* A receive that is complete has brought the data v waits for.            *)
Arrived(u, v) ==
  \A c \in CommTypes : at[v] \in ReceivePending(c) /\ <<v, u, c>> \notin unreceived =>
    receive_buffer[<<v, u, c>>] = Written(u, v, c, timestamp[v])

Link(u, v) == InOrder(u, v) /\ OneReceive(u, v) /\ Arrived(u, v)

IInv ==
  /\ TypeOK
  /\ RequestDiscipline
  /\ \A u \in Unit : Chain(u)
  /\ \A v \in Unit : \A u \in Neigh[v] : Link(u, v)
  /\ ~mpi_error
  /\ FreshData

-----------------------------------------------------------------------------
(* One rank boundary, from u to v.                                         *)

(* A round is of one type and stamp.                                       *)
LEMMA RoundsApart ==
  ASSUME NEW u, NEW v, NEW c \in CommTypes, NEW d \in CommTypes, NEW s \in Nat, NEW t \in Nat,
         c = "baryctr_coord" => s = 0, c = "baryctr_state" => SlopeLimiting /\ s > 0,
         d = "baryctr_coord" => t = 0, d = "baryctr_state" => SlopeLimiting /\ t > 0,
         RoundOf(Written(u, v, c, s)) = RoundOf(Written(u, v, d, t))
  PROVE  c = d /\ s = t
<1>1. ASSUME NEW x \in CommTypes, NEW y \in Nat
      PROVE  RoundOf(Written(u, v, x, y)) =
               IF x = "baryctr_coord" THEN 1
               ELSE IF x = "bound_state" THEN 2 + PerStage * y ELSE 1 + PerStage * y
  BY RkdgOmpiAssumption DEF RoundOf, Written
<1>2. CASE SlopeLimiting
  <2>1. PerStage = 2
    BY <1>2 DEF PerStage
  <2> QED
    BY <1>1, <2>1, RkdgOmpiAssumption
<1>3. CASE ~SlopeLimiting
  <2>1. PerStage = 1
    BY <1>3 DEF PerStage
  <2> QED
    BY <1>1, <1>3, <2>1, RkdgOmpiAssumption
<1> QED
  BY <1>2, <1>3

(* The round for which a submesh waits.                                    *)
LEMMA AwaitedRound ==
  ASSUME TypeOK, NEW v \in Unit, Chain(v), NEW u, NEW c \in CommTypes, at[v] \in ReceivePending(c)
  PROVE  /\ AskedRounds(v) = RoundOf(Written(u, v, c, timestamp[v]))
         /\ c = "baryctr_coord" => timestamp[v] = 0
         /\ c = "baryctr_state" => SlopeLimiting /\ timestamp[v] > 0
<1> DEFINE L == PerStage * timestamp[v]
<1>1. timestamp[v] \in Nat /\ L \in Nat
  BY DEF TypeOK, PerStage
<1> HIDE DEF L
<1> USE DEF AskedRounds, ConsumedRounds, BeforePostReceive, LimiterPending, RoundOf, Written, Chain
<1>2. CASE c = "baryctr_coord"
  BY <1>1, <1>2, Pending
<1>3. CASE c = "bound_state"
  <2>1. at[v] \in {"pre_work", "receive"}
    BY <1>3, Pending
  <2> QED
    BY <1>1, <1>3, <2>1 DEF L
<1>4. CASE c = "baryctr_state"
  <2>1. at[v] \in {"sl_work", "sl_receive"}
    BY <1>4, Pending
  <2> QED
    BY <1>1, <1>4, <2>1 DEF L
<1> QED
  BY <1>2, <1>3, <1>4, RkdgOmpiAssumption

LEMMA RoundsType ==
  ASSUME TypeOK, NEW u \in Unit
  PROVE  PostedRounds(u) \in Int /\ AskedRounds(u) \in Int
BY DEF TypeOK, PerStage, PostedRounds, AskedRounds, ConsumedRounds

(* The sender has done nothing to its messages.                            *)
LEMMA KeepOrder ==
  ASSUME NEW u \in Unit, NEW v \in Unit, InOrder(u, v),
         network'[SendEnvelope(u, v)] = network[SendEnvelope(u, v)],
         PostedRounds(u)' = PostedRounds(u), Delivered(u, v)' = Delivered(u, v),
         \A c \in CommTypes : <<u, v, c>> \in unsent =>
           <<u, v, c>> \in unsent' /\ send_buffer'[u][c] = send_buffer[u][c]
  PROVE  InOrder(u, v)'
<1> DEFINE e == SendEnvelope(u, v)
<1>1. ASSUME NEW m, NEW r, OfRound(m, u, v, r) PROVE OfRound(m, u, v, r)'
  BY <1>1 DEF OfRound
<1>2. SendEnvelope(u, v)' = e
  BY DEF SendEnvelope, Tag
<1> QED
  BY <1>1, <1>2 DEF InOrder

(* The sender starts the message of the next round.                        *)
LEMMA SendOrder ==
  ASSUME NEW u \in Unit, NEW v \in Unit, TypeOK, TypeOK', InOrder(u, v),
         SendEnvelope(u, v) \in Envelopes, NEW c \in CommTypes, NEW ts \in Nat,
         network'[SendEnvelope(u, v)] =
           Append(network[SendEnvelope(u, v)], [slot |-> <<u, v, c>>, data |-> NotRead]),
         PostedRounds(u)' = PostedRounds(u) + 1, Delivered(u, v)' = Delivered(u, v),
         RoundOf(Written(u, v, c, ts)) = PostedRounds(u) + 1,
         c = "baryctr_coord" => ts = 0, c = "baryctr_state" => SlopeLimiting /\ ts > 0,
         <<u, v, c>> \notin unsent, <<u, v, c>> \in unsent', send_buffer'[u][c] = ts,
         \A d \in CommTypes : <<u, v, d>> \in unsent =>
           <<u, v, d>> \in unsent' /\ send_buffer'[u][d] = send_buffer[u][d]
  PROVE  InOrder(u, v)'
<1> DEFINE e == SendEnvelope(u, v)
           n == network[e]
           D == Delivered(u, v)
           new == [slot |-> <<u, v, c>>, data |-> NotRead]
<1>1. n \in Seq(Message) /\ PostedRounds(u) \in Int
  BY RoundsType DEF TypeOK, CommTypeOK
<1>2. ASSUME NEW m, NEW r, OfRound(m, u, v, r) PROVE OfRound(m, u, v, r)'
  BY <1>2 DEF OfRound
<1>3. ASSUME NEW m, NEW r, m = new, r = PostedRounds(u) + 1 PROVE OfRound(m, u, v, r)'
  BY <1>3 DEF OfRound
<1>4. D \in Int /\ Len(n) = PostedRounds(u) - D
  <2>1. posted[e] \in Seq(Slots)
    BY DEF TypeOK, CommTypeOK
  <2> QED
    BY <2>1, RoundsType DEF Delivered, InOrder
<1>5. /\ network'[e] = Append(n, new) /\ Len(network'[e]) = Len(n) + 1
      /\ DOMAIN network'[e] = 1 .. Len(n) + 1
      /\ \A i \in 1 .. Len(n) : network'[e][i] = n[i]
      /\ network'[e][Len(n) + 1] = new
  <2> HIDE DEF n, new
  <2> QED
    BY <1>1 DEF n, new
<1>6. ASSUME NEW i \in 1 .. Len(n) + 1, NEW m, NEW r, m = network'[e][i], r = D + i
      PROVE  OfRound(m, u, v, r)'
  <2>1. CASE i \in 1 .. Len(n)
    <3>1. i \in DOMAIN n /\ m = n[i]
      BY <1>1, <1>5, <1>6, <2>1
    <3>2. OfRound(m, u, v, r)
      BY <1>6, <3>1 DEF InOrder
    <3> QED
      BY <1>2, <3>2
  <2>2. CASE i = Len(n) + 1
    <3>1. m = new /\ r = PostedRounds(u) + 1
      BY <1>1, <1>4, <1>5, <1>6, <2>2
    <3> QED
      BY <1>3, <3>1
  <2> QED
    BY <1>1, <2>1, <2>2
<1>7. SendEnvelope(u, v)' = e /\ Len(n) + 1 = PostedRounds(u) + 1 - D
  BY <1>1, <1>4 DEF SendEnvelope, Tag
<1>8. Len(network'[e]) = PostedRounds(u)' - Delivered(u, v)'
  <2>1. Len(network'[e]) = PostedRounds(u) + 1 - D
    BY <1>5, <1>7
  <2>2. PostedRounds(u)' = PostedRounds(u) + 1 /\ Delivered(u, v)' = D
    OBVIOUS
  <2>3. PostedRounds(u)' \in Int /\ Delivered(u, v)' \in Int
    BY <1>1, <1>4
  <2> HIDE DEF D, e, n
  <2> QED
    BY <1>1, <1>4, <2>1, <2>2, <2>3
<1>9. (\A i \in DOMAIN network[e] : OfRound(network[e][i], u, v, Delivered(u, v) + i))'
  BY <1>5, <1>6
<1> QED
  BY <1>7, <1>8, <1>9 DEF InOrder

(* A message that MPI reads leaves the other rounds as they are.           *)
LEMMA OtherRound ==
  ASSUME NEW u, NEW v, NEW m, NEW r, NEW n, NEW s, OfRound(m, u, v, r), OfRound(n, u, v, s), r # s,
         unsent' = unsent \/ (m.data = NotRead /\ unsent' = unsent \ {m.slot}),
         send_buffer' = send_buffer
  PROVE  OfRound(n, u, v, s)'
<1>1. PICK c \in CommTypes, t \in Nat :
        /\ RoundOf(Written(u, v, c, t)) = s
        /\ c = "baryctr_coord" => t = 0
        /\ c = "baryctr_state" => SlopeLimiting /\ t > 0
        /\ n.slot = <<u, v, c>>
        /\ IF n.data = NotRead THEN <<u, v, c>> \in unsent /\ send_buffer[u][c] = t
           ELSE n.data = Written(u, v, c, t)
  BY DEF OfRound
<1>2. n.data = NotRead => <<u, v, c>> \in unsent'
  <2> SUFFICES ASSUME n.data = NotRead, m.data = NotRead, m.slot = <<u, v, c>> PROVE FALSE
    BY <1>1
  <2>1. RoundOf(Written(u, v, c, send_buffer[u][c])) = r
    BY DEF OfRound
  <2> QED
    BY <1>1, <2>1
<1>3. \E d \in CommTypes, x \in Nat :
        /\ RoundOf(Written(u, v, d, x)) = s
        /\ d = "baryctr_coord" => x = 0
        /\ d = "baryctr_state" => SlopeLimiting /\ x > 0
        /\ n.slot = <<u, v, d>>
        /\ IF n.data = NotRead THEN <<u, v, d>> \in unsent' /\ send_buffer'[u][d] = x
           ELSE n.data = Written(u, v, d, x)
  BY <1>1, <1>2
<1> QED
  BY <1>3 DEF OfRound

LEMMA DeliveredType ==
  ASSUME TypeOK, NEW v \in Unit, NEW u \in Neigh[v]
  PROVE  Delivered(u, v) \in Int /\ PostedRounds(u) \in Int /\ AskedRounds(v) \in Int
<1>1. posted[SendEnvelope(u, v)] \in Seq(Slots) /\ u \in Unit
  BY EnvelopeOf DEF TypeOK, CommTypeOK
<1> QED
  BY <1>1, RoundsType DEF Delivered

(* MPI reads a message: it now carries the data of its round.              *)
LEMMA ReadOrder ==
  ASSUME TypeOK, NEW v \in Unit, NEW u \in Neigh[v], InOrder(u, v),
         NEW i \in DOMAIN network[SendEnvelope(u, v)], Buffer(SendEnvelope(u, v), i),
         UNCHANGED rkdgVars
  PROVE  InOrder(u, v)'
<1> DEFINE e == SendEnvelope(u, v)
           n == network[e]
           D == Delivered(u, v)
<1>1. n \in Seq(Message) /\ e \in Envelopes /\ D \in Int
  BY EnvelopeOf, DeliveredType DEF TypeOK, CommTypeOK
<1>2. /\ network'[e] = [n EXCEPT ![i].data = Content(n[i].slot)]
      /\ unsent' = unsent \ {n[i].slot} /\ n[i].data = NotRead
      /\ send_buffer' = send_buffer /\ posted' = posted
  BY <1>1 DEF Buffer, TypeOK, CommTypeOK
<1>3. PostedRounds(u)' = PostedRounds(u)
  BY DEF PostedRounds, ConsumedRounds, rkdgVars
<1>4. Delivered(u, v)' = D
  BY <1>2 DEF Delivered, AskedRounds, ConsumedRounds, rkdgVars, SendEnvelope, Tag
<1>5. DOMAIN network'[e] = DOMAIN n /\ Len(network'[e]) = Len(n)
  <2> HIDE DEF e, n
  <2> QED
    BY <1>1, <1>2
<1>6. i \in 1 .. Len(n) /\ n[i] \in Message
  BY <1>1
<1>7. ASSUME NEW r, NEW m, r = D + i, m = network'[e][i] PROVE OfRound(m, u, v, r)'
  <2>1. PICK c \in CommTypes, t \in Nat :
          /\ RoundOf(Written(u, v, c, t)) = r
          /\ c = "baryctr_coord" => t = 0
          /\ c = "baryctr_state" => SlopeLimiting /\ t > 0
          /\ n[i].slot = <<u, v, c>> /\ send_buffer[u][c] = t
    BY <1>2, <1>7 DEF InOrder, OfRound
  <2>2. m = [slot |-> <<u, v, c>>, data |-> Written(u, v, c, t)]
    <3>1. network'[e][i] = [n[i] EXCEPT !.data = Content(n[i].slot)]
      BY <1>1, <1>2, <1>6
    <3>2. Content(n[i].slot) = Written(u, v, c, t)
      BY <2>1 DEF Content
    <3> QED
      BY <1>6, <1>7, <2>1, <3>1, <3>2 DEF Message
  <2>3. Written(u, v, c, t) # NotRead
    BY <2>1, RkdgOmpiAssumption DEF Written, NotRead
  <2> QED
    BY <2>1, <2>2, <2>3 DEF OfRound
<1>8. ASSUME NEW j \in DOMAIN n, NEW r, NEW m, r = D + j, m = network'[e][j] PROVE OfRound(m, u, v, r)'
  <2>1. CASE j = i
    BY <1>7, <1>8, <2>1
  <2>2. CASE j # i
    <3>1. m = n[j]
      BY <1>1, <1>2, <1>8, <2>2
    <3>2. D + i # D + j
      BY <1>1, <1>6, <2>2
    <3>3. OfRound(n[i], u, v, D + i) /\ OfRound(n[j], u, v, D + j)
      BY DEF InOrder
    <3> HIDE DEF D, n, e
    <3> QED
      BY <1>2, <1>8, <3>1, <3>2, <3>3, OtherRound
  <2> QED
    BY <2>1, <2>2
<1>9. SendEnvelope(u, v)' = e /\ Len(n) = PostedRounds(u) - D
  BY DEF SendEnvelope, Tag, InOrder
<1>10. Len(network'[e]) = PostedRounds(u)' - Delivered(u, v)'
  BY <1>3, <1>4, <1>5, <1>9
<1>11. (\A j \in DOMAIN network[e] : OfRound(network[e][j], u, v, Delivered(u, v) + j))'
  BY <1>4, <1>5, <1>8
<1> QED
  BY <1>9, <1>10, <1>11 DEF InOrder

(* A submesh waits for the receives of one type at a time.                 *)
LEMMA OneType ==
  ASSUME NEW x, NEW c \in CommTypes, NEW d \in CommTypes, x \in ReceivePending(c), x \in ReceivePending(d)
  PROVE  c = d
BY Pending, RkdgOmpiAssumption

(* The oldest message is of the round whose receive is posted.             *)
LEMMA OldestMessage ==
  ASSUME TypeOK, NEW v \in Unit, NEW u \in Neigh[v], Link(u, v), Chain(v),
         network[SendEnvelope(u, v)] # <<>>, posted[SendEnvelope(u, v)] # <<>>
  PROVE  \E c \in CommTypes :
           /\ posted[SendEnvelope(u, v)] = << <<v, u, c>> >> /\ at[v] \in ReceivePending(c)
           /\ <<v, u, c>> \in unreceived
           /\ Head(network[SendEnvelope(u, v)]).slot = <<u, v, c>>
           /\ IF Head(network[SendEnvelope(u, v)]).data = NotRead
              THEN Content(Head(network[SendEnvelope(u, v)]).slot) = Written(u, v, c, timestamp[v])
              ELSE Head(network[SendEnvelope(u, v)]).data = Written(u, v, c, timestamp[v])
<1> DEFINE e == SendEnvelope(u, v)
           n == network[e]
<1>1. PICK c \in CommTypes :
        /\ posted[e] = << <<v, u, c>> >> /\ at[v] \in ReceivePending(c) /\ <<v, u, c>> \in unreceived
  BY DEF Link, OneReceive
<1>2. n \in Seq(Message) /\ e \in Envelopes /\ Delivered(u, v) \in Int /\ AskedRounds(v) \in Int
  BY EnvelopeOf, DeliveredType DEF TypeOK, CommTypeOK
<1>3. 1 \in DOMAIN n /\ Head(n) = n[1]
  <2> HIDE DEF n
  <2> QED
    BY <1>2 DEF n
<1>4. Delivered(u, v) + 1 = AskedRounds(v)
  <2>1. Len(posted[e]) = 1
    BY <1>1
  <2> QED
    BY <1>2, <2>1 DEF Delivered
<1>5. PICK d \in CommTypes, t \in Nat :
        /\ RoundOf(Written(u, v, d, t)) = AskedRounds(v)
        /\ d = "baryctr_coord" => t = 0
        /\ d = "baryctr_state" => SlopeLimiting /\ t > 0
        /\ n[1].slot = <<u, v, d>>
        /\ IF n[1].data = NotRead THEN <<u, v, d>> \in unsent /\ send_buffer[u][d] = t
           ELSE n[1].data = Written(u, v, d, t)
  BY <1>3, <1>4 DEF Link, InOrder, OfRound
<1>6. d = c /\ t = timestamp[v]
  <2>1. /\ AskedRounds(v) = RoundOf(Written(u, v, c, timestamp[v]))
        /\ c = "baryctr_coord" => timestamp[v] = 0
        /\ c = "baryctr_state" => SlopeLimiting /\ timestamp[v] > 0
        /\ timestamp[v] \in Nat
    BY <1>1, AwaitedRound DEF TypeOK
  <2> QED
    BY <1>5, <2>1, RoundsApart
<1>7. n[1].data = NotRead => Content(n[1].slot) = Written(u, v, c, timestamp[v])
  BY <1>5, <1>6 DEF Content
<1> QED
  BY <1>1, <1>3, <1>5, <1>6, <1>7

(* MPI delivers a message: it is what the receiver waits for.              *)
LEMMA DeliverLink ==
  ASSUME TypeOK, NEW v \in Unit, NEW u \in Neigh[v], Link(u, v), Chain(v),
         Deliver(SendEnvelope(u, v)), UNCHANGED rkdgVars
  PROVE  Link(u, v)' /\ mpi_error' = mpi_error
<1> DEFINE e == SendEnvelope(u, v)
           n == network[e]
           D == Delivered(u, v)
<1>1. n \in Seq(Message) /\ n # <<>> /\ e \in Envelopes /\ D \in Int /\ AskedRounds(v) \in Int
      /\ u \in Unit /\ posted[e] # <<>>
  BY EnvelopeOf, DeliveredType DEF TypeOK, CommTypeOK, Deliver
<1>2. PICK c \in CommTypes :
        /\ posted[e] = << <<v, u, c>> >> /\ at[v] \in ReceivePending(c) /\ <<v, u, c>> \in unreceived
        /\ Head(n).slot = <<u, v, c>>
        /\ IF Head(n).data = NotRead THEN Content(Head(n).slot) = Written(u, v, c, timestamp[v])
           ELSE Head(n).data = Written(u, v, c, timestamp[v])
  BY <1>1, OldestMessage
<1>3. <<v, u, c>> \in Slots
  BY <1>1, <1>2 DEF Slots
<1>4. /\ receive_buffer' = [receive_buffer EXCEPT ![<<v, u, c>>] = Written(u, v, c, timestamp[v])]
      /\ unreceived' = unreceived \ {<<v, u, c>>}
      /\ mpi_error' = (mpi_error \/ Written(u, v, c, timestamp[v]).comm # c)
      /\ network'[e] = Tail(n) /\ posted'[e] = <<>>
      /\ unsent' = unsent \/ (Head(n).data = NotRead /\ unsent' = unsent \ {Head(n).slot})
      /\ send_buffer' = send_buffer
  <2> DEFINE d == IF Head(n).data = NotRead THEN Content(Head(n).slot) ELSE Head(n).data
  <2>1. Head(posted[e]) = <<v, u, c>> /\ Tail(posted[e]) = <<>> /\ d = Written(u, v, c, timestamp[v])
    BY <1>2
  <2>2. /\ receive_buffer' = [receive_buffer EXCEPT ![Head(posted[e])] = d]
        /\ unreceived' = unreceived \ {Head(posted[e])}
        /\ mpi_error' = (mpi_error \/ d.comm # Head(posted[e])[3])
        /\ unsent' = IF Head(n).data = NotRead THEN unsent \ {Head(n).slot} ELSE unsent
        /\ network' = [network EXCEPT ![e] = Tail(n)]
        /\ posted' = [posted EXCEPT ![e] = Tail(posted[e])]
        /\ send_buffer' = send_buffer
    BY DEF Deliver
  <2>3. network'[e] = Tail(n) /\ posted'[e] = Tail(posted[e])
    BY <1>1, <2>2 DEF TypeOK, CommTypeOK
  <2>4. <<v, u, c>>[3] = c
    OBVIOUS
  <2> HIDE DEF d, n, e
  <2>5. /\ receive_buffer' = [receive_buffer EXCEPT ![<<v, u, c>>] = Written(u, v, c, timestamp[v])]
        /\ unreceived' = unreceived \ {<<v, u, c>>}
        /\ mpi_error' = (mpi_error \/ Written(u, v, c, timestamp[v]).comm # c)
    BY <2>1, <2>2, <2>4
  <2>6. unsent' = unsent \/ (Head(n).data = NotRead /\ unsent' = unsent \ {Head(n).slot})
    BY <2>2
  <2> QED
    BY <2>1, <2>2, <2>3, <2>5, <2>6
<1>5. mpi_error' = mpi_error
  BY <1>4 DEF Written, TypeOK, CommTypeOK
<1>6. SendEnvelope(u, v)' = e
  BY DEF SendEnvelope, Tag
<1>7. PostedRounds(u)' = PostedRounds(u) /\ AskedRounds(v)' = AskedRounds(v)
  BY DEF PostedRounds, AskedRounds, ConsumedRounds, rkdgVars
<1>8. D = AskedRounds(v) - 1 /\ Delivered(u, v)' = D + 1
  <2>1. Len(posted[e]) = 1 /\ Len(posted'[e]) = 0
    BY <1>2, <1>4
  <2>2. D = AskedRounds(v) - Len(posted[e])
    BY DEF Delivered
  <2>3. Delivered(u, v)' = AskedRounds(v)' - Len(posted'[e])
    BY <1>6 DEF Delivered
  <2> HIDE DEF D, e
  <2> QED
    BY <1>1, <1>7, <2>1, <2>2, <2>3
<1>9. /\ Len(n) \in Nat \ {0} /\ Len(Tail(n)) = Len(n) - 1 /\ DOMAIN Tail(n) = 1 .. Len(n) - 1
      /\ Head(n) = n[1] /\ \A j \in 1 .. Len(n) - 1 : Tail(n)[j] = n[j + 1] /\ j + 1 \in DOMAIN n
      /\ 1 \in DOMAIN n
  <2> HIDE DEF n
  <2> QED
    BY <1>1
<1>10. InOrder(u, v)'
  <2>1. Len(n) = PostedRounds(u) - D /\ PostedRounds(u) \in Int
    BY DeliveredType DEF Link, InOrder
  <2>2. Len(network'[e]) = PostedRounds(u)' - Delivered(u, v)'
    BY <1>1, <1>4, <1>7, <1>8, <1>9, <2>1
  <2>3. ASSUME NEW j \in 1 .. Len(n) - 1, NEW r, NEW m, r = D + 1 + j, m = network'[e][j]
        PROVE  OfRound(m, u, v, r)'
    <3>1. m = n[j + 1] /\ j + 1 \in DOMAIN n
      BY <1>4, <1>9, <2>3
    <3>2. r = D + (j + 1) /\ D + 1 # r
      BY <1>1, <2>3
    <3>3. OfRound(n[1], u, v, D + 1) /\ OfRound(m, u, v, r)
      BY <1>9, <3>1, <3>2 DEF Link, InOrder
    <3> HIDE DEF D, n, e
    <3> QED
      BY <1>4, <1>9, <3>2, <3>3, OtherRound
  <2>4. (\A j \in DOMAIN network[e] : OfRound(network[e][j], u, v, Delivered(u, v) + j))'
    BY <1>4, <1>8, <1>9, <2>3
  <2> QED
    BY <1>6, <2>2, <2>4 DEF InOrder
<1>11. OneReceive(u, v)'
  BY <1>4, <1>6 DEF OneReceive
<1>12. Arrived(u, v)'
  <2>1. at' = at /\ timestamp' = timestamp
    BY DEF rkdgVars
  <2>2. ASSUME NEW d \in CommTypes, at[v] \in ReceivePending(d)
        PROVE  receive_buffer'[<<v, u, d>>] = Written(u, v, d, timestamp[v])
    BY <1>2, <1>3, <1>4, <2>2, OneType DEF TypeOK, CommTypeOK
  <2>3. \A d \in CommTypes : ReceivePending(d)' = ReceivePending(d)
    BY DEF ReceivePending
  <2> QED
    BY <2>1, <2>2, <2>3 DEF Arrived
<1> QED
  BY <1>5, <1>10, <1>11, <1>12 DEF Link

-----------------------------------------------------------------------------
(* What a step may do to the two ends of a rank boundary.                  *)

(* The sender goes on without sending, and leaves unread messages alone.   *)
SenderKeeps(u, v) ==
  /\ network'[SendEnvelope(u, v)] = network[SendEnvelope(u, v)]
  /\ PostedRounds(u)' = PostedRounds(u)
  /\ \A c \in CommTypes : <<u, v, c>> \in unsent =>
       <<u, v, c>> \in unsent' /\ send_buffer'[u][c] = send_buffer[u][c]

(* The sender starts the message of its next round.                        *)
SenderSends(u, v) ==
  \E c \in CommTypes, ts \in Nat :
    /\ network'[SendEnvelope(u, v)] =
         Append(network[SendEnvelope(u, v)], [slot |-> <<u, v, c>>, data |-> NotRead])
    /\ PostedRounds(u)' = PostedRounds(u) + 1
    /\ RoundOf(Written(u, v, c, ts)) = PostedRounds(u) + 1
    /\ c = "baryctr_coord" => ts = 0
    /\ c = "baryctr_state" => SlopeLimiting /\ ts > 0
    /\ <<u, v, c>> \notin unsent /\ <<u, v, c>> \in unsent' /\ send_buffer'[u][c] = ts
    /\ \A d \in CommTypes : <<u, v, d>> \in unsent =>
         <<u, v, d>> \in unsent' /\ send_buffer'[u][d] = send_buffer[u][d]

(* The receiver goes on without starting or ending a receive.              *)
ReceiverKeeps(u, v) ==
  /\ posted'[SendEnvelope(u, v)] = posted[SendEnvelope(u, v)]
  /\ AskedRounds(v)' = AskedRounds(v)
  /\ timestamp'[v] = timestamp[v]
  /\ \A c \in CommTypes :
       /\ at'[v] \in ReceivePending(c) <=> at[v] \in ReceivePending(c)
       /\ <<v, u, c>> \in unreceived' <=> <<v, u, c>> \in unreceived
       /\ receive_buffer'[<<v, u, c>>] = receive_buffer[<<v, u, c>>]

(* The receiver starts a receive.                                          *)
ReceiverAsks(u, v) ==
  /\ \A c \in CommTypes : at[v] \notin ReceivePending(c)
  /\ AskedRounds(v)' = AskedRounds(v) + 1
  /\ \E c \in CommTypes :
       /\ posted'[SendEnvelope(u, v)] = Append(posted[SendEnvelope(u, v)], <<v, u, c>>)
       /\ at'[v] \in ReceivePending(c)
       /\ <<v, u, c>> \in unreceived'

(* The receiver has waited for its receive.                                *)
ReceiverTakes(u, v) ==
  /\ posted'[SendEnvelope(u, v)] = posted[SendEnvelope(u, v)]
  /\ AskedRounds(v)' = AskedRounds(v)
  /\ \E c \in CommTypes : at[v] \in ReceivePending(c) /\ <<v, u, c>> \notin unreceived
  /\ \A c \in CommTypes : at'[v] \notin ReceivePending(c)

(* The receiver's step keeps its side, and what counts as delivered.       *)
LEMMA ReceiverSide ==
  ASSUME TypeOK, NEW v \in Unit, NEW u \in Neigh[v], Link(u, v),
         ReceiverKeeps(u, v) \/ ReceiverAsks(u, v) \/ ReceiverTakes(u, v)
  PROVE  OneReceive(u, v)' /\ Arrived(u, v)' /\ Delivered(u, v)' = Delivered(u, v)
<1> DEFINE e == SendEnvelope(u, v)
<1>1. posted[e] \in Seq(Slots) /\ AskedRounds(v) \in Int
  BY EnvelopeOf, DeliveredType DEF TypeOK, CommTypeOK
<1>2. SendEnvelope(u, v)' = e /\ \A c \in CommTypes : ReceivePending(c)' = ReceivePending(c)
  BY DEF SendEnvelope, Tag, ReceivePending
<1>3. \/ posted[e] = <<>>
      \/ \E c \in CommTypes :
            posted[e] = << <<v, u, c>> >> /\ at[v] \in ReceivePending(c) /\ <<v, u, c>> \in unreceived
  BY DEF Link, OneReceive
<1>4. CASE ReceiverKeeps(u, v)
  <2>1. OneReceive(u, v)'
    BY <1>2, <1>3, <1>4 DEF OneReceive, ReceiverKeeps
  <2>2. Arrived(u, v)'
    BY <1>2, <1>4 DEF Link, Arrived, ReceiverKeeps
  <2>3. Delivered(u, v)' = Delivered(u, v)
    BY <1>2, <1>4 DEF Delivered, ReceiverKeeps
  <2> QED
    BY <2>1, <2>2, <2>3
<1>5. CASE ReceiverAsks(u, v)
  <2>1. posted[e] = <<>>
    BY <1>3, <1>5 DEF ReceiverAsks
  <2>2. PICK c \in CommTypes :
          /\ posted'[e] = Append(posted[e], <<v, u, c>>) /\ at'[v] \in ReceivePending(c)
          /\ <<v, u, c>> \in unreceived'
    BY <1>5 DEF ReceiverAsks
  <2>3. posted'[e] = << <<v, u, c>> >> /\ Len(posted'[e]) = 1 /\ Len(posted[e]) = 0
    BY <2>1, <2>2
  <2>4. OneReceive(u, v)'
    BY <1>2, <2>2, <2>3 DEF OneReceive
  <2>5. \A d \in CommTypes : at'[v] \in ReceivePending(d) => d = c
    BY <2>2, OneType
  <2>6. Arrived(u, v)'
    BY <1>2, <2>2, <2>5 DEF Arrived
  <2>7. /\ Delivered(u, v) = AskedRounds(v) - Len(posted[e])
        /\ Delivered(u, v)' = AskedRounds(v)' - Len(posted'[e])
        /\ AskedRounds(v)' = AskedRounds(v) + 1
    BY <1>2, <1>5 DEF Delivered, ReceiverAsks
  <2>8. Delivered(u, v)' = Delivered(u, v)
    <3> HIDE DEF e
    <3> QED
      BY <1>1, <2>3, <2>7
  <2> QED
    BY <2>4, <2>6, <2>8
<1>6. CASE ReceiverTakes(u, v)
  <2>1. posted[e] = <<>>
    BY <1>3, <1>6, OneType DEF ReceiverTakes
  <2>2. OneReceive(u, v)' /\ Arrived(u, v)'
    BY <1>2, <1>6, <2>1 DEF OneReceive, Arrived, ReceiverTakes
  <2>3. Delivered(u, v)' = Delivered(u, v)
    BY <1>2, <1>6 DEF Delivered, ReceiverTakes
  <2> QED
    BY <2>2, <2>3
<1> QED
  BY <1>4, <1>5, <1>6

LEMMA LinkKept ==
  ASSUME TypeOK, TypeOK', NEW v \in Unit, NEW u \in Neigh[v], Link(u, v),
         ReceiverKeeps(u, v) \/ ReceiverAsks(u, v) \/ ReceiverTakes(u, v),
         SenderKeeps(u, v) \/ SenderSends(u, v)
  PROVE  Link(u, v)'
<1>1. OneReceive(u, v)' /\ Arrived(u, v)' /\ Delivered(u, v)' = Delivered(u, v)
  BY ReceiverSide
<1>2. u \in Unit /\ SendEnvelope(u, v) \in Envelopes /\ InOrder(u, v)
  BY EnvelopeOf DEF Link
<1>3. CASE SenderKeeps(u, v)
  <2>1. InOrder(u, v)'
    BY <1>1, <1>2, <1>3, KeepOrder DEF SenderKeeps
  <2> QED
    BY <1>1, <2>1 DEF Link
<1>4. CASE SenderSends(u, v)
  <2>1. PICK c \in CommTypes, ts \in Nat :
          /\ network'[SendEnvelope(u, v)] =
               Append(network[SendEnvelope(u, v)], [slot |-> <<u, v, c>>, data |-> NotRead])
          /\ PostedRounds(u)' = PostedRounds(u) + 1
          /\ RoundOf(Written(u, v, c, ts)) = PostedRounds(u) + 1
          /\ c = "baryctr_coord" => ts = 0
          /\ c = "baryctr_state" => SlopeLimiting /\ ts > 0
          /\ <<u, v, c>> \notin unsent /\ <<u, v, c>> \in unsent' /\ send_buffer'[u][c] = ts
          /\ \A d \in CommTypes : <<u, v, d>> \in unsent =>
               <<u, v, d>> \in unsent' /\ send_buffer'[u][d] = send_buffer[u][d]
    BY <1>4 DEF SenderSends
  <2>2. InOrder(u, v)'
    BY <1>1, <1>2, <2>1, SendOrder
  <2> QED
    BY <1>1, <2>2 DEF Link
<1> QED
  BY <1>3, <1>4

(* A step of the MPI library.                                              *)
LEMMA MpiLinks ==
  ASSUME FewSubmeshes, IInv, Mpi, TypeOK'
  PROVE  (\A v \in Unit : \A u \in Neigh[v] : Link(u, v)') /\ mpi_error' = mpi_error
<1>1. UNCHANGED rkdgVars /\ at' = at /\ timestamp' = timestamp
  BY DEF Mpi, rkdgVars
<1>2. PICK e \in Envelopes : Deliver(e) \/ \E i \in DOMAIN network[e] : Buffer(e, i)
  BY DEF Mpi, MpiProgress
<1>3. PICK v \in Unit : \E u \in Neigh[v] : e = SendEnvelope(u, v)
  BY EveryEnvelope
<1>4. PICK u \in Neigh[v] : e = SendEnvelope(u, v)
  BY <1>3
<1>5. TypeOK /\ Link(u, v) /\ Chain(v) /\ u \in Unit
  BY <1>3, <1>4, EnvelopeOf DEF IInv
<1>6. Link(u, v)' /\ mpi_error' = mpi_error
  <2>1. CASE Deliver(e)
    BY <1>1, <1>4, <1>5, <2>1, DeliverLink
  <2>2. ASSUME NEW i \in DOMAIN network[e], Buffer(e, i)
        PROVE  Link(u, v)' /\ mpi_error' = mpi_error
    <3>1. InOrder(u, v)'
      BY <1>1, <1>4, <1>5, <2>2, ReadOrder DEF Link
    <3>2. UNCHANGED <<receive_buffer, unreceived, posted, mpi_error>>
      BY <2>2 DEF Buffer
    <3>3. ReceiverKeeps(u, v)
      BY <1>1, <3>2 DEF ReceiverKeeps, AskedRounds, ConsumedRounds
    <3>4. OneReceive(u, v)' /\ Arrived(u, v)'
      BY <1>5, <3>3, ReceiverSide
    <3> QED
      BY <3>1, <3>2, <3>4 DEF Link
  <2> QED
    BY <1>2, <2>1, <2>2
<1>7. ASSUME NEW b \in Unit, NEW a \in Neigh[b], SendEnvelope(a, b) # e PROVE Link(a, b)'
  <2>1. a \in Unit /\ SendEnvelope(a, b) \in Envelopes /\ Link(a, b)
    BY EnvelopeOf DEF IInv
  <2>2. network'[SendEnvelope(a, b)] = network[SendEnvelope(a, b)]
        /\ posted'[SendEnvelope(a, b)] = posted[SendEnvelope(a, b)] /\ send_buffer' = send_buffer
    BY <1>2, <1>5, <1>7, <2>1 DEF Deliver, Buffer, TypeOK, CommTypeOK
  <2>3. a # u \/ b # v
    BY <1>4, <1>7
  <2>4. network[e] \in Seq(Message) /\ posted[e] \in Seq(Slots)
    BY <1>5 DEF TypeOK, CommTypeOK
  <2>5. \A i \in DOMAIN network[e] : \E c \in CommTypes : network[e][i].slot = <<u, v, c>>
    BY <1>4, <1>5 DEF Link, InOrder, OfRound
  <2>6. ASSUME NEW c \in CommTypes, <<a, b, c>> \in unsent PROVE <<a, b, c>> \in unsent'
    <3>1. \E i \in DOMAIN network[e] : unsent' = unsent \/ unsent' = unsent \ {network[e][i].slot}
      <4>1. CASE Deliver(e)
        <5>1. network[e] # <<>> /\ Head(network[e]) = network[e][1] /\ 1 \in DOMAIN network[e]
          BY <2>4, <4>1 DEF Deliver
        <5> QED
          BY <4>1, <5>1 DEF Deliver
      <4> QED
        BY <1>2, <4>1 DEF Buffer
    <3> QED
      BY <2>3, <2>5, <2>6, <3>1
  <2>7. ASSUME NEW c \in CommTypes
        PROVE  /\ <<b, a, c>> \in unreceived' <=> <<b, a, c>> \in unreceived
               /\ receive_buffer'[<<b, a, c>>] = receive_buffer[<<b, a, c>>]
    <3>1. CASE Deliver(e)
      <4>1. PICK d \in CommTypes : posted[e] = << <<v, u, d>> >>
        BY <1>4, <1>5, <3>1 DEF Deliver, Link, OneReceive
      <4>2. Head(posted[e]) = <<v, u, d>> /\ <<v, u, d>> # <<b, a, c>>
        BY <2>3, <4>1
      <4> QED
        BY <1>5, <3>1, <4>2 DEF Deliver, TypeOK, CommTypeOK
    <3> QED
      BY <1>2, <3>1 DEF Buffer
  <2>8. SenderKeeps(a, b)
    BY <1>1, <2>2, <2>6 DEF SenderKeeps, PostedRounds, ConsumedRounds
  <2>9. ReceiverKeeps(a, b)
    BY <1>1, <2>2, <2>7 DEF ReceiverKeeps, AskedRounds, ConsumedRounds
  <2> QED
    BY <1>5, <2>1, <2>8, <2>9, LinkKept
<1>8. ASSUME NEW b \in Unit, NEW a \in Neigh[b] PROVE Link(a, b)'
  <2>1. CASE SendEnvelope(a, b) # e
    BY <1>7, <2>1
  <2>2. CASE SendEnvelope(a, b) = e
    <3>1. a = u /\ b = v
      BY <1>4, <1>5, <2>2, EnvelopesDistinct, EnvelopeOf
    <3> QED
      BY <1>6, <3>1
  <2> QED
    BY <2>1, <2>2
<1> QED
  BY <1>6, <1>8

-----------------------------------------------------------------------------
(* Steps of a submesh: the rank boundaries of the others.                  *)

LEMMA OthersStay ==
  ASSUME TypeOK, NEW w \in Unit, UnitStep(w), NEW a \in Unit \ {w}
  PROVE  at'[a] = at[a] /\ timestamp'[a] = timestamp[a]
BY DEF TypeOK, UnitStep, InitData, PreReceiveAll, PreSendAll, PrePostReceive, PreWaitSends, Launch,
       Exchange, PreWork, Receive, WetDry, SlExchange, SlWork, SlReceive, SlWaitSends, Scrutinize,
       WaitSends, Output, Local, Goto

(* What the step of a submesh does to the communicator.                    *)
LEMMA StepCommunicates ==
  ASSUME NEW w \in Unit, UnitStep(w)
  PROVE  /\ receive_buffer' = receive_buffer
         /\ UNCHANGED <<network, unsent>> \/ \E c \in CommTypes : SendAll(w, c)
         /\ UNCHANGED <<posted, unreceived>> \/ \E c \in CommTypes : ReceiveAll(w, c)
         /\ send_buffer' = send_buffer \/ \E c \in CommTypes, ts \in {timestamp[w]} : SetToSendBuffer(w, c, ts)
<1> USE RkdgOmpiAssumption
<1>1. CASE InitData(w) \/ PreReceiveAll(w) \/ PreSendAll(w) \/ Exchange(w) \/ SlExchange(w)
  BY <1>1 DEF InitData, PreReceiveAll, PreSendAll, Exchange, SlExchange
<1>2. CASE UNCHANGED <<receive_buffer, network, unsent, posted, unreceived, send_buffer>>
  BY <1>2
<1> QED
  BY <1>1, <1>2 DEF UnitStep, PrePostReceive, PreWaitSends, Launch, PreWork, Receive, WetDry,
       SlWork, SlReceive, SlWaitSends, Scrutinize, WaitSends, Output, Local, commVars

LEMMA OtherReceiver ==
  ASSUME FewSubmeshes, TypeOK, NEW w \in Unit, UnitStep(w), NEW v \in Unit \ {w}, NEW u \in Neigh[v]
  PROVE  ReceiverKeeps(u, v)
<1>1. at'[v] = at[v] /\ timestamp'[v] = timestamp[v] /\ receive_buffer' = receive_buffer
  BY OthersStay, StepCommunicates
<1>2. AskedRounds(v)' = AskedRounds(v)
  BY <1>1 DEF AskedRounds, ConsumedRounds
<1>3. posted'[SendEnvelope(u, v)] = posted[SendEnvelope(u, v)]
  <2>1. CASE UNCHANGED <<posted, unreceived>>
    BY <2>1
  <2>2. ASSUME NEW c \in CommTypes, ReceiveAll(w, c)
        PROVE  posted'[SendEnvelope(u, v)] = posted[SendEnvelope(u, v)]
    BY <2>2, ReceiveAllPosted DEF TypeOK
  <2> QED
    BY <2>1, <2>2, StepCommunicates
<1>4. ASSUME NEW c \in CommTypes PROVE <<v, u, c>> \in unreceived' <=> <<v, u, c>> \in unreceived
  <2>1. CASE UNCHANGED <<posted, unreceived>>
    BY <2>1
  <2>2. ASSUME NEW d \in CommTypes, ReceiveAll(w, d)
        PROVE  <<v, u, c>> \in unreceived' <=> <<v, u, c>> \in unreceived
    BY <2>2 DEF ReceiveAll, UnitSlots
  <2> QED
    BY <2>1, <2>2, StepCommunicates
<1> QED
  BY <1>1, <1>2, <1>3, <1>4 DEF ReceiverKeeps

LEMMA OtherSender ==
  ASSUME FewSubmeshes, TypeOK, NEW w \in Unit, UnitStep(w), NEW v \in Unit, NEW u \in Neigh[v], u # w
  PROVE  SenderKeeps(u, v)
<1>1. u \in Unit \ {w} /\ at'[u] = at[u] /\ timestamp'[u] = timestamp[u]
  BY OthersStay, EnvelopeOf
<1>2. PostedRounds(u)' = PostedRounds(u)
  BY <1>1 DEF PostedRounds, ConsumedRounds
<1>3. network'[SendEnvelope(u, v)] = network[SendEnvelope(u, v)]
  <2>1. CASE UNCHANGED <<network, unsent>>
    BY <2>1
  <2>2. ASSUME NEW c \in CommTypes, SendAll(w, c)
        PROVE  network'[SendEnvelope(u, v)] = network[SendEnvelope(u, v)]
    BY <2>2, SendAllNetwork DEF TypeOK
  <2> QED
    BY <2>1, <2>2, StepCommunicates
<1>4. ASSUME NEW c \in CommTypes, <<u, v, c>> \in unsent
      PROVE  <<u, v, c>> \in unsent' /\ send_buffer'[u][c] = send_buffer[u][c]
  <2>1. <<u, v, c>> \in unsent'
    BY <1>4, StepCommunicates DEF SendAll
  <2>2. send_buffer'[u] = send_buffer[u]
    BY <1>1, StepCommunicates DEF SetToSendBuffer, TypeOK, CommTypeOK
  <2> QED
    BY <2>1, <2>2
<1> QED
  BY <1>2, <1>3, <1>4 DEF SenderKeeps

-----------------------------------------------------------------------------
(* Steps of a submesh: its own rank boundaries.                            *)

(* The loops that wait for receives end a round, the others do not.        *)
LEMMA RoundTaken ==
  ASSUME TypeOK, NEW w \in Unit, Chain(w), PrePostReceive(w) \/ Receive(w) \/ SlReceive(w)
  PROVE  /\ PostedRounds(w) = ConsumedRounds(w) + 1 /\ AskedRounds(w) = PostedRounds(w)
         /\ ConsumedRounds(w)' = PostedRounds(w)
         /\ PostedRounds(w)' = PostedRounds(w) /\ AskedRounds(w)' = PostedRounds(w)
<1> DEFINE T == timestamp[w]
           L == PerStage * T
<1>1. T \in Nat /\ L \in Nat /\ PerStage * (T + 1) = L + PerStage /\ (T = 0 => L = 0)
  BY DEF TypeOK, PerStage
<1>2. PerStage = (IF SlopeLimiting THEN 2 ELSE 1)
  BY DEF PerStage
<1> HIDE DEF L
<1> USE DEF PostedRounds, AskedRounds, ConsumedRounds, BeforePostReceive, LimiterPending
<1>3. CASE PrePostReceive(w)
  <2>1. at[w] = "pre_post_receive" /\ at'[w] = "pre_wait_sends" /\ timestamp'[w] = T /\ T = 0
    BY <1>3 DEF PrePostReceive, Goto, TypeOK, Chain
  <2> QED
    BY <1>1, <2>1 DEF L
<1>4. CASE Receive(w)
  <2>1. /\ at[w] = "receive" /\ timestamp'[w] = T + 1
        /\ at'[w] \in {"wet_dry", "sl_exchange", "scrutinize"}
        /\ SlopeLimiting => at'[w] \in LimiterPending
    BY <1>4 DEF Receive, Goto, TypeOK, AfterReceive, AfterWetDry
  <2>2. ConsumedRounds(w) = 1 + L
    BY <1>1, <2>1 DEF L
  <2>3. ConsumedRounds(w)' = 1 + PerStage * (T + 1) - (IF SlopeLimiting THEN 1 ELSE 0)
    BY <2>1 DEF PerStage
  <2>4. ConsumedRounds(w)' = 2 + L
    BY <1>1, <1>2, <2>3
  <2>5. PostedRounds(w) = 2 + L /\ AskedRounds(w) = 2 + L
    BY <1>1, <2>1, <2>2
  <2>6. PostedRounds(w)' = 2 + L /\ AskedRounds(w)' = 2 + L
    BY <1>1, <2>1, <2>4
  <2> QED
    BY <1>1, <2>2, <2>4, <2>5, <2>6
<1>5. CASE SlReceive(w)
  <2>1. at[w] = "sl_receive" /\ at'[w] = "sl_wait_sends" /\ timestamp'[w] = T /\ SlopeLimiting
    BY <1>5 DEF SlReceive, Goto, TypeOK, Chain
  <2>2. ConsumedRounds(w) = L /\ PostedRounds(w) = 1 + L /\ AskedRounds(w) = 1 + L
    BY <1>1, <2>1 DEF L
  <2>3. ConsumedRounds(w)' = 1 + L /\ PostedRounds(w)' = 1 + L /\ AskedRounds(w)' = 1 + L
    BY <1>1, <2>1 DEF L
  <2> QED
    BY <1>1, <2>2, <2>3
<1> QED
  BY <1>3, <1>4, <1>5

(* The loops that send begin a round.                                      *)
LEMMA RoundPosted ==
  ASSUME TypeOK, NEW w \in Unit, Chain(w), timestamp'[w] = timestamp[w],
         \/ at[w] = "pre_send" /\ at'[w] = "pre_post_receive"
         \/ at[w] = "exchange" /\ at'[w] = "pre_work"
         \/ at[w] = "sl_exchange" /\ at'[w] = "sl_work"
  PROVE  /\ PostedRounds(w) = ConsumedRounds(w) /\ ConsumedRounds(w)' = ConsumedRounds(w)
         /\ PostedRounds(w)' = PostedRounds(w) + 1 /\ AskedRounds(w)' = PostedRounds(w) + 1
         /\ AskedRounds(w) = (IF at[w] = "pre_send" THEN PostedRounds(w) + 1 ELSE PostedRounds(w))
         /\ \A v : PostedRounds(w) + 1 = RoundOf(Written(w, v,
              CASE at[w] = "pre_send" -> "baryctr_coord" [] at[w] = "exchange" -> "bound_state"
                [] at[w] = "sl_exchange" -> "baryctr_state", timestamp[w]))
<1> DEFINE L == PerStage * timestamp[w]
<1>1. timestamp[w] \in Nat /\ L \in Nat
  BY DEF TypeOK, PerStage
<1> HIDE DEF L
<1> USE DEF PostedRounds, AskedRounds, ConsumedRounds, BeforePostReceive, LimiterPending, RoundOf, Written, Chain
<1>2. CASE at[w] = "pre_send" /\ at'[w] = "pre_post_receive"
  BY <1>1, <1>2
<1>3. CASE at[w] = "exchange" /\ at'[w] = "pre_work"
  BY <1>1, <1>3 DEF L
<1>4. CASE at[w] = "sl_exchange" /\ at'[w] = "sl_work"
  BY <1>1, <1>4 DEF L
<1> QED
  BY <1>2, <1>3, <1>4

(* A loop without messages: no round begins or ends.                       *)
Silent(w) ==
  \/ InitData(w) \/ PreWaitSends(w) \/ Launch(w) \/ PreWork(w) \/ WetDry(w) \/ SlWork(w)
  \/ SlWaitSends(w) \/ Scrutinize(w) \/ WaitSends(w) \/ Output(w)

LEMMA SilentRounds ==
  ASSUME TypeOK, NEW w \in Unit, Chain(w), Silent(w)
  PROVE  /\ PostedRounds(w)' = PostedRounds(w) /\ ConsumedRounds(w)' = ConsumedRounds(w)
         /\ AskedRounds(w)' = AskedRounds(w) /\ timestamp'[w] = timestamp[w]
         /\ \A c \in CommTypes : at'[w] \in ReceivePending(c) <=> at[w] \in ReceivePending(c)
         /\ at[w] \in BeforePostReceive <=> at'[w] \in BeforePostReceive
         /\ SlopeLimiting => (at[w] \in LimiterPending <=> at'[w] \in LimiterPending)
         /\ UNCHANGED <<receive_buffer, unreceived, posted, network, unsent, mpi_error,
                        baryctr_coord_neigh, q_ex, q_at_baryctr_neigh>>
<1> DEFINE Asking == {"pre_send", "pre_post_receive", "pre_work", "receive", "sl_work", "sl_receive"}
           Posting == {"pre_post_receive", "pre_work", "receive", "sl_work", "sl_receive"}
           Move(from, to) == at[w] = from /\ at' = [at EXCEPT ![w] = to]
<1>1. /\ timestamp' = timestamp
      /\ UNCHANGED <<receive_buffer, unreceived, posted, network, unsent, mpi_error,
                     baryctr_coord_neigh, q_ex, q_at_baryctr_neigh>>
  BY DEF Silent, InitData, PreWaitSends, Launch, PreWork, WetDry, SlWork, SlWaitSends, Scrutinize,
         WaitSends, Output, Local, commVars
<1>2. \/ Move("init_data", "pre_receive") \/ Move("pre_wait_sends", "launch")
      \/ Move("launch", "exchange") \/ Move("pre_work", "receive") \/ Move("wet_dry", AfterWetDry)
      \/ Move("sl_work", "sl_receive") \/ Move("sl_wait_sends", "scrutinize")
      \/ Move("scrutinize", "wait_sends") \/ Move("wait_sends", "output")
      \/ Move("wait_sends", "exchange") \/ Move("output", "done") \/ Move("output", "exchange")
      \/ at' = at
  BY DEF Silent, InitData, PreWaitSends, Launch, PreWork, WetDry, SlWork, SlWaitSends, Scrutinize,
         WaitSends, Output, Local, Goto
<1>3. /\ at[w] \in Asking <=> at'[w] \in Asking
      /\ at[w] \in Posting <=> at'[w] \in Posting
      /\ at[w] \in BeforePostReceive <=> at'[w] \in BeforePostReceive
      /\ SlopeLimiting => (at[w] \in LimiterPending <=> at'[w] \in LimiterPending)
      /\ \A c \in {"baryctr_coord", "bound_state", "baryctr_state"} :
            at'[w] \in ReceivePending(c) <=> at[w] \in ReceivePending(c)
  BY <1>2, Pending DEF TypeOK, AfterWetDry, BeforePostReceive, LimiterPending
<1>4. ConsumedRounds(w)' = ConsumedRounds(w)
  BY <1>1, <1>3 DEF ConsumedRounds
<1>5. PostedRounds(w)' = PostedRounds(w) /\ AskedRounds(w)' = AskedRounds(w)
  BY <1>3, <1>4 DEF PostedRounds, AskedRounds
<1> QED
  BY <1>1, <1>3, <1>4, <1>5, RkdgOmpiAssumption

(* No request of a type is active outside the loops that are waited for.   *)
LEMMA Inactive ==
  ASSUME TypeOK, RequestDiscipline, NEW w \in Unit, NEW c \in CommTypes
  PROVE  /\ at[w] \notin SendPending(c) => ~SendErroneous(w, c) /\ \A v : <<w, v, c>> \notin unsent
         /\ at[w] \notin ReceivePending(c) => ~ReceiveErroneous(w, c)
<1>1. at[w] \notin SendPending(c) => ~SendErroneous(w, c)
  BY DEF RequestDiscipline, SendErroneous, UnitSlots
<1>2. at[w] \notin ReceivePending(c) => ~ReceiveErroneous(w, c)
  BY DEF RequestDiscipline, ReceiveErroneous, UnitSlots
<1>3. at[w] \notin SendPending(c) => \A v : <<w, v, c>> \notin unsent
  <2> SUFFICES ASSUME NEW v, <<w, v, c>> \in unsent PROVE at[w] \in SendPending(c)
    OBVIOUS
  <2>1. <<w, v, c>> \in send_requests
    BY DEF TypeOK, CommTypeOK
  <2> QED
    BY <2>1 DEF RequestDiscipline
<1> QED
  BY <1>1, <1>2, <1>3

(* The loops that exchange, and the type that each of them exchanges.      *)
Sends(w, c) ==
  \/ PreSendAll(w) /\ c = "baryctr_coord"
  \/ Exchange(w) /\ c = "bound_state"
  \/ SlExchange(w) /\ c = "baryctr_state"
Asks(w, c) ==
  \/ PreReceiveAll(w) /\ c = "baryctr_coord"
  \/ Exchange(w) /\ c = "bound_state"
  \/ SlExchange(w) /\ c = "baryctr_state"

LEMMA SendSteps ==
  ASSUME TypeOK, RequestDiscipline, NEW w \in Unit, Chain(w), NEW c \in CommTypes, Sends(w, c)
  PROVE  /\ SendAll(w, c) /\ at[w] \notin SendPending(c) /\ timestamp' = timestamp
         /\ send_buffer' = [send_buffer EXCEPT ![w][c] = timestamp[w]]
         /\ PostedRounds(w)' = PostedRounds(w) + 1
         /\ \A v : PostedRounds(w) + 1 = RoundOf(Written(w, v, c, timestamp[w]))
         /\ c = "baryctr_coord" => timestamp[w] = 0
         /\ c = "baryctr_state" => SlopeLimiting /\ timestamp[w] > 0
         /\ mpi_error' = (mpi_error \/ (~PreSendAll(w) /\ ReceiveErroneous(w, c)) \/ SendErroneous(w, c))
<1>1. CASE PreSendAll(w) /\ c = "baryctr_coord"
  <2>1. at[w] = "pre_send" /\ at'[w] = "pre_post_receive" /\ timestamp' = timestamp /\ timestamp[w] = 0
    BY <1>1 DEF PreSendAll, Goto, TypeOK, Chain, BeforePostReceive
  <2>2. send_buffer' = [send_buffer EXCEPT ![w][c] = timestamp[w]]
    BY <1>1, <2>1 DEF PreSendAll, Chain, TypeOK, CommTypeOK
  <2>3. SendAll(w, c) /\ at[w] \notin SendPending(c)
        /\ mpi_error' = (mpi_error \/ (~PreSendAll(w) /\ ReceiveErroneous(w, c)) \/ SendErroneous(w, c))
    BY <1>1, <2>1, Pending DEF PreSendAll
  <2> QED
    BY <1>1, <2>1, <2>2, <2>3, RoundPosted
<1>2. CASE Exchange(w) /\ c = "bound_state"
  <2>1. at[w] = "exchange" /\ at'[w] = "pre_work" /\ timestamp' = timestamp
    BY <1>2 DEF Exchange, Goto, TypeOK
  <2>2. SendAll(w, c) /\ at[w] \notin SendPending(c)
        /\ send_buffer' = [send_buffer EXCEPT ![w][c] = timestamp[w]]
    BY <1>2, <2>1, Pending DEF Exchange, SetToSendBuffer
  <2>3. mpi_error' = (mpi_error \/ (~PreSendAll(w) /\ ReceiveErroneous(w, c)) \/ SendErroneous(w, c))
    BY <1>2, <2>1 DEF Exchange, PreSendAll
  <2> QED
    BY <1>2, <2>1, <2>2, <2>3, RoundPosted
<1>3. CASE SlExchange(w) /\ c = "baryctr_state"
  <2>1. at[w] = "sl_exchange" /\ at'[w] = "sl_work" /\ timestamp' = timestamp
        /\ timestamp[w] > 0 /\ SlopeLimiting
    BY <1>3 DEF SlExchange, Goto, TypeOK, Chain, LimiterPending
  <2>2. SendAll(w, c) /\ at[w] \notin SendPending(c)
        /\ send_buffer' = [send_buffer EXCEPT ![w][c] = timestamp[w]]
    BY <1>3, <2>1, Pending DEF SlExchange, SetToSendBuffer
  <2>3. mpi_error' = (mpi_error \/ (~PreSendAll(w) /\ ReceiveErroneous(w, c)) \/ SendErroneous(w, c))
    BY <1>3, <2>1 DEF SlExchange, PreSendAll
  <2> QED
    BY <1>3, <2>1, <2>2, <2>3, RoundPosted
<1> QED
  BY <1>1, <1>2, <1>3 DEF Sends

LEMMA OwnSender ==
  ASSUME FewSubmeshes, TypeOK, RequestDiscipline, NEW w \in Unit, Chain(w), UnitStep(w),
         NEW v \in Unit, w \in Neigh[v]
  PROVE  SenderKeeps(w, v) \/ SenderSends(w, v)
<1>1. ASSUME NEW c \in CommTypes, Sends(w, c) PROVE SenderSends(w, v)
  <2>1. /\ SendAll(w, c) /\ at[w] \notin SendPending(c)
        /\ send_buffer' = [send_buffer EXCEPT ![w][c] = timestamp[w]]
        /\ PostedRounds(w)' = PostedRounds(w) + 1
        /\ RoundOf(Written(w, v, c, timestamp[w])) = PostedRounds(w) + 1
        /\ c = "baryctr_coord" => timestamp[w] = 0
        /\ c = "baryctr_state" => SlopeLimiting /\ timestamp[w] > 0
        /\ timestamp[w] \in Nat
    BY <1>1, SendSteps DEF TypeOK
  <2>2. network'[SendEnvelope(w, v)] =
          Append(network[SendEnvelope(w, v)], [slot |-> <<w, v, c>>, data |-> NotRead])
    BY <2>1, SendAllNetwork DEF TypeOK
  <2>3. <<w, v, c>> \notin unsent /\ <<w, v, c>> \in unsent'
    <3>1. <<w, v, c>> \in UnitSlots(w, c)
      BY EnvelopeOf DEF UnitSlots, Slots
    <3> QED
      BY <2>1, <3>1, Inactive DEF SendAll
  <2>4. send_buffer'[w][c] = timestamp[w]
    BY <2>1 DEF TypeOK, CommTypeOK
  <2>5. ASSUME NEW d \in CommTypes, <<w, v, d>> \in unsent
        PROVE  <<w, v, d>> \in unsent' /\ send_buffer'[w][d] = send_buffer[w][d]
    <3>1. d # c
      BY <2>3, <2>5
    <3> QED
      BY <2>1, <2>5, <3>1 DEF SendAll, TypeOK, CommTypeOK
  <2> QED
    BY <2>1, <2>2, <2>3, <2>4, <2>5 DEF SenderSends
<1>2. CASE Silent(w)
  <2>1. UNCHANGED <<network, unsent>> /\ PostedRounds(w)' = PostedRounds(w)
    BY <1>2, SilentRounds
  <2>2. ASSUME NEW c \in CommTypes, <<w, v, c>> \in unsent
        PROVE  send_buffer'[w][c] = send_buffer[w][c]
    <3>1. CASE InitData(w)
      <4>1. at[w] \notin SendPending("baryctr_coord")
        BY <3>1, Pending DEF InitData
      <4>2. c # "baryctr_coord"
        BY <2>2, <4>1, Inactive
      <4> QED
        BY <3>1, <4>2 DEF InitData, SetToSendBuffer, TypeOK, CommTypeOK
    <3>2. CASE send_buffer' = send_buffer
      BY <3>2
    <3> QED
      BY <1>2, <3>1, <3>2 DEF Silent, PreWaitSends, Launch, PreWork, WetDry, SlWork, SlWaitSends,
           Scrutinize, WaitSends, Output, Local, commVars
  <2> QED
    BY <2>1, <2>2 DEF SenderKeeps
<1>3. CASE PreReceiveAll(w)
  <2>1. at[w] = "pre_receive" /\ at'[w] = "pre_send" /\ UNCHANGED <<network, unsent, send_buffer>>
    BY <1>3 DEF PreReceiveAll, Goto, TypeOK
  <2>2. PostedRounds(w)' = PostedRounds(w)
    BY <2>1 DEF PostedRounds, ConsumedRounds, BeforePostReceive
  <2> QED
    BY <2>1, <2>2 DEF SenderKeeps
<1>4. CASE PrePostReceive(w) \/ Receive(w) \/ SlReceive(w)
  <2>1. UNCHANGED <<network, unsent, send_buffer>>
    BY <1>4 DEF PrePostReceive, Receive, SlReceive
  <2>2. PostedRounds(w)' = PostedRounds(w)
    BY <1>4, RoundTaken
  <2> QED
    BY <2>1, <2>2 DEF SenderKeeps
<1> QED
  BY <1>1, <1>2, <1>3, <1>4, RkdgOmpiAssumption DEF UnitStep, Silent, Sends

LEMMA AskSteps ==
  ASSUME TypeOK, RequestDiscipline, NEW w \in Unit, Chain(w), NEW c \in CommTypes, Asks(w, c)
  PROVE  /\ ReceiveAll(w, c) /\ at'[w] \in ReceivePending(c)
         /\ \A d \in CommTypes : at[w] \notin ReceivePending(d)
         /\ AskedRounds(w)' = AskedRounds(w) + 1
<1> USE RkdgOmpiAssumption
<1>1. CASE PreReceiveAll(w) /\ c = "baryctr_coord"
  <2>1. at[w] = "pre_receive" /\ at'[w] = "pre_send" /\ timestamp' = timestamp
    BY <1>1 DEF PreReceiveAll, Goto, TypeOK
  <2>2. AskedRounds(w)' = AskedRounds(w) + 1
    BY <2>1 DEF AskedRounds, ConsumedRounds, BeforePostReceive
  <2> QED
    BY <1>1, <2>1, <2>2, Pending DEF PreReceiveAll
<1>2. CASE Exchange(w) /\ c = "bound_state"
  <2>1. at[w] = "exchange" /\ at'[w] = "pre_work" /\ timestamp' = timestamp
    BY <1>2 DEF Exchange, Goto, TypeOK
  <2>2. AskedRounds(w)' = AskedRounds(w) + 1
    BY <2>1, RoundPosted
  <2> QED
    BY <1>2, <2>1, <2>2, Pending DEF Exchange
<1>3. CASE SlExchange(w) /\ c = "baryctr_state"
  <2>1. at[w] = "sl_exchange" /\ at'[w] = "sl_work" /\ timestamp' = timestamp
    BY <1>3 DEF SlExchange, Goto, TypeOK
  <2>2. AskedRounds(w)' = AskedRounds(w) + 1
    BY <2>1, RoundPosted
  <2> QED
    BY <1>3, <2>1, <2>2, Pending DEF SlExchange
<1> QED
  BY <1>1, <1>2, <1>3 DEF Asks

(* The loop in which w waits for the receives of a type.                   *)
Awaits(w, c) ==
  \/ PrePostReceive(w) /\ c = "baryctr_coord"
  \/ Receive(w) /\ c = "bound_state"
  \/ SlReceive(w) /\ c = "baryctr_state"

LEMMA AwaitSteps ==
  ASSUME TypeOK, NEW w \in Unit, NEW c \in CommTypes, Awaits(w, c)
  PROVE  /\ at[w] \in ReceivePending(c) /\ WaitAllReceives(w, c)
         /\ \A d \in CommTypes : at'[w] \notin ReceivePending(d)
         /\ UNCHANGED <<receive_buffer, unreceived, posted, network, unsent, send_buffer, mpi_error>>
         /\ \A u \in Neigh[w] : <<w, u, c>> \notin unreceived
<1> USE RkdgOmpiAssumption
<1>1. /\ at[w] \in ReceivePending(c) /\ WaitAllReceives(w, c)
      /\ UNCHANGED <<receive_buffer, unreceived, posted, network, unsent, send_buffer, mpi_error>>
  BY Pending DEF Awaits, PrePostReceive, Receive, SlReceive
<1>2. at'[w] \in {"pre_wait_sends", "wet_dry", "sl_exchange", "scrutinize", "sl_wait_sends"}
  BY DEF Awaits, PrePostReceive, Receive, SlReceive, Goto, TypeOK, AfterReceive, AfterWetDry
<1>3. \A d \in CommTypes : at'[w] \notin ReceivePending(d)
  BY <1>2, Pending
<1>4. ASSUME NEW u \in Neigh[w] PROVE <<w, u, c>> \notin unreceived
  <2>1. <<w, u, c>> \in UnitSlots(w, c)
    BY EnvelopeOf DEF UnitSlots, Slots
  <2> QED
    BY <1>1, <2>1 DEF WaitAllReceives
<1> QED
  BY <1>1, <1>3, <1>4

LEMMA OwnReceiver ==
  ASSUME FewSubmeshes, TypeOK, RequestDiscipline, NEW w \in Unit, Chain(w), UnitStep(w), NEW u \in Neigh[w]
  PROVE  ReceiverKeeps(u, w) \/ ReceiverAsks(u, w) \/ ReceiverTakes(u, w)
<1>1. ASSUME NEW c \in CommTypes, Asks(w, c) PROVE ReceiverAsks(u, w)
  <2>1. /\ ReceiveAll(w, c) /\ at'[w] \in ReceivePending(c)
        /\ \A d \in CommTypes : at[w] \notin ReceivePending(d)
        /\ AskedRounds(w)' = AskedRounds(w) + 1
    BY <1>1, AskSteps
  <2>2. posted'[SendEnvelope(u, w)] = Append(posted[SendEnvelope(u, w)], <<w, u, c>>)
    BY <2>1, ReceiveAllPosted DEF TypeOK
  <2>3. <<w, u, c>> \in unreceived'
    <3>1. <<w, u, c>> \in UnitSlots(w, c)
      BY EnvelopeOf DEF UnitSlots, Slots
    <3> QED
      BY <2>1, <3>1 DEF ReceiveAll
  <2> QED
    BY <2>1, <2>2, <2>3 DEF ReceiverAsks
<1>2. ASSUME NEW c \in CommTypes, Awaits(w, c) PROVE ReceiverTakes(u, w)
  <2>1. AskedRounds(w)' = AskedRounds(w)
    BY <1>2, RoundTaken DEF Awaits
  <2> QED
    BY <1>2, <2>1, AwaitSteps DEF ReceiverTakes
<1>3. CASE Silent(w)
  BY <1>3, SilentRounds DEF ReceiverKeeps
<1>4. CASE PreSendAll(w)
  <2>1. at[w] = "pre_send" /\ at'[w] = "pre_post_receive" /\ timestamp' = timestamp
        /\ UNCHANGED <<receive_buffer, unreceived, posted>>
    BY <1>4 DEF PreSendAll, Goto, TypeOK
  <2>2. AskedRounds(w)' = AskedRounds(w)
    BY <2>1 DEF AskedRounds, ConsumedRounds, BeforePostReceive
  <2>3. \A c \in CommTypes : at'[w] \in ReceivePending(c) <=> at[w] \in ReceivePending(c)
    BY <2>1, Pending, RkdgOmpiAssumption
  <2> QED
    BY <2>1, <2>2, <2>3 DEF ReceiverKeeps
<1> QED
  BY <1>1, <1>2, <1>3, <1>4, RkdgOmpiAssumption DEF UnitStep, Silent, Asks, Awaits

(* Every rank boundary, and the correct use of MPI.                        *)
LEMMA UnitLinks ==
  ASSUME FewSubmeshes, IInv, TypeOK', NEW w \in Unit, UnitStep(w)
  PROVE  \A v \in Unit : \A u \in Neigh[v] : Link(u, v)'
<1> SUFFICES ASSUME NEW v \in Unit, NEW u \in Neigh[v] PROVE Link(u, v)'
  OBVIOUS
<1>1. TypeOK /\ RequestDiscipline /\ Link(u, v) /\ Chain(w) /\ u \in Unit
  BY EnvelopeOf DEF IInv
<1>2. ReceiverKeeps(u, v) \/ ReceiverAsks(u, v) \/ ReceiverTakes(u, v)
  BY <1>1, OtherReceiver, OwnReceiver
<1>3. SenderKeeps(u, v) \/ SenderSends(u, v)
  BY <1>1, OtherSender, OwnSender
<1> QED
  BY <1>1, <1>2, <1>3, LinkKept

LEMMA UnitErrors ==
  ASSUME TypeOK, RequestDiscipline, ~mpi_error, NEW w \in Unit, Chain(w), UnitStep(w)
  PROVE  ~mpi_error'
<1>1. ASSUME NEW c \in CommTypes, Sends(w, c) PROVE ~mpi_error'
  <2>1. ~SendErroneous(w, c)
    BY <1>1, SendSteps, Inactive
  <2>2. ~PreSendAll(w) => ~ReceiveErroneous(w, c)
    BY <1>1, AskSteps, Inactive DEF Sends, Asks
  <2>3. mpi_error' = (mpi_error \/ (~PreSendAll(w) /\ ReceiveErroneous(w, c)) \/ SendErroneous(w, c))
    BY <1>1, SendSteps
  <2> QED
    BY <2>1, <2>2, <2>3
<1>2. CASE PreReceiveAll(w)
  <2>1. at[w] \notin ReceivePending("baryctr_coord") /\ "baryctr_coord" \in CommTypes
    BY <1>2, Pending, RkdgOmpiAssumption DEF PreReceiveAll
  <2> QED
    BY <1>2, <2>1, Inactive DEF PreReceiveAll
<1>3. CASE Silent(w)
  BY <1>3, SilentRounds
<1>4. CASE PrePostReceive(w) \/ Receive(w) \/ SlReceive(w)
  BY <1>4 DEF PrePostReceive, Receive, SlReceive
<1> QED
  BY <1>1, <1>2, <1>3, <1>4, RkdgOmpiAssumption DEF UnitStep, Silent, Sends

LEMMA ChainStep ==
  ASSUME TypeOK, \A u \in Unit : Chain(u), NEW w \in Unit, UnitStep(w)
  PROVE  \A u \in Unit : Chain(u)'
<1> SUFFICES ASSUME NEW u \in Unit PROVE Chain(u)'
  OBVIOUS
<1> USE RkdgOmpiAssumption DEF Chain, BeforePostReceive, LimiterPending
<1>1. CASE u # w
  <2>1. at'[u] = at[u] /\ timestamp'[u] = timestamp[u]
    BY <1>1, OthersStay
  <2>2. send_buffer'[u] = send_buffer[u]
    BY <1>1, StepCommunicates DEF SetToSendBuffer, TypeOK, CommTypeOK
  <2> QED
    BY <2>1, <2>2
<1>2. CASE u = w
  <2> USE DEF TypeOK, CommTypeOK, Goto
  <2>1. CASE InitData(w)
    BY <1>2, <2>1 DEF InitData, SetToSendBuffer
  <2>2. CASE PreReceiveAll(w) \/ PreSendAll(w) \/ PrePostReceive(w) \/ PreWaitSends(w)
    BY <1>2, <2>2 DEF PreReceiveAll, PreSendAll, PrePostReceive, PreWaitSends
  <2>3. CASE Exchange(w) \/ SlExchange(w)
    BY <1>2, <2>3 DEF Exchange, SlExchange
  <2>4. CASE Launch(w) \/ PreWork(w) \/ SlWork(w)
    BY <1>2, <2>4 DEF Launch, PreWork, SlWork, Local
  <2>5. CASE WetDry(w)
    BY <1>2, <2>5 DEF WetDry, Local, AfterWetDry
  <2>6. CASE Receive(w)
    <3>1. timestamp'[w] = timestamp[w] + 1 /\ timestamp'[w] > 0
      BY <2>6 DEF Receive
    <3>2. at'[w] \in {"wet_dry", "sl_exchange", "scrutinize"} /\ (at'[w] = "sl_exchange" => SlopeLimiting)
      BY <2>6 DEF Receive, AfterReceive, AfterWetDry
    <3> QED
      BY <1>2, <3>1, <3>2
  <2>7. CASE SlReceive(w) \/ SlWaitSends(w)
    BY <1>2, <2>7 DEF SlReceive, SlWaitSends
  <2>8. CASE Scrutinize(w)
    BY <1>2, <2>8 DEF Scrutinize, Local, commVars
  <2>9. CASE WaitSends(w)
    BY <1>2, <2>9 DEF WaitSends
  <2>10. CASE Output(w)
    BY <1>2, <2>10 DEF Output, Local
  <2> QED
    BY <2>1, <2>2, <2>3, <2>4, <2>5, <2>6, <2>7, <2>8, <2>9, <2>10 DEF UnitStep
<1> QED
  BY <1>1, <1>2

(* What a submesh takes from its buffers when its wait is over.            *)
LEMMA TakesAwaited ==
  ASSUME IInv, NEW w \in Unit, NEW c \in CommTypes, Awaits(w, c), NEW b \in Neigh[w]
  PROVE  receive_buffer[<<w, b, c>>] = Written(b, w, c, timestamp[w])
<1>1. at[w] \in ReceivePending(c) /\ <<w, b, c>> \notin unreceived
  BY AwaitSteps DEF IInv
<1> QED
  BY <1>1 DEF IInv, Link, Arrived

LEMMA FreshStep ==
  ASSUME IInv, NEW w \in Unit, UnitStep(w)
  PROVE  FreshData'
<1> USE RkdgOmpiAssumption
<1>1. SUFFICES ASSUME NEW a \in Unit, NEW b \in Neigh[a]
               PROVE  /\ at'[a] \notin BeforePostReceive =>
                           baryctr_coord_neigh'[<<a, b>>] = Written(b, a, "baryctr_coord", 0)
                      /\ q_ex'[<<a, b>>] = Written(b, a, "bound_state", timestamp'[a] - 1)
                      /\ SlopeLimiting =>
                           q_at_baryctr_neigh'[<<a, b>>] = Written(b, a, "baryctr_state",
                             SinceLimited(IF at'[a] \in LimiterPending THEN timestamp'[a] - 1 ELSE timestamp'[a]))
  BY DEF FreshData, RankBoundaries, BeforePostReceive, LimiterPending
<1>2. b \in Unit /\ <<a, b>> \in RankBoundaries
  BY NeighAssumption DEF RankBoundaries
<1>3. /\ at[a] \notin BeforePostReceive =>
           baryctr_coord_neigh[<<a, b>>] = Written(b, a, "baryctr_coord", 0)
      /\ q_ex[<<a, b>>] = Written(b, a, "bound_state", timestamp[a] - 1)
      /\ SlopeLimiting =>
           q_at_baryctr_neigh[<<a, b>>] = Written(b, a, "baryctr_state",
             SinceLimited(IF at[a] \in LimiterPending THEN timestamp[a] - 1 ELSE timestamp[a]))
  BY <1>2 DEF IInv, FreshData
<1>4. TypeOK /\ Chain(w)
  BY DEF IInv
<1>5. CASE a # w
  <2>1. at'[a] = at[a] /\ timestamp'[a] = timestamp[a]
    BY <1>4, <1>5, OthersStay
  <2>2. /\ baryctr_coord_neigh'[<<a, b>>] = baryctr_coord_neigh[<<a, b>>]
        /\ q_ex'[<<a, b>>] = q_ex[<<a, b>>]
        /\ q_at_baryctr_neigh'[<<a, b>>] = q_at_baryctr_neigh[<<a, b>>]
    BY <1>2, <1>5 DEF UnitStep, InitData, PreReceiveAll, PreSendAll, PrePostReceive, PreWaitSends, Launch,
         Exchange, PreWork, Receive, WetDry, SlExchange, SlWork, SlReceive, SlWaitSends, Scrutinize,
         WaitSends, Output, Local, Taken
  <2> QED
    BY <1>3, <2>1, <2>2
<1>6. CASE a = w
  <2>1. CASE Silent(w)
    BY <1>3, <1>4, <1>6, <2>1, SilentRounds
  <2>2. CASE PreReceiveAll(w) \/ PreSendAll(w) \/ Exchange(w) \/ SlExchange(w)
    <3>1. /\ UNCHANGED <<timestamp, baryctr_coord_neigh, q_ex, q_at_baryctr_neigh>>
          /\ at'[a] \notin BeforePostReceive => at[a] \notin BeforePostReceive \/ PreSendAll(w)
          /\ at[a] \in LimiterPending <=> at'[a] \in LimiterPending
      BY <1>4, <1>6, <2>2 DEF PreReceiveAll, PreSendAll, Exchange, SlExchange, TypeOK, Goto,
           BeforePostReceive, LimiterPending
    <3>2. PreSendAll(w) => at'[a] \in BeforePostReceive
      BY <1>4, <1>6 DEF PreSendAll, TypeOK, Goto, BeforePostReceive
    <3> QED
      BY <1>3, <3>1, <3>2
  <2>3. CASE PrePostReceive(w)
    <3>1. baryctr_coord_neigh'[<<a, b>>] = Written(b, a, "baryctr_coord", timestamp[a])
      BY <1>2, <1>6, <2>3, TakesAwaited DEF PrePostReceive, Taken, Awaits, GetFromReceiveBuffer
    <3>2. /\ timestamp[a] = 0 /\ UNCHANGED <<timestamp, q_ex, q_at_baryctr_neigh>>
          /\ at[a] \notin LimiterPending /\ at'[a] \notin LimiterPending
      BY <1>4, <1>6, <2>3 DEF PrePostReceive, Chain, BeforePostReceive, LimiterPending, TypeOK, Goto
    <3> QED
      BY <1>3, <3>1, <3>2
  <2>4. CASE Receive(w)
    <3>1. q_ex'[<<a, b>>] = Written(b, a, "bound_state", timestamp[a])
      BY <1>2, <1>6, <2>4, TakesAwaited DEF Receive, Taken, Awaits, GetFromReceiveBuffer
    <3>2. /\ timestamp'[a] = timestamp[a] + 1 /\ timestamp[a] \in Nat
          /\ UNCHANGED <<baryctr_coord_neigh, q_at_baryctr_neigh>>
          /\ at[a] \notin LimiterPending \cup BeforePostReceive
          /\ SlopeLimiting => at'[a] \in LimiterPending
      BY <1>4, <1>6, <2>4 DEF Receive, BeforePostReceive, LimiterPending, TypeOK, Goto, AfterReceive, AfterWetDry
    <3>3. timestamp'[a] - 1 = timestamp[a]
      BY <3>2
    <3> QED
      BY <1>3, <3>1, <3>2, <3>3
  <2>5. CASE SlReceive(w)
    <3>1. q_at_baryctr_neigh'[<<a, b>>] = Written(b, a, "baryctr_state", timestamp[a])
      BY <1>2, <1>6, <2>5, TakesAwaited DEF SlReceive, Taken, Awaits, GetFromReceiveBuffer
    <3>2. /\ timestamp[a] > 0 /\ UNCHANGED <<timestamp, baryctr_coord_neigh, q_ex>>
          /\ at[a] \notin BeforePostReceive /\ at'[a] \notin LimiterPending
      BY <1>4, <1>6, <2>5 DEF SlReceive, Chain, BeforePostReceive, LimiterPending, TypeOK, Goto
    <3> QED
      BY <1>3, <3>1, <3>2 DEF SinceLimited
  <2> QED
    BY <2>1, <2>2, <2>3, <2>4, <2>5 DEF UnitStep, Silent
<1> QED
  BY <1>5, <1>6

LEMMA InitIInv == Init => IInv
<1> SUFFICES ASSUME Init PROVE IInv
  OBVIOUS
<1>1. TypeOK /\ RequestDiscipline /\ ~mpi_error
  BY InitType DEF Init, CommInit, RequestDiscipline
<1>2. \A u \in Unit : Chain(u)
  <2> SUFFICES ASSUME NEW u \in Unit PROVE Chain(u)
    BY Zenon
  <2>1. at[u] = "init_data" /\ timestamp[u] = 0
    BY DEF Init
  <2> QED
    BY <2>1 DEF Chain, LimiterPending
<1>3. ASSUME NEW v \in Unit, NEW u \in Neigh[v] PROVE Link(u, v)
  <2>1. u \in Unit /\ SendEnvelope(u, v) \in Envelopes
    BY EnvelopeOf
  <2>2. network[SendEnvelope(u, v)] = <<>> /\ posted[SendEnvelope(u, v)] = <<>>
    BY <2>1 DEF Init, CommInit
  <2>3. PostedRounds(u) = 0 /\ AskedRounds(v) = 0
    BY <2>1 DEF Init, PostedRounds, AskedRounds, ConsumedRounds, BeforePostReceive
  <2>4. InOrder(u, v)
    <3>1. Len(network[SendEnvelope(u, v)]) = 0 /\ Len(posted[SendEnvelope(u, v)]) = 0
          /\ DOMAIN network[SendEnvelope(u, v)] = {}
      BY <2>2
    <3>2. Delivered(u, v) = 0
      BY <2>3, <3>1 DEF Delivered
    <3> QED
      BY <2>3, <3>1, <3>2 DEF InOrder
  <2>5. OneReceive(u, v) /\ Arrived(u, v)
    BY <2>2, Pending, RkdgOmpiAssumption DEF OneReceive, Arrived, Init
  <2> QED
    BY <2>4, <2>5 DEF Link
<1>4. FreshData
  <2> SUFFICES ASSUME NEW rb \in RankBoundaries
               PROVE  /\ at[rb[1]] \notin BeforePostReceive =>
                           baryctr_coord_neigh[rb] = Written(rb[2], rb[1], "baryctr_coord", 0)
                      /\ q_ex[rb] = Written(rb[2], rb[1], "bound_state", timestamp[rb[1]] - 1)
                      /\ SlopeLimiting =>
                           q_at_baryctr_neigh[rb] = Written(rb[2], rb[1], "baryctr_state",
                             SinceLimited(IF at[rb[1]] \in LimiterPending THEN timestamp[rb[1]] - 1
                                          ELSE timestamp[rb[1]]))
    BY DEF FreshData
  <2>1. rb[1] \in Unit /\ at[rb[1]] = "init_data" /\ timestamp[rb[1]] = 0
    BY DEF Init, RankBoundaries
  <2>2. /\ q_ex[rb] = Written(rb[2], rb[1], "bound_state", -1)
        /\ q_at_baryctr_neigh[rb] = Written(rb[2], rb[1], "baryctr_state", -1)
    BY DEF Init
  <2> QED
    BY <2>1, <2>2 DEF BeforePostReceive, LimiterPending, SinceLimited
<1> QED
  BY <1>1, <1>2, <1>3, <1>4 DEF IInv

LEMMA NextIInv == FewSubmeshes /\ IInv /\ [Next]_vars => IInv'
<1> SUFFICES ASSUME FewSubmeshes, IInv, [Next]_vars PROVE IInv'
  OBVIOUS
<1>1. TypeOK' /\ RequestDiscipline'
  BY NextType, NextDiscipline DEF IInv
<1>2. ASSUME NEW w \in Unit, UnitStep(w) PROVE IInv'
  <2>1. (\A u \in Unit : Chain(u))'
    BY <1>2, ChainStep DEF IInv
  <2>2. (\A v \in Unit : \A u \in Neigh[v] : Link(u, v))'
    BY <1>1, <1>2, UnitLinks
  <2>3. ~mpi_error'
    BY <1>2, UnitErrors DEF IInv
  <2>4. FreshData'
    BY <1>2, FreshStep
  <2> QED
    BY <1>1, <2>1, <2>2, <2>3, <2>4 DEF IInv
<1>3. CASE Mpi
  <2>1. UNCHANGED rkdgVars /\ send_buffer' = send_buffer
    BY <1>3 DEF Mpi, MpiProgress, Deliver, Buffer
  <2>2. (\A u \in Unit : Chain(u))'
    BY <2>1 DEF IInv, Chain, rkdgVars, BeforePostReceive, LimiterPending
  <2>3. FreshData'
    BY <2>1 DEF IInv, FreshData, rkdgVars
  <2>4. (\A v \in Unit : \A u \in Neigh[v] : Link(u, v))' /\ ~mpi_error'
    BY <1>1, <1>3, MpiLinks DEF IInv
  <2> QED
    BY <1>1, <2>2, <2>3, <2>4 DEF IInv
<1>4. CASE UNCHANGED vars
  <2> USE <1>4 DEF vars, commVars, rkdgVars, IInv
  <2>1. (\A u \in Unit : Chain(u))' /\ FreshData' /\ ~mpi_error'
    BY DEF Chain, FreshData
  <2>2. ASSUME NEW v \in Unit, NEW u \in Neigh[v] PROVE Link(u, v)'
    <3>1. SenderKeeps(u, v)
      BY DEF SenderKeeps, PostedRounds, ConsumedRounds
    <3>2. ReceiverKeeps(u, v)
      BY DEF ReceiverKeeps, AskedRounds, ConsumedRounds
    <3> QED
      BY <1>1, <3>1, <3>2, LinkKept
  <2> QED
    BY <1>1, <2>1, <2>2
<1> QED
  BY <1>2, <1>3, <1>4 DEF Next, Terminated

THEOREM Invariance ==
  ASSUME FewSubmeshes
  PROVE  Spec => []IInv
<1>1. IInv /\ [Next]_vars => IInv'
  BY NextIInv
<1> QED
  BY <1>1, InitIInv, PTL DEF Spec

(* Every flux over a distributed face and every limited slope is computed  *)
(* from the neighbour's data of the same stage, although one tag serves    *)
(* all types and MPI may read a buffer late.                               *)
THEOREM Freshness ==
  ASSUME FewSubmeshes
  PROVE  Spec => []FreshData
<1>1. IInv => FreshData
  BY DEF IInv
<1> QED
  BY <1>1, Invariance, PTL

(* No request is started while it is active, every message fits its        *)
(* receive, and MPI_Finalize finds nothing in flight.                      *)
THEOREM MpiUse ==
  ASSUME FewSubmeshes
  PROVE  Spec => []MpiCorrect
<1>1. IInv => MpiCorrect
  <2> SUFFICES ASSUME IInv, \A u \in Unit : at[u] = "done"
               PROVE  /\ send_requests = {} /\ receive_requests = {}
                      /\ \A e \in Envelopes : network[e] = <<>> /\ posted[e] = <<>>
    BY DEF MpiCorrect, IInv
  <2>1. \A c \in CommTypes : "done" \notin SendPending(c) \cup ReceivePending(c)
    BY Pending, RkdgOmpiAssumption
  <2>2. send_requests = {} /\ receive_requests = {}
    <3>1. \A s \in send_requests \cup receive_requests : s[1] \in Unit /\ s[3] \in CommTypes
      <4>1. send_requests \cup receive_requests \subseteq Slots
        BY DEF IInv, TypeOK, CommTypeOK
      <4> QED
        BY <4>1 DEF Slots
    <3>2. ASSUME NEW s \in send_requests PROVE FALSE
      <4>1. at[s[1]] \in SendPending(s[3])
        BY DEF IInv, RequestDiscipline
      <4> QED
        BY <2>1, <3>1, <4>1
    <3>3. ASSUME NEW s \in receive_requests PROVE FALSE
      <4>1. at[s[1]] \in ReceivePending(s[3])
        BY DEF IInv, RequestDiscipline
      <4> QED
        BY <2>1, <3>1, <4>1
    <3> QED
      BY <3>2, <3>3
  <2>3. ASSUME NEW v \in Unit, NEW u \in Neigh[v]
        PROVE  network[SendEnvelope(u, v)] = <<>> /\ posted[SendEnvelope(u, v)] = <<>>
    <3> DEFINE e == SendEnvelope(u, v)
               X == PerStage * (NumSteps * NumStages)
               R == 1 + X
    <3>1. u \in Unit /\ e \in Envelopes
      BY EnvelopeOf
    <3>2. network[e] \in Seq(Message) /\ X \in Int /\ R \in Int
      BY <3>1, RkdgOmpiAssumption DEF IInv, TypeOK, CommTypeOK, PerStage
    <3>3. \A w \in Unit : timestamp[w] = NumSteps * NumStages
      BY DEF IInv, Chain
    <3>4. ASSUME NEW w \in Unit PROVE PostedRounds(w) = R /\ AskedRounds(w) = R
      <4>1. at[w] = "done" /\ timestamp[w] = NumSteps * NumStages
        BY <3>3
      <4>2. PerStage * timestamp[w] = X
        BY <4>1
      <4> HIDE DEF X
      <4>3. ConsumedRounds(w) = R
        BY <3>2, <4>1, <4>2 DEF ConsumedRounds, BeforePostReceive, LimiterPending
      <4> HIDE DEF R
      <4> QED
        BY <3>2, <4>1, <4>3 DEF PostedRounds, AskedRounds
    <3>5. posted[e] = <<>>
      BY <2>1 DEF IInv, Link, OneReceive
    <3>6. Delivered(u, v) = R
      <4>1. Len(posted[e]) = 0
        BY <3>5
      <4> QED
        BY <3>2, <3>4, <4>1 DEF Delivered
    <3>7. Len(network[e]) = R - R
      BY <3>1, <3>4, <3>6 DEF IInv, Link, InOrder
    <3>8. network[e] = <<>>
      <4> HIDE DEF e, R
      <4> QED
        BY <3>2, <3>7
    <3> QED
      BY <3>5, <3>8
  <2> QED
    BY <2>2, <2>3, EveryEnvelope
<1> QED
  BY <1>1, Invariance, PTL

-----------------------------------------------------------------------------
(* The program implements NeighbourSync.                                   *)

LEMMA InitRounds == Init => Sync!Init
<1> SUFFICES ASSUME Init PROVE Sync!Init
  OBVIOUS
<1>1. ASSUME NEW u \in Unit
      PROVE  /\ PostedRounds(u) = 0 /\ ConsumedRounds(u) = 0
             /\ \A v \in Neigh[u] : RoundOf(InUse(<<u, v>>)) = 0
  <2>1. at[u] = "init_data" /\ timestamp[u] = 0
    BY DEF Init
  <2>2. PostedRounds(u) = 0 /\ ConsumedRounds(u) = 0
    BY <2>1 DEF PostedRounds, ConsumedRounds, BeforePostReceive
  <2>3. ASSUME NEW v \in Neigh[u] PROVE RoundOf(InUse(<<u, v>>)) = 0
    <3>1. InUse(<<u, v>>) = baryctr_coord_neigh[<<u, v>>] /\ <<u, v>> \in RankBoundaries
      BY <2>1, NeighAssumption DEF InUse, RankBoundaries
    <3>2. InUse(<<u, v>>).ts = -1
      BY <3>1 DEF Init, Written
    <3> QED
      BY <3>2 DEF RoundOf
  <2> QED
    BY <2>2, <2>3
<1> QED
  BY <1>1 DEF Sync!Init

(* The rounds a submesh has posted and taken, and those of its data.       *)
SameData(w) == \A v \in Neigh[w] : RoundOf(InUse(<<w, v>>))' = RoundOf(InUse(<<w, v>>))
SameRounds(w) ==
  PostedRounds(w)' = PostedRounds(w) /\ ConsumedRounds(w)' = ConsumedRounds(w) /\ SameData(w)

LEMMA KeepRounds ==
  ASSUME \A w \in Unit : SameRounds(w)
  PROVE  UNCHANGED Sync!vars
BY DEF SameRounds, SameData, Sync!vars

LEMMA PostRound ==
  ASSUME NEW u \in Unit, \A w \in Unit \ {u} : SameRounds(w),
         PostedRounds(u) = ConsumedRounds(u),
         PostedRounds(u)' = PostedRounds(u) + 1, ConsumedRounds(u)' = ConsumedRounds(u),
         SameData(u)
  PROVE  Sync!Post(u)
BY DEF SameRounds, SameData, Sync!Post

LEMMA TakeRound ==
  ASSUME NEW u \in Unit, \A w \in Unit \ {u} : SameRounds(w),
         PostedRounds(u) = ConsumedRounds(u) + 1,
         \A v \in Neigh[u] : PostedRounds(v) >= PostedRounds(u),
         PostedRounds(u)' = PostedRounds(u), ConsumedRounds(u)' = ConsumedRounds(u) + 1,
         \A v \in Neigh[u] : RoundOf(InUse(<<u, v>>))' = PostedRounds(u)
  PROVE  Sync!Consume(u)
<1> DEFINE P == [w \in Unit |-> PostedRounds(w)]
           C == [w \in Unit |-> ConsumedRounds(w)]
           G == [w \in Unit |-> [v \in Neigh[w] |-> RoundOf(InUse(<<w, v>>))]]
<1>1. P[u] = C[u] + 1 /\ \A v \in Neigh[u] : P[v] >= P[u]
  BY NeighAssumption
<1>2. C' = [C EXCEPT ![u] = @ + 1]
  BY DEF SameRounds
<1>3. G' = [G EXCEPT ![u] = [v \in Neigh[u] |-> P[u]]]
  <2>1. ASSUME NEW w \in Unit
        PROVE  [v \in Neigh[w] |-> RoundOf(InUse(<<w, v>>))]' =
                 IF w = u THEN [v \in Neigh[u] |-> P[u]]
                 ELSE [v \in Neigh[w] |-> RoundOf(InUse(<<w, v>>))]
    BY DEF SameRounds, SameData
  <2> QED
    BY <2>1
<1>4. P' = P
  BY DEF SameRounds
<1> QED
  BY <1>1, <1>2, <1>3, <1>4 DEF Sync!Consume

(* A loop that takes no data leaves the round of those in use.             *)
LEMMA KeepData ==
  ASSUME NEW w \in Unit, timestamp'[w] = timestamp[w],
         SlopeLimiting => (at'[w] \in LimiterPending <=> at[w] \in LimiterPending),
         \A v \in Neigh[w] :
           /\ baryctr_coord_neigh'[<<w, v>>] = baryctr_coord_neigh[<<w, v>>]
           /\ q_ex'[<<w, v>>] = q_ex[<<w, v>>]
           /\ q_at_baryctr_neigh'[<<w, v>>] = q_at_baryctr_neigh[<<w, v>>]
  PROVE  SameData(w)
<1> SUFFICES ASSUME NEW v \in Neigh[w] PROVE RoundOf(InUse(<<w, v>>))' = RoundOf(InUse(<<w, v>>))
  BY DEF SameData
<1>1. InUse(<<w, v>>)' = InUse(<<w, v>>)
  BY DEF InUse, LimiterPending
<1> QED
  BY <1>1 DEF RoundOf

LEMMA OthersKeep ==
  ASSUME TypeOK, NEW u \in Unit, UnitStep(u), NEW w \in Unit \ {u}
  PROVE  SameRounds(w)
<1>1. at'[w] = at[w] /\ timestamp'[w] = timestamp[w]
  BY OthersStay
<1>2. ASSUME NEW v \in Neigh[w]
      PROVE  /\ baryctr_coord_neigh'[<<w, v>>] = baryctr_coord_neigh[<<w, v>>]
             /\ q_ex'[<<w, v>>] = q_ex[<<w, v>>]
             /\ q_at_baryctr_neigh'[<<w, v>>] = q_at_baryctr_neigh[<<w, v>>]
  <2>1. <<w, v>> \in RankBoundaries /\ <<w, v>>[1] # u
    BY NeighAssumption DEF RankBoundaries
  <2> QED
    BY <2>1 DEF UnitStep, InitData, PreReceiveAll, PreSendAll, PrePostReceive, PreWaitSends, Launch,
       Exchange, PreWork, Receive, WetDry, SlExchange, SlWork, SlReceive, SlWaitSends, Scrutinize,
       WaitSends, Output, Local, Taken
<1>3. PostedRounds(w)' = PostedRounds(w) /\ ConsumedRounds(w)' = ConsumedRounds(w)
  BY <1>1 DEF PostedRounds, ConsumedRounds
<1>4. SameData(w)
  BY <1>1, <1>2, KeepData
<1> QED
  BY <1>3, <1>4 DEF SameRounds

(* When u has waited for a round, its neighbours have published it.        *)
LEMMA NeighbourPosted ==
  ASSUME IInv, NEW u \in Unit, NEW c \in CommTypes, Awaits(u, c), NEW v \in Neigh[u]
  PROVE  PostedRounds(v) >= AskedRounds(u)
<1> DEFINE e == SendEnvelope(v, u)
<1>1. TypeOK /\ v \in Unit /\ e \in Envelopes /\ Link(v, u)
  BY EnvelopeOf DEF IInv
<1>2. at[u] \in ReceivePending(c) /\ <<u, v, c>> \notin unreceived
  BY <1>1, AwaitSteps
<1>3. posted[e] = <<>>
  BY <1>1, <1>2, OneType DEF Link, OneReceive
<1>4. PostedRounds(v) \in Int /\ AskedRounds(u) \in Int /\ Len(network[e]) \in Nat
  BY <1>1, DeliveredType DEF TypeOK, CommTypeOK
<1>5. Delivered(v, u) = AskedRounds(u)
  <2>1. Len(posted[e]) = 0
    BY <1>3
  <2> QED
    BY <1>4, <2>1 DEF Delivered
<1>6. Len(network[e]) = PostedRounds(v) - AskedRounds(u)
  BY <1>1, <1>5 DEF Link, InOrder
<1> QED
  BY <1>4, <1>6

LEMMA RoundStep ==
  ASSUME IInv, NEW u \in Unit, UnitStep(u)
  PROVE  Sync!Post(u) \/ Sync!Consume(u) \/ UNCHANGED Sync!vars
<1>1. TypeOK /\ RequestDiscipline /\ Chain(u)
  BY DEF IInv
<1>2. \A w \in Unit \ {u} : SameRounds(w)
  BY <1>1, OthersKeep
<1>3. CASE Silent(u)
  <2>1. SameData(u)
    BY <1>1, <1>3, SilentRounds, KeepData
  <2>2. SameRounds(u)
    BY <1>1, <1>3, <2>1, SilentRounds DEF SameRounds
  <2> QED
    BY <1>2, <2>2, KeepRounds
<1>4. CASE PreReceiveAll(u)
  <2>1. at[u] = "pre_receive" /\ at'[u] = "pre_send"
        /\ UNCHANGED <<timestamp, baryctr_coord_neigh, q_ex, q_at_baryctr_neigh>>
    BY <1>1, <1>4 DEF PreReceiveAll, Goto, TypeOK
  <2>2. SameData(u)
    BY <2>1, KeepData DEF LimiterPending
  <2>3. SameRounds(u)
    BY <2>1, <2>2 DEF SameRounds, PostedRounds, ConsumedRounds, BeforePostReceive
  <2> QED
    BY <1>2, <2>3, KeepRounds
<1>5. CASE PreSendAll(u) \/ Exchange(u) \/ SlExchange(u)
  <2>1. /\ \/ at[u] = "pre_send" /\ at'[u] = "pre_post_receive"
           \/ at[u] = "exchange" /\ at'[u] = "pre_work"
           \/ at[u] = "sl_exchange" /\ at'[u] = "sl_work"
        /\ UNCHANGED <<timestamp, baryctr_coord_neigh, q_ex, q_at_baryctr_neigh>>
    BY <1>1, <1>5 DEF PreSendAll, Exchange, SlExchange, Goto, TypeOK
  <2>2. SameData(u)
    BY <2>1, KeepData DEF LimiterPending
  <2>3. /\ PostedRounds(u) = ConsumedRounds(u)
        /\ PostedRounds(u)' = PostedRounds(u) + 1 /\ ConsumedRounds(u)' = ConsumedRounds(u)
    BY <1>1, <2>1, RoundPosted
  <2> QED
    BY <1>2, <2>2, <2>3, PostRound
<1>6. ASSUME NEW c \in CommTypes, Awaits(u, c) PROVE Sync!Consume(u)
  <2>1. /\ PostedRounds(u) = ConsumedRounds(u) + 1 /\ AskedRounds(u) = PostedRounds(u)
        /\ ConsumedRounds(u)' = ConsumedRounds(u) + 1 /\ PostedRounds(u)' = PostedRounds(u)
    BY <1>1, <1>6, RoundTaken DEF Awaits
  <2>2. \A v \in Neigh[u] : PostedRounds(v) >= PostedRounds(u)
    BY <1>6, <2>1, NeighbourPosted
  <2>3. ASSUME NEW v \in Neigh[u] PROVE RoundOf(InUse(<<u, v>>))' = PostedRounds(u)
    <3>1. <<u, v>> \in RankBoundaries
      BY NeighAssumption DEF RankBoundaries
    <3>2. receive_buffer[<<u, v, c>>] = Written(v, u, c, timestamp[u])
      BY <1>6, TakesAwaited
    <3>3. InUse(<<u, v>>)' = receive_buffer[<<u, v, c>>]
      <4>1. CASE PrePostReceive(u) /\ c = "baryctr_coord"
        <5>1. timestamp'[u] = 0
          BY <1>1, <4>1 DEF PrePostReceive, Chain, BeforePostReceive
        <5> QED
          BY <3>1, <4>1, <5>1 DEF PrePostReceive, InUse, Taken, GetFromReceiveBuffer
      <4>2. CASE Receive(u) /\ c = "bound_state"
        <5>1. timestamp'[u] # 0 /\ (SlopeLimiting => at'[u] \in LimiterPending)
          BY <1>1, <4>2 DEF Receive, TypeOK, Goto, AfterReceive, AfterWetDry, LimiterPending
        <5> QED
          BY <3>1, <4>2, <5>1 DEF Receive, InUse, Taken, GetFromReceiveBuffer, LimiterPending
      <4>3. CASE SlReceive(u) /\ c = "baryctr_state"
        <5>1. timestamp'[u] # 0 /\ SlopeLimiting /\ at'[u] \notin LimiterPending
          BY <1>1, <4>3 DEF SlReceive, TypeOK, Goto, Chain, LimiterPending
        <5> QED
          BY <3>1, <4>3, <5>1 DEF SlReceive, InUse, Taken, GetFromReceiveBuffer, LimiterPending
      <4> QED
        BY <1>6, <4>1, <4>2, <4>3 DEF Awaits
    <3>4. RoundOf(Written(v, u, c, timestamp[u])) = AskedRounds(u)
      BY <1>1, <1>6, AwaitSteps, AwaitedRound
    <3>5. RoundOf(InUse(<<u, v>>)') = AskedRounds(u)
      BY <3>2, <3>3, <3>4
    <3> QED
      BY <2>1, <3>5 DEF RoundOf, PerStage
  <2> QED
    BY <1>2, <2>1, <2>2, <2>3, TakeRound
<1> QED
  BY <1>3, <1>4, <1>5, <1>6, RkdgOmpiAssumption DEF UnitStep, Silent, Awaits

(* Every step of the program is a round posted, a round taken or no step   *)
(* of NeighbourSync.                                                       *)
THEOREM Implementation ==
  ASSUME FewSubmeshes
  PROVE  Spec => SyncSpec
<1>1. IInv /\ [Next]_vars => [Sync!Next]_(Sync!vars)
  <2> SUFFICES ASSUME IInv, [Next]_vars PROVE [Sync!Next]_(Sync!vars)
    OBVIOUS
  <2>1. ASSUME NEW u \in Unit, UnitStep(u) PROVE [Sync!Next]_(Sync!vars)
    BY <2>1, RoundStep DEF Sync!Next
  <2>2. CASE UNCHANGED rkdgVars
    <3>1. ASSUME NEW w \in Unit PROVE SameRounds(w)
      <4>1. PostedRounds(w)' = PostedRounds(w) /\ ConsumedRounds(w)' = ConsumedRounds(w)
        BY <2>2 DEF rkdgVars, PostedRounds, ConsumedRounds
      <4>2. SameData(w)
        BY <2>2, KeepData DEF rkdgVars
      <4> QED
        BY <4>1, <4>2 DEF SameRounds
    <3> QED
      BY <3>1, KeepRounds
  <2> QED
    BY <2>1, <2>2 DEF Next, Mpi, Terminated, vars
<1> QED
  BY <1>1, InitRounds, Invariance, PTL DEF Spec, SyncSpec, Sync!Spec
=============================================================================
