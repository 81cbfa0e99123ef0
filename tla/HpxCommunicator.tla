--------------------------- MODULE HpxCommunicator ---------------------------
(***************************************************************************)
(* HPXCommunicator: one HPX channel per ordered pair of neighbouring       *)
(* submeshes.  A message is put into the channel under a generation number *)
(* computed from the communication type and the stepper's timestamp, and   *)
(* taken out under the same number, whatever the order of arrival.         *)
(***************************************************************************)
EXTENDS SubmeshGraph, Integers, FiniteSets

CONSTANTS
  CommTypes,   \* the communication types of the discretization
  CommIndex,   \* CommIndex[c]: the value of the enumerator c
  UintRange    \* number of values of an unsigned int (2^32)

ASSUME HpxCommunicatorAssumption ==
  /\ CommIndex \in [CommTypes -> Nat]
  /\ UintRange \in Nat \ {0}

VARIABLES
  send_buffer,     \* per unit and type: timestamp of the state last written
  receive_buffer,  \* per slot: the data last received
  channel,         \* per rank boundary: what was set and not yet taken
  pending,         \* the gets whose value has not arrived
  channel_error    \* a generation was set while an earlier value is there

commVars == <<send_buffer, receive_buffer, channel, pending, channel_error>>

-----------------------------------------------------------------------------
RankBoundaries == {rb \in Unit \X Unit : rb[2] \in Neigh[rb[1]]}
Slots == {s \in Unit \X Unit \X CommTypes : s[2] \in Neigh[s[1]]}

Data == [from : Unit, to : Unit, comm : CommTypes, ts : Nat \cup {-1}]
Written(u, v, c, timestamp) == [from |-> u, to |-> v, comm |-> c, ts |-> timestamp]

(* Mutant: one generation per time stamp, whatever the type.               *)
Offset_NoType(c, timestamp) == (Cardinality(CommTypes) * timestamp) % UintRange

(* GetNCommunications() * timestamp + comm_type, in an unsigned int.       *)
Offset(c, timestamp) == (Cardinality(CommTypes) * timestamp + CommIndex[c]) % UintRange

(* The channels are registered and connected by their names; nothing is    *)
(* sent.                                                                   *)
CommInit ==
  /\ send_buffer = [u \in Unit |-> [c \in CommTypes |-> -1]]
  /\ receive_buffer = [s \in Slots |-> Written(s[2], s[1], s[3], -1)]
  /\ channel = [rb \in RankBoundaries |-> {}]
  /\ pending = {}
  /\ channel_error = FALSE

(* SetToSendBuffer for every distributed boundary of u, then SendAll: the  *)
(* channel takes a copy of the buffer.                                     *)
SendAll(u, c, data_ts, timestamp) ==
  LET offset == Offset(c, timestamp)
  IN  /\ send_buffer' = [send_buffer EXCEPT ![u][c] = data_ts]
      /\ channel' = [rb \in RankBoundaries |->
           IF rb[1] = u
           THEN channel[rb] \cup {[offset |-> offset, data |-> Written(u, rb[2], c, data_ts)]}
           ELSE channel[rb]]
      /\ channel_error' = (channel_error \/
           \E v \in Neigh[u] : \E m \in channel[<<u, v>>] : m.offset = offset)

(* A get for every rank boundary; the messages arrive later.               *)
ReceiveAll(u, c, timestamp) ==
  pending' = pending \cup {[slot |-> s, offset |-> Offset(c, timestamp)] :
                             s \in {t \in Slots : t[1] = u /\ t[3] = c}}

(* Mutant: the values of a channel are taken in any order.                 *)
Arrive_AnyGeneration(p) ==
  \E m \in channel[<<p.slot[2], p.slot[1]>>] :
    /\ receive_buffer' = [receive_buffer EXCEPT ![p.slot] = m.data]
    /\ channel' = [channel EXCEPT ![<<p.slot[2], p.slot[1]>>] = @ \ {m}]
    /\ pending' = pending \ {p}
    /\ UNCHANGED <<send_buffer, channel_error>>

(* The continuation of a get stores the message in the receive buffer of   *)
(* the type, at any time after the value was set.                          *)
Arrive(p) ==
  \E m \in channel[<<p.slot[2], p.slot[1]>>] :
    /\ m.offset = p.offset
    /\ receive_buffer' = [receive_buffer EXCEPT ![p.slot] = m.data]
    /\ channel' = [channel EXCEPT ![<<p.slot[2], p.slot[1]>>] = @ \ {m}]
    /\ pending' = pending \ {p}
    /\ UNCHANGED <<send_buffer, channel_error>>

(* Mutant: when_any instead of when_all.                                   *)
Received_Any(u, c) ==
  \/ Neigh[u] = {}
  \/ \E v \in Neigh[u] : \A p \in pending : p.slot # <<u, v, c>>

(* The future of ReceiveAll is ready (when_all).                           *)
Received(u, c) == \A p \in pending : ~(p.slot[1] = u /\ p.slot[3] = c)

(* DBDataExchanger::GetFromReceiveBuffer for all distributed boundaries of *)
(* u.                                                                      *)
Taken(old, u, c) ==
  [rb \in RankBoundaries |-> IF rb[1] = u THEN receive_buffer[<<u, rb[2], c>>] ELSE old[rb]]
=============================================================================
