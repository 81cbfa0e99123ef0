--------------------------- MODULE OmpiCommunicator ---------------------------
(***************************************************************************)
(* OMPICommunicator: one persistent MPI send and one persistent receive    *)
(* request per communication type and rank boundary (a rank boundary is an *)
(* ordered pair of neighbouring submeshes), each bound to its own part of  *)
(* the rank boundary's send or receive buffer.                             *)
(*                                                                         *)
(* A request slot is <<u, v, c>>: submesh u, its neighbour v, type c.      *)
(* MPI sees no communication types: the envelope of a message is (source   *)
(* rank, destination rank, tag), and the tag is made of the two submesh    *)
(* numbers only.  Within an envelope messages match posted receives in the *)
(* order both were started (MPI's non-overtaking rule).                    *)
(***************************************************************************)
EXTENDS SubmeshGraph, Integers, Sequences, FiniteSets, SequencesExt

CONSTANTS
  Locality,    \* Locality[u]: the MPI rank that owns u
  SubmeshId,   \* SubmeshId[u]: the number of u on its rank
  CommTypes,   \* the communication types of the discretization
  ShortRange   \* number of values of an unsigned short (2^16)

ASSUME CommunicatorAssumption ==
  /\ IsFiniteSet(Unit)
  /\ Locality \in [Unit -> Nat]
  /\ SubmeshId \in [Unit -> Nat]
  /\ ShortRange \in Nat \ {0}

VARIABLES
  send_buffer,       \* per unit and type: timestamp of the state last written
  receive_buffer,    \* per slot: the data last received
  send_requests,     \* the slots whose send is started and not waited for
  receive_requests,  \* the slots whose receive is started and not waited for
  unsent,            \* slots among send_requests whose buffer MPI still reads
  unreceived,        \* slots among receive_requests MPI has not filled
  network,           \* per envelope: the messages sent and not yet matched
  posted,            \* per envelope: the receives started and not yet matched
  mpi_error          \* an erroneous use of MPI has happened

commVars == <<send_buffer, receive_buffer, send_requests, receive_requests,
              unsent, unreceived, network, posted, mpi_error>>

-----------------------------------------------------------------------------
RankBoundaries == {rb \in Unit \X Unit : rb[2] \in Neigh[rb[1]]}
Slots == {s \in Unit \X Unit \X CommTypes : s[2] \in Neigh[s[1]]}

(* (unsigned short)in << 16 | (unsigned short)ex                           *)
Tag(in, ex) == ((SubmeshId[in] % ShortRange) * ShortRange) + (SubmeshId[ex] % ShortRange)

(* Envelope of the messages u sends to v; v receives from u with its       *)
(* receive_tag, which swaps the two numbers of v's own send_tag.           *)
SendEnvelope(u, v) == <<Locality[u], Locality[v], Tag(u, v)>>
ReceiveEnvelope(u, v) == <<Locality[v], Locality[u], Tag(v, u)>>

Envelopes == {SendEnvelope(rb[1], rb[2]) : rb \in RankBoundaries}
             \cup {ReceiveEnvelope(rb[1], rb[2]) : rb \in RankBoundaries}

(* Data is known by its origin: who wrote it, for whom, for which type, in *)
(* which state.  A buffer not yet written holds the zeros of its resize.   *)
Data == [from : Unit, to : Unit, comm : CommTypes, ts : Nat \cup {-1}]
NotRead == [from |-> "sender", to |-> "sender", comm |-> "buffer", ts |-> -1]
Written(u, v, c, timestamp) == [from |-> u, to |-> v, comm |-> c, ts |-> timestamp]
Content(s) == Written(s[1], s[2], s[3], send_buffer[s[1]][s[3]])
Message == [slot : Slots, data : Data \cup {NotRead}]

-----------------------------------------------------------------------------
(* InitializeCommunication: the requests are created inactive.             *)
CommInit ==
  /\ send_buffer = [u \in Unit |-> [c \in CommTypes |-> -1]]
  /\ receive_buffer = [s \in Slots |-> Written(s[2], s[1], s[3], -1)]
  /\ send_requests = {}
  /\ receive_requests = {}
  /\ unsent = {}
  /\ unreceived = {}
  /\ network = [e \in Envelopes |-> <<>>]
  /\ posted = [e \in Envelopes |-> <<>>]
  /\ mpi_error = FALSE

(* Values stay in their ranges, and MPI holds on to no buffer whose request*)
(* was waited for.                                                         *)
CommTypeOK ==
  /\ send_buffer \in [Unit -> [CommTypes -> Nat \cup {-1}]]
  /\ receive_buffer \in [Slots -> Data]
  /\ send_requests \subseteq Slots /\ receive_requests \subseteq Slots
  /\ unsent \subseteq send_requests /\ unreceived \subseteq receive_requests
  /\ network \in [Envelopes -> Seq(Message)]
  /\ posted \in [Envelopes -> Seq(Slots)]
  /\ mpi_error \in BOOLEAN

UnitSlots(u, c) == {s \in Slots : s[1] = u /\ s[3] = c}

(* The slots among S whose requests use envelope e, in some order of the  *)
(* rank boundaries (one slot at most when the tags are distinct).          *)
SendsOn(e, S) == SetToSeq({s \in S : SendEnvelope(s[1], s[2]) = e})
ReceivesOn(e, S) == SetToSeq({s \in S : ReceiveEnvelope(s[1], s[2]) = e})

(* MPI_Startall on the send requests of u for type c; starting a request   *)
(* that is not inactive is erroneous.                                      *)
SendAll(u, c) ==
  /\ send_requests' = send_requests \cup UnitSlots(u, c)
  /\ unsent' = unsent \cup UnitSlots(u, c)
  /\ network' = [e \in Envelopes |-> network[e] \o
       LET q == SendsOn(e, UnitSlots(u, c))
       IN  [i \in DOMAIN q |-> [slot |-> q[i], data |-> NotRead]]]

(* MPI_Startall on the receive requests of u for type c.                   *)
ReceiveAll(u, c) ==
  /\ receive_requests' = receive_requests \cup UnitSlots(u, c)
  /\ unreceived' = unreceived \cup UnitSlots(u, c)
  /\ posted' = [e \in Envelopes |-> posted[e] \o ReceivesOn(e, UnitSlots(u, c))]

SendErroneous(u, c) == UnitSlots(u, c) \cap send_requests # {}
ReceiveErroneous(u, c) == UnitSlots(u, c) \cap receive_requests # {}

(* Mutants: MPI_Testall, whose flag is ignored, instead of MPI_Waitall.    *)
WaitAllSends_Test(u, c) == send_requests' = send_requests \ UnitSlots(u, c)
WaitAllReceives_Test(u, c) == receive_requests' = receive_requests \ UnitSlots(u, c)

(* MPI_Waitall: returns when all are complete, and makes them inactive.    *)
(* On inactive requests it returns at once.                                *)
WaitAllSends(u, c) ==
  /\ UnitSlots(u, c) \cap unsent = {}
  /\ send_requests' = send_requests \ UnitSlots(u, c)

WaitAllReceives(u, c) ==
  /\ UnitSlots(u, c) \cap unreceived = {}
  /\ receive_requests' = receive_requests \ UnitSlots(u, c)

(* DBDataExchanger::SetToSendBuffer for every distributed boundary of u.   *)
SetToSendBuffer(u, c, ts) == send_buffer' = [send_buffer EXCEPT ![u][c] = ts]

(* DBDataExchanger::GetFromReceiveBuffer                                   *)
GetFromReceiveBuffer(u, v, c) == receive_buffer[<<u, v, c>>]

-----------------------------------------------------------------------------
(* The MPI library (external).  It may read a started send's buffer at any *)
(* time (eager protocol), or only when the message is matched (rendezvous).*)
Buffer(e, i) ==
  /\ i \in DOMAIN network[e]
  /\ network[e][i].data = NotRead
  /\ network' = [network EXCEPT ![e][i].data = Content(network[e][i].slot)]
  /\ unsent' = unsent \ {network[e][i].slot}
  /\ UNCHANGED <<send_buffer, receive_buffer, send_requests, receive_requests,
                 unreceived, posted, mpi_error>>

(* The oldest message of an envelope fills the oldest posted receive; the  *)
(* lengths differ between types, so a foreign type is an error.            *)
Deliver(e) ==
  /\ network[e] # <<>> /\ posted[e] # <<>>
  /\ LET m == Head(network[e])
         r == Head(posted[e])
         d == IF m.data = NotRead THEN Content(m.slot) ELSE m.data
     IN  /\ receive_buffer' = [receive_buffer EXCEPT ![r] = d]
         /\ unreceived' = unreceived \ {r}
         /\ unsent' = IF m.data = NotRead THEN unsent \ {m.slot} ELSE unsent
         /\ mpi_error' = (mpi_error \/ d.comm # r[3])
  /\ network' = [network EXCEPT ![e] = Tail(@)]
  /\ posted' = [posted EXCEPT ![e] = Tail(@)]
  /\ UNCHANGED <<send_buffer, send_requests, receive_requests>>

MpiProgress ==
  \E e \in Envelopes : Deliver(e) \/ \E i \in DOMAIN network[e] : Buffer(e, i)
=============================================================================
