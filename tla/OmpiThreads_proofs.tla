---------------------------- MODULE OmpiThreads_proofs ----------------------------
(* Proofs about what the MPI programs share.  The division of submeshes    *)
(* among threads is a partition, for any number of threads and of          *)
(* submeshes; the calls of the communicator keep its state well-formed and *)
(* give every rank boundary messages of its own; the scans over submeshes  *)
(* and ranks number the edges of the mesh.                                 *)
EXTENDS GlobalNumbering, ExchangeLoops, FiniteSetTheorems, FunctionTheorems, TLAPS

(* A set of numbers has a least one, and is all of them if it has 0 and     *)
(* what follows each of its own.                                           *)
LEMMA Smallest ==
  ASSUME NEW T \in SUBSET Nat, T # {}
  PROVE  \E x \in T : \A y \in T : x <= y
<1> DEFINE R == OpToRel(<, Nat)
<1>1. IsWellFoundedOn(R, Nat)
  BY NatLessThanWellFounded
<1>2. \A x, y \in Nat : x < y => <<x, y>> \in R
  BY DEF OpToRel
<1> HIDE DEF R
<1>3. \E x \in T : \A y \in T : <<y, x>> \notin R
  BY <1>1, WFMin
<1>4. PICK x \in T : \A y \in T : <<y, x>> \notin R
  BY <1>3
<1>5. ASSUME NEW y \in T PROVE x <= y
  <2>1. <<y, x>> \notin R
    BY <1>4
  <2>2. ~(y < x)
    BY <1>2, <2>1
  <2>3. x \in Nat /\ y \in Nat
    OBVIOUS
  <2> HIDE DEF R
  <2> QED
    BY <2>2, <2>3
<1> QED
  BY <1>5

LEMMA Induction ==
  ASSUME NEW S \in SUBSET Nat, 0 \in S, \A n \in S : n + 1 \in S
  PROVE S = Nat
<1>1. SUFFICES ASSUME S # Nat PROVE FALSE
  OBVIOUS
<1>2. PICK x \in Nat \ S : \A y \in Nat \ S : x <= y
  BY <1>1, Smallest
<1>3. x - 1 \in S /\ x - 1 + 1 = x
  BY <1>2
<1> QED
  BY <1>2, <1>3

(* Rounding up: n things fit into t boxes of (n + t - 1) \div t, and the   *)
(* i-th thing into box i \div ((n + t - 1) \div t).                        *)
LEMMA RoundUp ==
  ASSUME NEW n \in Nat, NEW t \in Nat \ {0}
  PROVE  /\ (n + t - 1) \div t \in Nat
         /\ n <= ((n + t - 1) \div t) * t
<1> DEFINE q == (n + t - 1) \div t
           r == (n + t - 1) % t
<1>1. q \in Nat /\ r \in 0 .. t - 1 /\ n + t - 1 = t * q + r
  OBVIOUS
<1>2. t * q = q * t
  BY <1>1
<1> QED
  BY <1>1, <1>2

LEMMA Quotient ==
  ASSUME NEW i \in Nat, NEW p \in Nat \ {0}
  PROVE  /\ i \div p \in Nat
         /\ p * (i \div p) <= i
         /\ i < p * ((i \div p) + 1)
<1> DEFINE q == i \div p
           r == i % p
<1>1. q \in Nat /\ r \in 0 .. p - 1 /\ i = p * q + r
  OBVIOUS
<1>2. p * (q + 1) = p * q + p
  BY <1>1
<1> QED
  BY <1>1, <1>2

(* Every submesh of a rank is run by one thread, and by no other thread.   *)
THEOREM WorkSplit ==
  ASSUME NEW u \in Unit
  PROVE  /\ \E t \in 0 .. NumThreads[Locality[u]] - 1 : ThreadRuns(Locality[u], t, u)
         /\ \A t1, t2 \in 0 .. NumThreads[Locality[u]] - 1 :
              ThreadRuns(Locality[u], t1, u) /\ ThreadRuns(Locality[u], t2, u) => t1 = t2
<1> DEFINE l == Locality[u]
           n == NumUnits(l)
           m == NumThreads[l]
           p == SimPerThread(l)
           i == SubmeshId[u]
<1>1. n \in Nat
  <2>1. IsFiniteSet({v \in Unit : Locality[v] = l})
    BY FS_Subset, CommunicatorAssumption
  <2> QED
    BY <2>1, FS_CardinalityType DEF NumUnits
<1>2. m \in Nat \ {0} /\ i \in Nat /\ i < n
  BY OmpiThreadsAssumption, CommunicatorAssumption DEF NumUnits
<1>3. p \in Nat /\ n <= p * m
  BY <1>1, <1>2, RoundUp DEF SimPerThread
<1>4. p # 0
  BY <1>1, <1>2, <1>3
<1> DEFINE t0 == i \div p
<1>5. t0 \in Nat /\ p * t0 <= i /\ i < p * (t0 + 1)
  BY <1>2, <1>3, <1>4, Quotient
<1>6. t0 < m
  <2>1. SUFFICES ASSUME t0 >= m PROVE FALSE
    BY <1>2, <1>5
  <2>2. p * m <= p * t0
    BY <2>1, <1>2, <1>3, <1>5
  <2> QED
    BY <2>2, <1>1, <1>2, <1>3, <1>5
<1>7. ThreadRuns(l, t0, u)
  <2> HIDE DEF n, m, p, i, t0
  <2>1. BeginSimId(l, t0) = p * t0
    BY DEF BeginSimId, p
  <2>2. EndSimId(l, t0) = IF p * (t0 + 1) < n THEN p * (t0 + 1) ELSE n
    BY DEF EndSimId, p, n
  <2>3. BeginSimId(l, t0) <= i /\ i < EndSimId(l, t0)
    BY <2>1, <2>2, <1>1, <1>2, <1>5
  <2> QED
    BY <2>3 DEF ThreadRuns, i
<1>8. ASSUME NEW t1 \in 0 .. m - 1, NEW t2 \in 0 .. m - 1,
             ThreadRuns(l, t1, u), ThreadRuns(l, t2, u)
      PROVE  t1 = t2
  <2>1. \A t \in {t1, t2} : p * t <= i /\ i < p * (t + 1)
    <3> SUFFICES ASSUME NEW t \in {t1, t2} PROVE p * t <= i /\ i < p * (t + 1)
      OBVIOUS
    <3>1. t \in Nat /\ p * (t + 1) \in Nat
      BY <1>2, <1>3
    <3>2. p * t <= i /\ i < EndSimId(l, t)
      BY <1>8 DEF ThreadRuns, BeginSimId
    <3>3. EndSimId(l, t) <= p * (t + 1)
      BY <3>1, <1>1 DEF EndSimId
    <3>4. EndSimId(l, t) \in Nat
      BY <3>1, <1>1 DEF EndSimId
    <3> QED
      BY <3>1, <3>2, <3>3, <3>4, <1>2
  <2>2. \A x, y \in Nat : x < y => p * (x + 1) <= p * y
    <3> SUFFICES ASSUME NEW x \in Nat, NEW y \in Nat, x < y PROVE p * (x + 1) <= p * y
      OBVIOUS
    <3>1. x + 1 <= y
      OBVIOUS
    <3> HIDE DEF p
    <3> QED
      BY <3>1, <1>3
  <2>3. t1 \in Nat /\ t2 \in Nat
    BY <1>2
  <2> HIDE DEF p, i
  <2>4. ~(t1 < t2) /\ ~(t2 < t1)
    <3>1. p * t1 \in Nat /\ p * t2 \in Nat /\ p * (t1 + 1) \in Nat /\ p * (t2 + 1) \in Nat
      BY <1>3, <2>3
    <3> QED
      BY <2>1, <2>2, <2>3, <3>1, <1>2
  <2> QED
    BY <2>3, <2>4
<1> QED
  BY <1>6, <1>7, <1>8, <1>2, <1>5

(* Thread 0 of th's rank.                                                  *)
Master(th) == <<th[1], 0>>

(* A thread is a rank and a number, and every rank has a thread 0.         *)
LEMMA ThreadShape ==
  ASSUME NEW th \in Threads
  PROVE  /\ th = <<th[1], th[2]>> /\ th[1] \in Ranks /\ th[2] \in Nat
         /\ Master(th) \in Threads /\ Master(th)[1] = th[1]
<1>1. /\ th \in Ranks \X UNION {0 .. NumThreads[l] - 1 : l \in Ranks}
      /\ th[2] < NumThreads[th[1]]
  BY DEF Threads
<1>2. \A l \in Ranks : NumThreads[l] \in Nat \ {0}
  BY OmpiThreadsAssumption DEF Ranks
<1>3. th[2] \in Nat
  <2> PICK l \in Ranks : th[2] \in 0 .. NumThreads[l] - 1
    BY <1>1
  <2> QED
    BY <1>2
<1>4. 0 \in UNION {0 .. NumThreads[l] - 1 : l \in Ranks}
  BY <1>1, <1>2
<1>5. Master(th) \in Threads
  BY <1>1, <1>2, <1>4 DEF Master, Threads
<1> QED
  BY <1>1, <1>3, <1>5 DEF Master

LEMMA RankHasMaster ==
  ASSUME NEW l \in Ranks
  PROVE  <<l, 0>> \in Threads
<1>1. \A r \in Ranks : NumThreads[r] \in Nat \ {0}
  BY OmpiThreadsAssumption DEF Ranks
<1>2. 0 \in UNION {0 .. NumThreads[r] - 1 : r \in Ranks}
  BY <1>1
<1> QED
  BY <1>1, <1>2 DEF Threads

(* Every submesh is run by one thread, of the submesh's rank.              *)
LEMMA RunByOne ==
  ASSUME NEW u \in Unit
  PROVE  /\ \E th \in Threads : Runs(th, u)
         /\ \A th, m \in Threads : Runs(th, u) /\ Runs(m, u) => th = m
<1> DEFINE l == Locality[u]
<1>1. l \in Ranks /\ NumThreads[l] \in Nat \ {0}
  BY OmpiThreadsAssumption DEF Ranks
<1>2. PICK t \in 0 .. NumThreads[l] - 1 : ThreadRuns(l, t, u)
  BY WorkSplit
<1>3. <<l, t>> \in Threads /\ Runs(<<l, t>>, u)
  BY <1>1, <1>2 DEF Threads, Runs
<1>4. ASSUME NEW th \in Threads, NEW m \in Threads, Runs(th, u), Runs(m, u)
      PROVE  th = m
  <2>1. th[1] = l /\ m[1] = l
    BY <1>4 DEF Runs, ThreadRuns
  <2>2. th[2] \in 0 .. NumThreads[l] - 1 /\ m[2] \in 0 .. NumThreads[l] - 1
    BY <2>1, <1>1, ThreadShape DEF Threads
  <2>3. th[2] = m[2]
    BY <1>4, <2>1, <2>2, WorkSplit DEF Runs
  <2> QED
    BY <2>1, <2>3, ThreadShape
<1> QED
  BY <1>3, <1>4

(* The numbers of a thread's submeshes.                                    *)
LEMMA ThreadIds ==
  ASSUME NEW th \in Threads
  PROVE  /\ BeginSimId(th[1], th[2]) \in Int /\ EndSimId(th[1], th[2]) \in Int /\ NumUnits(th[1]) \in Int
         /\ th[2] = 0 => BeginSimId(th[1], th[2]) = 0
         /\ \A u \in Unit : Runs(th, u) =>
              /\ Locality[u] = th[1] /\ SubmeshId[u] \in Nat
              /\ BeginSimId(th[1], th[2]) <= SubmeshId[u] /\ SubmeshId[u] < EndSimId(th[1], th[2])
         /\ \A u \in Unit : Locality[u] = th[1] => SubmeshId[u] < NumUnits(th[1])
<1> DEFINE l == th[1]
           p == SimPerThread(l)
<1>1. l \in Ranks /\ th[2] \in Nat /\ NumThreads[l] \in Nat \ {0}
  BY ThreadShape, OmpiThreadsAssumption DEF Ranks
<1>2. NumUnits(l) \in Nat
  <2>1. IsFiniteSet({u \in Unit : Locality[u] = l})
    BY FS_Subset, CommunicatorAssumption
  <2> QED
    BY <2>1, FS_CardinalityType DEF NumUnits
<1>3. p \in Nat
  BY <1>1, <1>2, RoundUp DEF SimPerThread
<1>4. BeginSimId(l, th[2]) \in Int /\ p * (th[2] + 1) \in Int
  <2> HIDE DEF p, l
  <2>1. p * th[2] \in Int /\ p * (th[2] + 1) \in Int
    BY <1>1, <1>3
  <2>2. BeginSimId(l, th[2]) = p * th[2]
    BY DEF BeginSimId, p
  <2> QED
    BY <2>1, <2>2
<1>5. EndSimId(l, th[2]) \in Int
  BY <1>2, <1>4 DEF EndSimId
<1>6. th[2] = 0 => BeginSimId(l, th[2]) = 0
  BY <1>3 DEF BeginSimId
<1>7. \A u \in Unit : Locality[u] = l => SubmeshId[u] < NumUnits(l)
  BY OmpiThreadsAssumption DEF NumUnits
<1> QED
  BY <1>2, <1>4, <1>5, <1>6, <1>7, CommunicatorAssumption DEF Runs, ThreadRuns

(* Every rank has submeshes, and the first of them is thread 0's.          *)
LEMMA MasterHasWork ==
  ASSUME NEW l \in Ranks
  PROVE  0 < NumUnits(l) /\ BeginSimId(l, 0) = 0 /\ 0 < EndSimId(l, 0)
<1>1. PICK u \in Unit : Locality[u] = l
  BY DEF Ranks
<1>2. NumUnits(l) \in Nat
  <2>1. IsFiniteSet({w \in Unit : Locality[w] = l})
    BY FS_Subset, CommunicatorAssumption
  <2> QED
    BY <2>1, FS_CardinalityType DEF NumUnits
<1>3. SubmeshId[u] < NumUnits(l) /\ SubmeshId[u] \in Nat /\ NumThreads[l] \in Nat \ {0}
  BY <1>1, OmpiThreadsAssumption, CommunicatorAssumption DEF NumUnits
<1>4. SimPerThread(l) \in Nat /\ NumUnits(l) <= SimPerThread(l) * NumThreads[l]
  BY <1>2, <1>3, RoundUp DEF SimPerThread
<1>5. SimPerThread(l) # 0
  BY <1>2, <1>3, <1>4
<1>6. SimPerThread(l) * 0 = 0 /\ SimPerThread(l) * (0 + 1) = SimPerThread(l)
  BY <1>4
<1> QED
  BY <1>2, <1>3, <1>4, <1>5, <1>6 DEF BeginSimId, EndSimId

-----------------------------------------------------------------------------
(* Lemmas about the communicator.                                          *)

(* A unit has finitely many slots of a type: one for each neighbour.       *)
LEMMA UnitSlotsFinite ==
  ASSUME NEW u \in Unit, NEW c \in CommTypes
  PROVE  IsFiniteSet(UnitSlots(u, c))
<1> DEFINE neighbour == [s \in UnitSlots(u, c) |-> s[2]]
<1>1. neighbour \in [UnitSlots(u, c) -> Unit]
  BY DEF UnitSlots, Slots
<1>2. ASSUME NEW s \in UnitSlots(u, c), NEW t \in UnitSlots(u, c), neighbour[s] = neighbour[t]
      PROVE  s = t
  BY <1>2 DEF UnitSlots, Slots
<1>3. neighbour \in Injection(UnitSlots(u, c), Unit)
  BY <1>1, <1>2 DEF Injection, IsInjective
<1>4. QED
  BY <1>3, FS_Injection, CommunicatorAssumption

(* SetToSeq lists a finite set.                                            *)
LEMMA SetToSeqType ==
  ASSUME NEW S, IsFiniteSet(S)
  PROVE  SetToSeq(S) \in Seq(S)
<1>1. Cardinality(S) \in Nat /\ ExistsBijection(1 .. Cardinality(S), S)
  BY FS_CardinalityType
<1>2. \E f \in [1 .. Cardinality(S) -> S] : IsInjective(f)
  BY <1>1 DEF ExistsBijection, Bijection, Injection, IsInjective
<1>3. SetToSeq(S) \in [1 .. Cardinality(S) -> S]
  BY <1>2 DEF SetToSeq
<1>4. QED
  BY <1>1, <1>3

LEMMA SlotsToSeqType ==
  ASSUME NEW u \in Unit, NEW c \in CommTypes, NEW S \in SUBSET UnitSlots(u, c)
  PROVE  SetToSeq(S) \in Seq(Slots)
<1>1. IsFiniteSet(S)
  BY UnitSlotsFinite, FS_Subset
<1>2. SetToSeq(S) \in Seq(S)
  BY <1>1, SetToSeqType
<1>3. S \subseteq Slots
  BY DEF UnitSlots
<1>4. QED
  BY <1>2, <1>3

(* Starting the sends of a type appends well-formed messages.              *)
LEMMA SendAllType ==
  ASSUME CommTypeOK, NEW u \in Unit, NEW c \in CommTypes, SendAll(u, c)
  PROVE  /\ send_requests' \subseteq Slots
         /\ unsent' \subseteq send_requests'
         /\ network' \in [Envelopes -> Seq(Message)]
<1>1. send_requests' \subseteq Slots /\ unsent' \subseteq send_requests'
  BY DEF SendAll, CommTypeOK, UnitSlots
<1>2. ASSUME NEW e \in Envelopes
      PROVE  network'[e] \in Seq(Message)
  <2> DEFINE q == SendsOn(e, UnitSlots(u, c))
             added == [i \in DOMAIN q |-> [slot |-> q[i], data |-> NotRead]]
  <2>1. q \in Seq(Slots)
    BY SlotsToSeqType DEF SendsOn
  <2>2. added \in Seq(Message)
    <3> HIDE DEF q
    <3>1. \A i \in 1 .. Len(q) : [slot |-> q[i], data |-> NotRead] \in Message
      BY <2>1 DEF Message
    <3>2. QED
      BY <2>1, <3>1
  <2>3. network'[e] = network[e] \o added
    BY DEF SendAll
  <2>4. network[e] \in Seq(Message)
    BY DEF CommTypeOK
  <2>5. QED
    BY <2>2, <2>3, <2>4
<1>3. network' = [e \in Envelopes |-> network'[e]]
  BY DEF SendAll
<1>4. QED
  BY <1>1, <1>2, <1>3

(* Starting the receives of a type appends slots to the posted receives.   *)
LEMMA ReceiveAllType ==
  ASSUME CommTypeOK, NEW u \in Unit, NEW c \in CommTypes, ReceiveAll(u, c)
  PROVE  /\ receive_requests' \subseteq Slots
         /\ unreceived' \subseteq receive_requests'
         /\ posted' \in [Envelopes -> Seq(Slots)]
<1>1. receive_requests' \subseteq Slots /\ unreceived' \subseteq receive_requests'
  BY DEF ReceiveAll, CommTypeOK, UnitSlots
<1>2. ASSUME NEW e \in Envelopes
      PROVE  posted'[e] \in Seq(Slots)
  <2>1. ReceivesOn(e, UnitSlots(u, c)) \in Seq(Slots)
    BY SlotsToSeqType DEF ReceivesOn
  <2>2. posted[e] \in Seq(Slots)
    BY DEF CommTypeOK
  <2>3. posted'[e] = posted[e] \o ReceivesOn(e, UnitSlots(u, c))
    BY DEF ReceiveAll
  <2>4. QED
    BY <2>1, <2>2, <2>3
<1>3. posted' = [e \in Envelopes |-> posted'[e]]
  BY DEF ReceiveAll
<1>4. QED
  BY <1>1, <1>2, <1>3

(* What a send slot carries is data of its type.                           *)
LEMMA ContentType ==
  ASSUME CommTypeOK, NEW s \in Slots
  PROVE  Content(s) \in Data
<1>1. s[1] \in Unit /\ s[2] \in Unit /\ s[3] \in CommTypes
  BY DEF Slots
<1>2. send_buffer[s[1]][s[3]] \in Nat \cup {-1}
  BY <1>1 DEF CommTypeOK
<1>3. QED
  BY <1>1, <1>2 DEF Content, Written, Data

(* The MPI library keeps the communicator's state well-formed.             *)
LEMMA BufferType ==
  ASSUME CommTypeOK, NEW e \in Envelopes, NEW i \in DOMAIN network[e], Buffer(e, i)
  PROVE  CommTypeOK'
<1>1. network[e] \in Seq(Message) /\ network[e][i] \in Message
  BY DEF CommTypeOK
<1> DEFINE d == Content(network[e][i].slot)
<1>2. d \in Data
  BY <1>1, ContentType DEF Message
<1>3. [network[e] EXCEPT ![i].data = d] \in Seq(Message)
  <2> HIDE DEF d
  <2>1. [network[e][i] EXCEPT !.data = d] = [slot |-> network[e][i].slot, data |-> d]
    BY <1>1 DEF Message
  <2>2. [network[e][i] EXCEPT !.data = d] \in Message
    BY <1>1, <1>2, <2>1 DEF Message
  <2>3. QED
    BY <1>1, <2>2
<1>4. network' = [network EXCEPT ![e] = [network[e] EXCEPT ![i].data = d]]
  BY DEF Buffer
<1>5. network' \in [Envelopes -> Seq(Message)]
  BY <1>3, <1>4 DEF CommTypeOK
<1>6. QED
  BY <1>5 DEF CommTypeOK, Buffer

LEMMA DeliverType ==
  ASSUME CommTypeOK, NEW e \in Envelopes, Deliver(e)
  PROVE  CommTypeOK'
<1> DEFINE m == Head(network[e])
           d == IF m.data = NotRead THEN Content(m.slot) ELSE m.data
<1>1. m \in Message /\ Tail(network[e]) \in Seq(Message)
  BY DEF Deliver, CommTypeOK
<1>2. Head(posted[e]) \in Slots /\ Tail(posted[e]) \in Seq(Slots)
  BY DEF Deliver, CommTypeOK
<1>3. d \in Data
  BY <1>1, ContentType DEF Message
<1>4. receive_buffer' \in [Slots -> Data]
  BY <1>3 DEF Deliver, CommTypeOK
<1>5. network' \in [Envelopes -> Seq(Message)] /\ posted' \in [Envelopes -> Seq(Slots)]
  BY <1>1, <1>2 DEF Deliver, CommTypeOK
<1>6. mpi_error' \in BOOLEAN
  BY DEF Deliver, CommTypeOK
<1>7. QED
  BY <1>4, <1>5, <1>6 DEF CommTypeOK, Deliver

-----------------------------------------------------------------------------
(* Envelopes.                                                              *)

(* A tag tells the two submeshes apart: their numbers fit an unsigned      *)
(* short.  With more submeshes on a rank, rank boundaries share a tag, and *)
(* what is proved of the messages does not hold.                           *)
FewSubmeshes == \A u \in Unit : SubmeshId[u] < ShortRange

LEMMA PairNumber ==
  ASSUME NEW n \in Nat \ {0}, NEW a \in 0 .. n - 1, NEW b \in 0 .. n - 1,
         NEW c \in 0 .. n - 1, NEW d \in 0 .. n - 1, a * n + b = c * n + d
  PROVE  a = c /\ b = d
<1>1. ASSUME NEW x \in Nat, NEW y \in Nat, x < y PROVE x * n + n <= y * n
  <2>1. PICK k \in Nat : y = x + 1 + k
    <3>1. y - x - 1 \in Nat /\ y = x + 1 + (y - x - 1)
      BY <1>1
    <3> QED
      BY <3>1
  <2>2. y * n = x * n + n + k * n
    BY <2>1
  <2>3. k * n \in Nat /\ x * n \in Nat
    OBVIOUS
  <2> QED
    BY <2>2, <2>3
<1>2. a * n \in Nat /\ c * n \in Nat
  OBVIOUS
<1>3. ~(a < c) /\ ~(c < a)
  <2>1. ASSUME a < c PROVE FALSE
    <3>1. a * n + n <= c * n
      BY <1>1, <2>1
    <3> QED
      BY <1>2, <3>1
  <2>2. ASSUME c < a PROVE FALSE
    <3>1. c * n + n <= a * n
      BY <1>1, <2>2
    <3> QED
      BY <1>2, <3>1
  <2> QED
    BY <2>1, <2>2
<1> QED
  BY <1>3

(* Rank boundaries have envelopes of their own.                            *)
LEMMA EnvelopesDistinct ==
  ASSUME FewSubmeshes, NEW a \in Unit, NEW b \in Unit, NEW u \in Unit, NEW v \in Unit,
         SendEnvelope(a, b) = SendEnvelope(u, v)
  PROVE  a = u /\ b = v
<1>1. ASSUME NEW w \in Unit
      PROVE  /\ SubmeshId[w] % ShortRange = SubmeshId[w]
             /\ SubmeshId[w] \in 0 .. ShortRange - 1
  BY CommunicatorAssumption DEF FewSubmeshes
<1>2. SubmeshId[a] * ShortRange + SubmeshId[b] = SubmeshId[u] * ShortRange + SubmeshId[v]
  BY <1>1 DEF SendEnvelope, Tag
<1>3. SubmeshId[a] = SubmeshId[u] /\ SubmeshId[b] = SubmeshId[v]
  <2> DEFINE n == ShortRange
             i == SubmeshId[a]
             j == SubmeshId[b]
             k == SubmeshId[u]
             l == SubmeshId[v]
  <2>1. /\ n \in Nat \ {0} /\ i \in 0 .. n - 1 /\ j \in 0 .. n - 1
        /\ k \in 0 .. n - 1 /\ l \in 0 .. n - 1 /\ i * n + j = k * n + l
    BY <1>1, <1>2, CommunicatorAssumption
  <2> HIDE DEF n, i, j, k, l
  <2>2. i = k /\ j = l
    BY <2>1, PairNumber
  <2> QED
    BY <2>2 DEF i, j, k, l
<1>4. Locality[a] = Locality[u] /\ Locality[b] = Locality[v]
  BY DEF SendEnvelope
<1> QED
  BY <1>3, <1>4, OmpiThreadsAssumption

LEMMA EnvelopeOf ==
  ASSUME NEW v \in Unit, NEW u \in Neigh[v]
  PROVE  /\ SendEnvelope(u, v) \in Envelopes
         /\ ReceiveEnvelope(v, u) = SendEnvelope(u, v)
         /\ u \in Unit /\ v \in Neigh[u] /\ u # v
<1>1. u \in Unit /\ v \in Neigh[u] /\ u # v
  BY NeighAssumption
<1>2. <<u, v>> \in RankBoundaries
  BY <1>1 DEF RankBoundaries
<1> QED
  BY <1>1, <1>2 DEF Envelopes, ReceiveEnvelope, SendEnvelope

LEMMA EveryEnvelope ==
  ASSUME NEW e \in Envelopes
  PROVE  \E v \in Unit : \E u \in Neigh[v] : e = SendEnvelope(u, v)
BY NeighAssumption DEF Envelopes, RankBoundaries, ReceiveEnvelope, SendEnvelope

(* SetToSeq of no element and of one.                                      *)
LEMMA ShortSeq ==
  /\ SetToSeq({}) = <<>>
  /\ \A x : SetToSeq({x}) = <<x>>
<1>1. SetToSeq({}) = <<>>
  BY SetToSeqType, FS_EmptySet
<1>2. ASSUME NEW x PROVE SetToSeq({x}) = <<x>>
  <2>1. IsFiniteSet({x}) /\ Cardinality({x}) = 1
    BY FS_Singleton
  <2>2. ExistsBijection(1 .. 1, {x})
    BY <2>1, FS_CardinalityType
  <2>3. \E f \in [1 .. 1 -> {x}] : IsInjective(f)
    BY <2>2 DEF ExistsBijection, Bijection, Injection, IsInjective
  <2>4. SetToSeq({x}) \in [1 .. 1 -> {x}]
    BY <2>1, <2>3 DEF SetToSeq
  <2> QED
    BY <2>4
<1> QED
  BY <1>1, <1>2

(* One message for each neighbour.                                         *)
LEMMA SendAllNetwork ==
  ASSUME FewSubmeshes, CommTypeOK, NEW w \in Unit, NEW c \in CommTypes, SendAll(w, c),
         NEW v \in Unit, NEW u \in Neigh[v]
  PROVE  network'[SendEnvelope(u, v)] =
           IF u = w THEN Append(network[SendEnvelope(u, v)], [slot |-> <<u, v, c>>, data |-> NotRead])
           ELSE network[SendEnvelope(u, v)]
<1> DEFINE e == SendEnvelope(u, v)
           S == {s \in UnitSlots(w, c) : SendEnvelope(s[1], s[2]) = e}
           q == SendsOn(e, UnitSlots(w, c))
<1>1. e \in Envelopes /\ u \in Unit /\ v \in Neigh[u]
  BY EnvelopeOf
<1>2. network[e] \in Seq(Message)
  BY <1>1 DEF CommTypeOK
<1>3. network'[e] = network[e] \o [i \in DOMAIN q |-> [slot |-> q[i], data |-> NotRead]]
  BY <1>1 DEF SendAll
<1>4. ASSUME NEW s \in S PROVE s = <<u, v, c>> /\ w = u
  <2>1. s \in Unit \X Unit \X CommTypes /\ s[1] = w /\ s[3] = c
    BY DEF UnitSlots, Slots
  <2>2. s[1] = u /\ s[2] = v
    BY <1>1, <2>1, EnvelopesDistinct
  <2> QED
    BY <2>1, <2>2
<1>5. CASE u = w
  <2>1. <<u, v, c>> \in S
    BY <1>1, <1>5 DEF UnitSlots, Slots
  <2>2. S = {<<u, v, c>>}
    BY <1>4, <2>1
  <2>3. q = << <<u, v, c>> >>
    BY <2>2, ShortSeq DEF SendsOn
  <2>4. [i \in DOMAIN q |-> [slot |-> q[i], data |-> NotRead]] = << [slot |-> <<u, v, c>>, data |-> NotRead] >>
    BY <2>3
  <2> QED
    BY <1>2, <1>3, <1>5, <2>4
<1>6. CASE u # w
  <2>1. S = {}
    BY <1>4, <1>6
  <2>2. q = <<>>
    BY <2>1, ShortSeq DEF SendsOn
  <2>3. [i \in DOMAIN q |-> [slot |-> q[i], data |-> NotRead]] = <<>>
    BY <2>2
  <2> QED
    BY <1>2, <1>3, <1>6, <2>3
<1> QED
  BY <1>5, <1>6

(* One receive for each neighbour.                                         *)
LEMMA ReceiveAllPosted ==
  ASSUME FewSubmeshes, CommTypeOK, NEW w \in Unit, NEW c \in CommTypes, ReceiveAll(w, c),
         NEW v \in Unit, NEW u \in Neigh[v]
  PROVE  posted'[SendEnvelope(u, v)] =
           IF v = w THEN Append(posted[SendEnvelope(u, v)], <<v, u, c>>)
           ELSE posted[SendEnvelope(u, v)]
<1> DEFINE e == SendEnvelope(u, v)
           S == {s \in UnitSlots(w, c) : ReceiveEnvelope(s[1], s[2]) = e}
<1>1. e \in Envelopes /\ u \in Unit /\ v \in Neigh[u]
  BY EnvelopeOf
<1>2. posted[e] \in Seq(Slots)
  BY <1>1 DEF CommTypeOK
<1>3. posted'[e] = posted[e] \o SetToSeq(S)
  BY <1>1 DEF ReceiveAll, ReceivesOn
<1>4. ASSUME NEW s \in S PROVE s = <<v, u, c>> /\ w = v
  <2>1. s \in Unit \X Unit \X CommTypes /\ s[1] = w /\ s[3] = c /\ s[2] \in Neigh[s[1]]
    BY DEF UnitSlots, Slots
  <2>2. s[1] = v /\ s[2] = u
    BY <1>1, <2>1, EnvelopesDistinct, EnvelopeOf
  <2> QED
    BY <2>1, <2>2
<1>5. CASE v = w
  <2>1. <<v, u, c>> \in S
    BY <1>1, <1>5, EnvelopeOf DEF UnitSlots, Slots
  <2>2. S = {<<v, u, c>>}
    BY <1>4, <2>1
  <2>3. SetToSeq(S) = << <<v, u, c>> >>
    BY <2>2, ShortSeq
  <2>4. posted'[e] = posted[e] \o << <<v, u, c>> >>
    BY <1>3, <2>3
  <2> HIDE DEF S, e
  <2>5. posted[e] \o << <<v, u, c>> >> = Append(posted[e], <<v, u, c>>)
    BY <1>2
  <2> QED
    BY <1>5, <2>4, <2>5 DEF e
<1>6. CASE v # w
  <2>1. S = {}
    BY <1>4, <1>6
  <2>2. SetToSeq(S) = <<>>
    BY <2>1, ShortSeq
  <2>3. posted'[e] = posted[e] \o <<>>
    BY <1>3, <2>2
  <2> HIDE DEF S, e
  <2>4. posted[e] \o <<>> = posted[e]
    BY <1>2
  <2> QED
    BY <1>6, <2>3, <2>4 DEF e
<1> QED
  BY <1>5, <1>6

-----------------------------------------------------------------------------
(* Sums of counts.                                                         *)

(* A bijection between finite sets, or an injection into a set of the same *)
(* cardinality.                                                            *)
LEMMA SameSize ==
  ASSUME NEW S, NEW T, IsFiniteSet(S), NEW f \in [S -> T],
         \A x, y \in S : f[x] = f[y] => x = y,
         \A y \in T : \E x \in S : f[x] = y
  PROVE  IsFiniteSet(T) /\ Cardinality(T) = Cardinality(S)
<1>1. f \in Bijection(S, T)
  BY Fun_IsBij
<1> QED
  BY <1>1, FS_Bijection, Fun_ExistsBij

LEMMA OntoSameSize ==
  ASSUME NEW S, NEW T, IsFiniteSet(T), Cardinality(S) = Cardinality(T), NEW f \in [S -> T],
         \A x, y \in S : f[x] = f[y] => x = y
  PROVE  \A y \in T : \E x \in S : f[x] = y
<1>1. f \in Injection(S, T)
  BY Fun_IsInj
<1>2. f \in Surjection(S, T)
  BY <1>1, FS_Injection
<1> QED
  BY <1>2, Fun_SurjectionProperties

LEMMA NumbersBelow ==
  ASSUME NEW n \in Int
  PROVE  IsFiniteSet(0 .. n - 1) /\ (n \in Nat => Cardinality(0 .. n - 1) = n)
<1>1. n - 1 \in Int /\ 0 \in Int
  OBVIOUS
<1>2. IsFiniteSet(0 .. n - 1) /\ Cardinality(0 .. n - 1) = IF 0 > n - 1 THEN 0 ELSE (n - 1) - 0 + 1
  BY <1>1, FS_Interval
<1>3. n \in Nat => (IF 0 > n - 1 THEN 0 ELSE (n - 1) - 0 + 1) = n
  OBVIOUS
<1> QED
  BY <1>2, <1>3

LEMMA CountedPairs ==
  ASSUME NEW S, NEW f
  PROVE  /\ \A p \in Counted(f, S) : p = <<p[1], p[2]>> /\ p[1] \in S /\ p[2] \in 0 .. f[p[1]] - 1
         /\ \A x \in S : \A i \in 0 .. f[x] - 1 : <<x, i>> \in Counted(f, S)
BY DEF Counted

LEMMA SumFinite ==
  ASSUME NEW S, IsFiniteSet(S), NEW f, \A x \in S : f[x] \in Int
  PROVE  IsFiniteSet(Counted(f, S)) /\ SumOf(f, S) \in Nat
<1> DEFINE g == [x \in S |-> {x} \X (0 .. f[x] - 1)]
           R == {{x} \X (0 .. f[x] - 1) : x \in S}
<1>1. g \in Surjection(S, R)
  BY Fun_IsSurj
<1>2. IsFiniteSet(R)
  BY <1>1, FS_Surjection
<1>3. \A T \in R : IsFiniteSet(T)
  <2> SUFFICES ASSUME NEW x \in S PROVE IsFiniteSet({x} \X (0 .. f[x] - 1))
    OBVIOUS
  <2>1. IsFiniteSet(0 .. f[x] - 1) /\ IsFiniteSet({x})
    BY NumbersBelow, FS_Singleton
  <2> QED
    BY <2>1, FS_Product
<1>4. IsFiniteSet(Counted(f, S))
  BY <1>2, <1>3, FS_UNION DEF Counted
<1> QED
  BY <1>4, FS_CardinalityType DEF SumOf

LEMMA SumSplit ==
  ASSUME NEW S, NEW T, IsFiniteSet(S), IsFiniteSet(T), S \cap T = {},
         NEW f, \A x \in S \cup T : f[x] \in Int
  PROVE  SumOf(f, S \cup T) = SumOf(f, S) + SumOf(f, T)
<1>1. IsFiniteSet(Counted(f, S)) /\ IsFiniteSet(Counted(f, T))
  BY SumFinite
<1>2. Counted(f, S \cup T) = Counted(f, S) \cup Counted(f, T)
  BY DEF Counted
<1>3. Counted(f, S) \cap Counted(f, T) = {}
  BY CountedPairs
<1>4. Cardinality(Counted(f, S) \cup Counted(f, T)) =
        Cardinality(Counted(f, S)) + Cardinality(Counted(f, T)) - Cardinality({})
  BY <1>1, <1>3, FS_Union
<1>5. Cardinality({}) = 0 /\ SumOf(f, S) \in Nat /\ SumOf(f, T) \in Nat
  BY SumFinite, FS_EmptySet
<1>6. SumOf(f, S \cup T) = SumOf(f, S) + SumOf(f, T) - Cardinality({})
  BY <1>2, <1>4 DEF SumOf
<1> QED
  BY <1>5, <1>6

LEMMA SumGrows ==
  ASSUME NEW S, NEW T, IsFiniteSet(T), S \subseteq T,
         NEW f, \A x \in T : f[x] \in Int
  PROVE  SumOf(f, S) <= SumOf(f, T)
<1>1. Counted(f, S) \subseteq Counted(f, T) /\ IsFiniteSet(Counted(f, T))
  BY SumFinite DEF Counted
<1> QED
  BY <1>1, FS_Subset DEF SumOf

LEMMA SumOfOne ==
  ASSUME NEW x, NEW f, f[x] \in Nat
  PROVE  SumOf(f, {x}) = f[x]
<1> DEFINE K == 0 .. f[x] - 1
           C == Counted(f, {x})
           g == [i \in K |-> <<x, i>>]
<1>1. IsFiniteSet(K) /\ Cardinality(K) = f[x]
  BY NumbersBelow
<1>2. C = {x} \X K
  BY DEF Counted
<1> HIDE DEF K, C
<1>3. g \in [K -> C]
  BY <1>2
<1>5. \A i, j \in K : g[i] = g[j] => i = j
  OBVIOUS
<1>6. \A p \in C : \E i \in K : g[i] = p
  BY <1>2
<1> HIDE DEF g
<1>4. Cardinality(C) = Cardinality(K)
  BY <1>1, <1>3, <1>5, <1>6, SameSize
<1> QED
  BY <1>1, <1>4 DEF SumOf, C

(* k numbers the members of S from 0 to n - 1.                             *)
Numbers(k, S, n) ==
  /\ \A x \in S : k[x] \in 0 .. n - 1
  /\ \A x, y \in S : k[x] = k[y] => x = y
  /\ \A i \in 0 .. n - 1 : \E x \in S : k[x] = i

LEMMA CanBeNumbered ==
  ASSUME NEW S, NEW n \in Nat, IsFiniteSet(S), Cardinality(S) = n
  PROVE  \E k : Numbers(k, S, n)
<1> DEFINE T == 0 .. n - 1
<1>1. IsFiniteSet(T) /\ Cardinality(T) = n
  BY NumbersBelow
<1> HIDE DEF T
<1>2. ExistsBijection(S, T)
  BY <1>1, FS_SameCardinalityBij
<1>3. PICK k : k \in Bijection(S, T)
  BY <1>2 DEF ExistsBijection
<1>4. /\ \A x \in S : k[x] \in T
      /\ \A x, y \in S : k[x] = k[y] => x = y
      /\ \A i \in T : \E x \in S : k[x] = i
  BY <1>3, Fun_BijectionProperties
<1> QED
  BY <1>4 DEF Numbers, T

LEMMA Enumerations ==
  ASSUME NEW R, NEW g, \A l \in R : g[l] \in Nat,
         NEW C, \A l \in R : IsFiniteSet(C[l]) /\ Cardinality(C[l]) = g[l]
  PROVE  \E num : \A l \in R : Numbers(num[l], C[l], g[l])
<1>1. \A l \in R : \E k : Numbers(k, C[l], g[l])
  BY CanBeNumbered
<1> DEFINE num == [l \in R |-> CHOOSE k : Numbers(k, C[l], g[l])]
<1>2. \A l \in R : Numbers(num[l], C[l], g[l])
  BY <1>1
<1> QED
  BY <1>2

(* Summing up over the ranks what is summed up in each rank.               *)
LEMMA SumOverRanks ==
  ASSUME NEW R \in SUBSET Ranks, NEW f, \A u \in Unit : f[u] \in Int,
         NEW g, \A l \in R : g[l] = SumOf(f, UnitsOn(l))
  PROVE  SumOf(g, R) = SumOf(f, {u \in Unit : Locality[u] \in R})
<1> DEFINE At == [l \in R |-> UnitsOn(l)]
           Near == {u \in Unit : Locality[u] \in R}
           C == [l \in R |-> Counted(f, At[l])]
           All == Counted(f, Near)
<1>1. \A l \in R : At[l] \subseteq Unit
  BY DEF UnitsOn
<1>2. Near \subseteq Unit
  OBVIOUS
<1>3. \A u \in Unit : Locality[u] \in R => u \in At[Locality[u]] /\ u \in Near
  BY DEF UnitsOn
<1>4. \A l \in R : \A u \in At[l] : Locality[u] = l /\ u \in Near
  BY DEF UnitsOn
<1>5. \A u \in Near : Locality[u] \in R
  OBVIOUS
<1>6. \A l \in R : g[l] = SumOf(f, At[l])
  OBVIOUS
<1>7. SumOf(f, {u \in Unit : Locality[u] \in R}) = Cardinality(All)
  BY DEF SumOf
<1> HIDE DEF At, Near
<1>8. \A l \in R : C[l] = Counted(f, At[l])
  OBVIOUS
<1>9. ASSUME NEW p \in All PROVE Locality[p[1]] \in R /\ p \in C[Locality[p[1]]]
  <2>1. p = <<p[1], p[2]>> /\ p[1] \in Near /\ p[2] \in 0 .. f[p[1]] - 1
    BY CountedPairs
  <2>2. Locality[p[1]] \in R /\ p[1] \in At[Locality[p[1]]]
    BY <2>1, <1>2, <1>3, <1>5
  <2>3. <<p[1], p[2]>> \in C[Locality[p[1]]]
    BY <2>1, <2>2, CountedPairs
  <2> QED
    BY <2>1, <2>2, <2>3
<1>10. ASSUME NEW l \in R, NEW p \in C[l] PROVE p \in All /\ Locality[p[1]] = l
  <2>1. p = <<p[1], p[2]>> /\ p[1] \in At[l] /\ p[2] \in 0 .. f[p[1]] - 1
    BY CountedPairs
  <2>2. Locality[p[1]] = l /\ p[1] \in Near
    BY <2>1, <1>4
  <2>3. <<p[1], p[2]>> \in All
    BY <2>1, <2>2, CountedPairs
  <2> QED
    BY <2>1, <2>2, <2>3
<1>11. IsFiniteSet(Unit)
  BY CommunicatorAssumption
<1>12. IsFiniteSet(All)
  <2>1. IsFiniteSet(Near) /\ \A u \in Near : f[u] \in Int
    BY <1>2, <1>11, FS_Subset
  <2> QED
    BY <2>1, SumFinite
<1>13. \A l \in R : IsFiniteSet(C[l]) /\ Cardinality(C[l]) = g[l] /\ g[l] \in Nat
  <2> SUFFICES ASSUME NEW l \in R
               PROVE  IsFiniteSet(C[l]) /\ Cardinality(C[l]) = g[l] /\ g[l] \in Nat
    OBVIOUS
  <2>1. IsFiniteSet(At[l]) /\ \A u \in At[l] : f[u] \in Int
    BY <1>1, <1>11, FS_Subset
  <2>2. IsFiniteSet(Counted(f, At[l])) /\ SumOf(f, At[l]) \in Nat
    BY <2>1, SumFinite
  <2> QED
    BY <2>2, <1>6, <1>8 DEF SumOf
<1> HIDE DEF All, C
<1>19. PICK num : \A l \in R : Numbers(num[l], C[l], g[l])
  BY <1>13, Enumerations
<1>14. ASSUME NEW l \in R
       PROVE  /\ \A p \in C[l] : num[l][p] \in 0 .. g[l] - 1
              /\ \A p, q \in C[l] : num[l][p] = num[l][q] => p = q
              /\ \A i \in 0 .. g[l] - 1 : \E p \in C[l] : num[l][p] = i
  BY <1>19 DEF Numbers
<1> DEFINE img == [p \in All |-> <<Locality[p[1]], num[Locality[p[1]]][p]>>]
<1>15. img \in [All -> Counted(g, R)]
  <2> SUFFICES ASSUME NEW p \in All
               PROVE  <<Locality[p[1]], num[Locality[p[1]]][p]>> \in Counted(g, R)
    OBVIOUS
  <2>1. Locality[p[1]] \in R /\ num[Locality[p[1]]][p] \in 0 .. g[Locality[p[1]]] - 1
    BY <1>9, <1>14
  <2> QED
    BY <2>1, CountedPairs
<1>16. ASSUME NEW p \in All, NEW q \in All, img[p] = img[q] PROVE p = q
  <2> DEFINE l == Locality[p[1]]
  <2>1. Locality[q[1]] = l /\ num[l][p] = num[Locality[q[1]]][q]
    BY <1>16
  <2>2. l \in R /\ p \in C[l] /\ q \in C[l] /\ num[l][p] = num[l][q]
    BY <1>9, <2>1
  <2> HIDE DEF l
  <2> QED
    BY <2>2, <1>14
<1>17. ASSUME NEW y \in Counted(g, R) PROVE \E p \in All : img[p] = y
  <2>1. y = <<y[1], y[2]>> /\ y[1] \in R /\ y[2] \in 0 .. g[y[1]] - 1
    BY CountedPairs
  <2>2. PICK p \in C[y[1]] : num[y[1]][p] = y[2]
    BY <2>1, <1>14
  <2>3. p \in All /\ Locality[p[1]] = y[1]
    BY <2>1, <1>10
  <2> QED
    BY <2>1, <2>2, <2>3
<1> HIDE DEF img
<1>18. Cardinality(Counted(g, R)) = Cardinality(All)
  BY <1>12, <1>15, <1>16, <1>17, SameSize
<1> QED
  BY <1>7, <1>18 DEF SumOf

-----------------------------------------------------------------------------
(* The numbers of the edges.                                               *)

LEMMA OwnsOrder ==
  /\ \A u \in Unit : ~Owns(u, u)
  /\ \A u, v \in Unit : u = v \/ Owns(u, v) \/ Owns(v, u)
  /\ \A u, v \in Unit : ~(Owns(u, v) /\ Owns(v, u))
  /\ \A u, v, w \in Unit : Owns(u, v) /\ Owns(v, w) => Owns(u, w)
<1>1. \A u \in Unit : Locality[u] \in Nat /\ SubmeshId[u] \in Nat
  BY CommunicatorAssumption
<1>2. \A u, v \in Unit : Locality[u] = Locality[v] /\ SubmeshId[u] = SubmeshId[v] => u = v
  BY OmpiThreadsAssumption
<1>3. ASSUME NEW u \in Unit PROVE ~Owns(u, u)
  <2>1. Locality[u] \in Nat /\ SubmeshId[u] \in Nat
    BY <1>1
  <2>2. ~(Locality[u] < Locality[u]) /\ ~(SubmeshId[u] < SubmeshId[u])
    BY <2>1
  <2> QED
    BY <2>2 DEF Owns
<1>4. \A u, v \in Unit : u = v \/ Owns(u, v) \/ Owns(v, u)
  BY <1>1, <1>2 DEF Owns
<1>5. \A u, v \in Unit : ~(Owns(u, v) /\ Owns(v, u))
  BY <1>1 DEF Owns
<1>6. \A u, v, w \in Unit : Owns(u, v) /\ Owns(v, w) => Owns(u, w)
  BY <1>1 DEF Owns
<1> QED
  BY <1>3, <1>4, <1>5, <1>6

LEMMA CountsAreNumbers ==
  ASSUME NEW u \in Unit
  PROVE  /\ InnerEdges[u] \in Nat
         /\ IsFiniteSet(OwnedEdges(u)) /\ OwnedEdges(u) \subseteq Unit
         /\ Cardinality(OwnedEdges(u)) \in Nat
         /\ LocalCount(u) \in Nat /\ LocalCount(u) = InnerEdges[u] + Cardinality(OwnedEdges(u))
         /\ LocalCounts[u] = LocalCount(u)
<1>1. OwnedEdges(u) \subseteq Unit
  BY NeighAssumption DEF OwnedEdges
<1>2. IsFiniteSet(OwnedEdges(u))
  BY <1>1, CommunicatorAssumption, FS_Subset
<1>3. Cardinality(OwnedEdges(u)) \in Nat
  BY <1>2, FS_CardinalityType
<1>4. InnerEdges[u] \in Nat
  BY InnerEdgesAssumption
<1> QED
  BY <1>1, <1>2, <1>3, <1>4 DEF LocalCount, LocalCounts

(* The unknowns of the submeshes before u, and those of all submeshes.     *)
Before(u) == {w \in Unit : Owns(w, u)}
FirstNumber(u) == SumOf(LocalCounts, Before(u))
NumberOfUnknowns == SumOf(LocalCounts, Unit)

LEMMA SumsOfCounts ==
  ASSUME NEW S, S \subseteq Unit
  PROVE  IsFiniteSet(S) /\ SumOf(LocalCounts, S) \in Nat /\ \A u \in S : LocalCounts[u] \in Int
<1>1. IsFiniteSet(S)
  BY CommunicatorAssumption, FS_Subset
<1>2. ASSUME NEW u \in S PROVE LocalCounts[u] \in Int
  <2>1. u \in Unit
    OBVIOUS
  <2> QED
    BY <2>1, CountsAreNumbers
<1> QED
  BY <1>1, <1>2, SumFinite

(* The scan over the ranks before and the scan in the rank add up.         *)
LEMMA OffsetsAddUp ==
  ASSUME NEW u \in Unit, NEW gathered, \A r \in Ranks : gathered[r] = RankCount(r)
  PROVE  OffsetInRank(u) + OffsetOfRank(gathered, Locality[u]) = FirstNumber(u)
<1> DEFINE R == {r \in Ranks : r < Locality[u]}
           S == {w \in Unit : Locality[w] = Locality[u] /\ Owns(w, u)}
           T == {w \in Unit : Locality[w] \in R}
<1>1. \A w \in Unit : LocalCounts[w] \in Int
  BY CountsAreNumbers
<1>2. R \in SUBSET Ranks /\ \A r \in R : gathered[r] = SumOf(LocalCounts, UnitsOn(r))
  BY DEF RankCount
<1>3. S \subseteq Unit /\ T \subseteq Unit /\ S \cap T = {} /\ S \cup T = Before(u)
  <2>1. \A w \in Unit : Locality[w] \in Nat /\ Locality[w] \in Ranks
    BY CommunicatorAssumption DEF Ranks
  <2>2. S \cap T = {}
    BY <2>1
  <2>3. \A w \in Unit : Owns(w, u) <=> w \in S \/ w \in T
    BY <2>1 DEF Owns
  <2> QED
    BY <2>2, <2>3 DEF Before
<1>4. OffsetInRank(u) = SumOf(LocalCounts, S) /\ OffsetOfRank(gathered, Locality[u]) = SumOf(gathered, R)
  BY DEF OffsetInRank, OffsetOfRank
<1>5. SumOf(gathered, R) = SumOf(LocalCounts, T)
  <2> HIDE DEF R
  <2> QED
    BY <1>1, <1>2, SumOverRanks
<1> HIDE DEF R, S, T
<1>6. IsFiniteSet(S) /\ IsFiniteSet(T) /\ \A w \in S \cup T : LocalCounts[w] \in Int
  BY <1>3, SumsOfCounts
<1>7. SumOf(LocalCounts, S \cup T) = SumOf(LocalCounts, S) + SumOf(LocalCounts, T)
  BY <1>3, <1>6, SumSplit
<1> QED
  BY <1>3, <1>4, <1>5, <1>7 DEF FirstNumber

(* The numbers of u end before those of the submeshes after u begin.       *)
LEMMA NumbersApart ==
  ASSUME NEW u \in Unit
  PROVE  /\ FirstNumber(u) \in Nat /\ NumberOfUnknowns \in Nat
         /\ FirstNumber(u) + LocalCount(u) <= NumberOfUnknowns
         /\ \A v \in Unit : Owns(u, v) => FirstNumber(u) + LocalCount(u) <= FirstNumber(v)
<1> DEFINE To == Before(u) \cup {u}
<1>1. Before(u) \subseteq Unit /\ To \subseteq Unit /\ Before(u) \cap {u} = {}
  BY OwnsOrder DEF Before
<1>2. \A S : S \subseteq Unit => SumOf(LocalCounts, S) \in Nat
  BY SumsOfCounts
<1>3. SumOf(LocalCounts, To) = FirstNumber(u) + LocalCount(u)
  <2>1. IsFiniteSet(Before(u)) /\ IsFiniteSet({u}) /\ \A w \in To : LocalCounts[w] \in Int
    BY <1>1, SumsOfCounts
  <2>2. SumOf(LocalCounts, To) = SumOf(LocalCounts, Before(u)) + SumOf(LocalCounts, {u})
    BY <2>1, <1>1, SumSplit
  <2>3. SumOf(LocalCounts, {u}) = LocalCount(u)
    BY CountsAreNumbers, SumOfOne
  <2> QED
    BY <2>2, <2>3 DEF FirstNumber
<1>4. SumOf(LocalCounts, To) <= NumberOfUnknowns
  <2>1. IsFiniteSet(Unit) /\ \A w \in Unit : LocalCounts[w] \in Int
    BY SumsOfCounts
  <2> QED
    BY <1>1, <2>1, SumGrows DEF NumberOfUnknowns
<1>5. ASSUME NEW v \in Unit, Owns(u, v) PROVE FirstNumber(u) + LocalCount(u) <= FirstNumber(v)
  <2>1. To \subseteq Before(v) /\ Before(v) \subseteq Unit
    BY <1>5, OwnsOrder DEF Before
  <2>2. IsFiniteSet(Before(v)) /\ \A w \in Before(v) : LocalCounts[w] \in Int
    BY <2>1, SumsOfCounts
  <2>3. SumOf(LocalCounts, To) <= SumOf(LocalCounts, Before(v))
    BY <2>1, <2>2, SumGrows
  <2> QED
    BY <2>3, <1>3 DEF FirstNumber
<1> QED
  BY <1>1, <1>2, <1>3, <1>4, <1>5 DEF FirstNumber, NumberOfUnknowns

(* Every number below the total is one of exactly one submesh.             *)
LEMMA NumbersTaken ==
  ASSUME NEW n \in 0 .. NumberOfUnknowns - 1
  PROVE  \E u \in Unit : \E i \in 0 .. LocalCount(u) - 1 : n = FirstNumber(u) + i
<1> DEFINE C == Counted(LocalCounts, Unit)
           N == 0 .. NumberOfUnknowns - 1
           num == [p \in C |-> FirstNumber(p[1]) + p[2]]
<1>1. IsFiniteSet(C) /\ Cardinality(C) = NumberOfUnknowns /\ NumberOfUnknowns \in Nat
  <2>1. IsFiniteSet(Unit) /\ \A w \in Unit : LocalCounts[w] \in Int
    BY SumsOfCounts
  <2> QED
    BY <2>1, SumFinite DEF SumOf, NumberOfUnknowns
<1>2. IsFiniteSet(N) /\ Cardinality(N) = NumberOfUnknowns
  BY <1>1, NumbersBelow
<1>3. ASSUME NEW p \in C
      PROVE  /\ p = <<p[1], p[2]>> /\ p[1] \in Unit /\ p[2] \in 0 .. LocalCount(p[1]) - 1
             /\ FirstNumber(p[1]) \in Nat /\ LocalCount(p[1]) \in Nat
             /\ num[p] = FirstNumber(p[1]) + p[2]
  <2>1. p = <<p[1], p[2]>> /\ p[1] \in Unit /\ p[2] \in 0 .. LocalCounts[p[1]] - 1
    BY CountedPairs
  <2> QED
    BY <2>1, CountsAreNumbers, NumbersApart
<1>4. num \in [C -> N]
  <2> SUFFICES ASSUME NEW p \in C PROVE FirstNumber(p[1]) + p[2] \in N
    OBVIOUS
  <2>1. FirstNumber(p[1]) + LocalCount(p[1]) <= NumberOfUnknowns
    BY <1>3, NumbersApart
  <2> QED
    BY <1>1, <1>3, <2>1
<1>5. ASSUME NEW p \in C, NEW q \in C, num[p] = num[q] PROVE p = q
  <2> DEFINE u == p[1]
             v == q[1]
  <2>1. u \in Unit /\ v \in Unit /\ p = <<u, p[2]>> /\ q = <<v, q[2]>>
    BY <1>3
  <2>2. /\ FirstNumber(u) + p[2] = FirstNumber(v) + q[2]
        /\ p[2] \in 0 .. LocalCount(u) - 1 /\ q[2] \in 0 .. LocalCount(v) - 1
        /\ FirstNumber(u) \in Nat /\ LocalCount(u) \in Nat
        /\ FirstNumber(v) \in Nat /\ LocalCount(v) \in Nat
    BY <1>3, <1>5
  <2> HIDE DEF u, v
  <2>3. ~Owns(u, v)
    <3> SUFFICES ASSUME Owns(u, v) PROVE FALSE
      OBVIOUS
    <3>1. FirstNumber(u) + LocalCount(u) <= FirstNumber(v)
      BY <2>1, NumbersApart
    <3> QED
      BY <3>1, <2>2
  <2>4. ~Owns(v, u)
    <3> SUFFICES ASSUME Owns(v, u) PROVE FALSE
      OBVIOUS
    <3>1. FirstNumber(v) + LocalCount(v) <= FirstNumber(u)
      BY <2>1, NumbersApart
    <3> QED
      BY <3>1, <2>2
  <2>5. u = v
    BY <2>1, <2>3, <2>4, OwnsOrder
  <2>6. p[2] = q[2]
    BY <2>2, <2>5
  <2> QED
    BY <2>1, <2>5, <2>6
<1> HIDE DEF num
<1>6. \A y \in N : \E p \in C : num[p] = y
  <2> HIDE DEF N, C
  <2> QED
    BY <1>1, <1>2, <1>4, <1>5, OntoSameSize
<1>7. PICK p \in C : num[p] = n
  BY <1>6
<1> QED
  BY <1>3, <1>7

(* The owned edges of u count up from InnerEdges[u].                       *)
LEMMA OwnedNumbers ==
  ASSUME NEW u \in Unit, NEW n \in Nat, n = Cardinality(OwnedEdges(u))
  PROVE  /\ \A v \in OwnedEdges(u) : /\ LocalIndex(<<u, v>>) \in Nat
                                     /\ LocalIndex(<<u, v>>) - InnerEdges[u] \in 0 .. n - 1
         /\ \A v, w \in OwnedEdges(u) : LocalIndex(<<u, v>>) = LocalIndex(<<u, w>>) => v = w
         /\ \A i \in 0 .. n - 1 : \E v \in OwnedEdges(u) : LocalIndex(<<u, v>>) = InnerEdges[u] + i
<1> DEFINE O == OwnedEdges(u)
           Below(v) == {w \in O : Owns(w, v)}
           N == 0 .. n - 1
           num == [v \in O |-> Cardinality(Below(v))]
<1>1. IsFiniteSet(O) /\ O \subseteq Unit /\ InnerEdges[u] \in Nat
  BY CountsAreNumbers
<1>2. \A v \in O : LocalIndex(<<u, v>>) = InnerEdges[u] + num[v]
  BY OwnsOrder, <1>1 DEF LocalIndex, OwnedEdges
<1>3. ASSUME NEW v \in O PROVE IsFiniteSet(Below(v)) /\ num[v] \in Nat
  <2>1. IsFiniteSet(Below(v))
    BY <1>1, FS_Subset
  <2> QED
    BY <2>1, FS_CardinalityType
<1>4. ASSUME NEW v \in O, NEW w \in O, Owns(v, w) PROVE num[v] < num[w]
  <2>1. Below(v) \subseteq Below(w) /\ v \in Below(w) /\ v \notin Below(v)
    BY <1>1, <1>4, OwnsOrder
  <2>2. Cardinality(Below(v)) <= Cardinality(Below(w)) /\ Cardinality(Below(v)) # Cardinality(Below(w))
    <3> HIDE DEF Below
    <3> QED
      BY <2>1, <1>3, FS_Subset
  <2> QED
    BY <2>2, <1>3
<1>5. ASSUME NEW v \in O PROVE num[v] < n
  <2>1. Below(v) \subseteq O /\ v \notin Below(v)
    BY <1>1, OwnsOrder
  <2>2. Cardinality(Below(v)) <= Cardinality(O) /\ Cardinality(Below(v)) # Cardinality(O)
    <3> HIDE DEF Below
    <3> QED
      BY <2>1, <1>1, FS_Subset
  <2> QED
    BY <2>2, <1>3
<1>6. num \in [O -> N]
  <2> SUFFICES ASSUME NEW v \in O PROVE num[v] \in N
    OBVIOUS
  <2> QED
    BY <1>3, <1>5
<1>7. \A v, w \in O : num[v] = num[w] => v = w
  <2> SUFFICES ASSUME NEW v \in O, NEW w \in O, v # w PROVE num[v] # num[w]
    OBVIOUS
  <2>1. Owns(v, w) \/ Owns(w, v)
    BY <1>1, OwnsOrder
  <2>2. num[v] < num[w] \/ num[w] < num[v]
    BY <2>1, <1>4
  <2> QED
    BY <2>2, <1>3
<1>8. IsFiniteSet(N) /\ Cardinality(N) = Cardinality(O)
  BY NumbersBelow
<1> HIDE DEF num
<1>9. \A i \in N : \E v \in O : num[v] = i
  <2> HIDE DEF N, O
  <2> QED
    BY <1>6, <1>7, <1>8, OntoSameSize
<1>10. \A v \in O : num[v] \in N /\ num[v] \in Nat
  BY <1>3, <1>6
<1> QED
  BY <1>1, <1>2, <1>7, <1>9, <1>10

(* The numbers the pre_send functions, the two scans, the messages and     *)
(* post_receive give the edges are a numbering.                            *)
LEMMA NumberingFromOffsets ==
  ASSUME NEW indx,
         \A u \in Unit : indx[<<u, u>>] = FirstNumber(u),
         \A u \in Unit : \A v \in OwnedEdges(u) :
           indx[<<u, v>>] = FirstNumber(u) + LocalIndex(<<u, v>>),
         \A e \in RankBoundaries : Owns(e[2], e[1]) => indx[e] = indx[<<e[2], e[1]>>]
  PROVE  Numbering(indx)
<1> DEFINE Indices(e) == IF e[1] = e[2] THEN indx[e] .. indx[e] + InnerEdges[e[1]] - 1 ELSE {indx[e]}
           Own == {e \in Edges : e[1] = e[2] \/ Owns(e[1], e[2])}
           N == 0 .. NumberOfUnknowns - 1
<1>1. ASSUME NEW e \in RankBoundaries
      PROVE  /\ e = <<e[1], e[2]>> /\ e[1] \in Unit /\ e[2] \in Unit /\ e[1] # e[2]
             /\ e[2] \in Neigh[e[1]] /\ e[1] \in Neigh[e[2]]
             /\ <<e[2], e[1]>> \in RankBoundaries
  BY NeighAssumption DEF RankBoundaries
<1>2. \A e \in RankBoundaries : indx[e] = indx[<<e[2], e[1]>>]
  <2> SUFFICES ASSUME NEW e \in RankBoundaries PROVE indx[e] = indx[<<e[2], e[1]>>]
    OBVIOUS
  <2> DEFINE d == <<e[2], e[1]>>
  <2>1. d \in RankBoundaries /\ e = <<d[2], d[1]>> /\ d[1] = e[2] /\ d[2] = e[1]
    BY <1>1
  <2>2. Owns(e[1], e[2]) \/ Owns(e[2], e[1])
    BY <1>1, OwnsOrder
  <2> QED
    BY <2>1, <2>2
<1>3. ASSUME NEW e \in Own
      PROVE  /\ e = <<e[1], e[2]>> /\ e[1] \in Unit
             /\ e[1] # e[2] => e[2] \in OwnedEdges(e[1])
  <2>1. CASE e \in RankBoundaries
    BY <1>1, <2>1 DEF OwnedEdges
  <2>2. CASE e \notin RankBoundaries
    <3>1. PICK u \in Unit : e = <<u, u>>
      BY <2>2 DEF Edges
    <3> QED
      BY <3>1
  <2> QED
    BY <2>1, <2>2
<1>4. ASSUME NEW u \in Unit
      PROVE  <<u, u>> \in Own /\ \A v \in OwnedEdges(u) : <<u, v>> \in Own /\ u # v
  BY OwnsOrder, NeighAssumption DEF Edges, OwnedEdges, RankBoundaries
<1>5. ASSUME NEW e \in Own, NEW n \in Indices(e)
      PROVE  /\ n \in Int /\ FirstNumber(e[1]) <= n /\ n < FirstNumber(e[1]) + LocalCount(e[1])
             /\ e[1] = e[2] => n < FirstNumber(e[1]) + InnerEdges[e[1]]
             /\ e[1] # e[2] => n >= FirstNumber(e[1]) + InnerEdges[e[1]]
             /\ e[1] # e[2] => n = FirstNumber(e[1]) + LocalIndex(e)
             /\ e[1] # e[2] => LocalIndex(e) \in Int
  <2> DEFINE u == e[1]
             v == e[2]
             c == Cardinality(OwnedEdges(u))
  <2>1. u \in Unit /\ e = <<u, v>> /\ (u # v => v \in OwnedEdges(u))
    BY <1>3
  <2>2. /\ InnerEdges[u] \in Nat /\ c \in Nat /\ LocalCount(u) = InnerEdges[u] + c
        /\ FirstNumber(u) \in Nat
    BY <2>1, CountsAreNumbers, NumbersApart
  <2>3. CASE u = v
    <3>1. n \in FirstNumber(u) .. FirstNumber(u) + InnerEdges[u] - 1
      BY <2>1, <2>3
    <3> QED
      BY <2>2, <2>3, <3>1
  <2>4. CASE u # v
    <3>1. n = FirstNumber(u) + LocalIndex(e)
      BY <2>1, <2>4
    <3>2. LocalIndex(e) \in Nat /\ LocalIndex(e) - InnerEdges[u] \in 0 .. c - 1
      BY <2>1, <2>2, <2>4, OwnedNumbers
    <3>3. LocalIndex(e) \in Int
      BY <3>2
    <3> HIDE DEF Indices, c
    <3> QED
      BY <2>2, <2>4, <3>1, <3>2, <3>3
  <2> QED
    BY <2>3, <2>4
<1>6. ASSUME NEW e \in Own, NEW n \in Indices(e) PROVE n \in N
  <2>1. e[1] \in Unit /\ FirstNumber(e[1]) <= n /\ n < FirstNumber(e[1]) + LocalCount(e[1]) /\ n \in Int
    BY <1>3, <1>5
  <2>2. /\ FirstNumber(e[1]) \in Nat /\ NumberOfUnknowns \in Nat /\ LocalCount(e[1]) \in Nat
        /\ FirstNumber(e[1]) + LocalCount(e[1]) <= NumberOfUnknowns
    BY <2>1, CountsAreNumbers, NumbersApart
  <2> QED
    BY <2>1, <2>2
<1>7. ASSUME NEW n \in N PROVE \E e \in Own : n \in Indices(e)
  <2>1. PICK u \in Unit : \E i \in 0 .. LocalCount(u) - 1 : n = FirstNumber(u) + i
    BY <1>7, NumbersTaken
  <2>2. PICK i \in 0 .. LocalCount(u) - 1 : n = FirstNumber(u) + i
    BY <2>1
  <2> DEFINE c == Cardinality(OwnedEdges(u))
  <2>3. /\ InnerEdges[u] \in Nat /\ c \in Nat /\ LocalCount(u) = InnerEdges[u] + c
        /\ FirstNumber(u) \in Nat
    BY CountsAreNumbers, NumbersApart
  <2>4. CASE i < InnerEdges[u]
    <3>1. n \in FirstNumber(u) .. FirstNumber(u) + InnerEdges[u] - 1
      BY <2>2, <2>3, <2>4
    <3>2. n \in Indices(<<u, u>>)
      BY <3>1
    <3> QED
      BY <3>2, <1>4
  <2>5. CASE i >= InnerEdges[u]
    <3>1. i - InnerEdges[u] \in 0 .. c - 1 /\ InnerEdges[u] + (i - InnerEdges[u]) = i
      BY <2>2, <2>3, <2>5
    <3>2. PICK v \in OwnedEdges(u) : LocalIndex(<<u, v>>) = InnerEdges[u] + (i - InnerEdges[u])
      BY <3>1, <2>3, OwnedNumbers
    <3>5. indx[<<u, v>>] = FirstNumber(u) + LocalIndex(<<u, v>>)
      OBVIOUS
    <3>6. LocalIndex(<<u, v>>) = i
      BY <3>1, <3>2
    <3>7. <<u, v>> \in Own /\ u # v
      BY <1>4
    <3> HIDE DEF Own
    <3>3. indx[<<u, v>>] = n /\ u # v /\ <<u, v>> \in Own
      BY <3>5, <3>6, <3>7, <2>2
    <3>4. n \in Indices(<<u, v>>)
      BY <3>3
    <3> QED
      BY <3>3, <3>4
  <2>6. i \in Int /\ InnerEdges[u] \in Int
    BY <2>2, <2>3
  <2> QED
    BY <2>4, <2>5, <2>6
<1>8. ASSUME NEW e \in Own, NEW f \in Own, e # f PROVE Indices(e) \cap Indices(f) = {}
  <2> SUFFICES ASSUME NEW n \in Indices(e), n \in Indices(f) PROVE FALSE
    OBVIOUS
  <2> HIDE DEF Indices
  <2> DEFINE u == e[1]
             v == f[1]
  <2>1. /\ u \in Unit /\ v \in Unit /\ e = <<u, e[2]>> /\ f = <<v, f[2]>>
        /\ FirstNumber(u) \in Nat /\ FirstNumber(v) \in Nat
        /\ LocalCount(u) \in Nat /\ LocalCount(v) \in Nat
        /\ InnerEdges[u] \in Nat
    BY <1>3, CountsAreNumbers, NumbersApart
  <2>2. /\ n \in Int /\ FirstNumber(u) <= n /\ n < FirstNumber(u) + LocalCount(u)
        /\ u = e[2] => n < FirstNumber(u) + InnerEdges[u]
        /\ u # e[2] => n >= FirstNumber(u) + InnerEdges[u]
        /\ u # e[2] => n = FirstNumber(u) + LocalIndex(e)
        /\ u # e[2] => LocalIndex(e) \in Int
    BY <1>5
  <2>3. /\ FirstNumber(v) <= n /\ n < FirstNumber(v) + LocalCount(v)
        /\ v = f[2] => n < FirstNumber(v) + InnerEdges[v]
        /\ v # f[2] => n >= FirstNumber(v) + InnerEdges[v]
        /\ v # f[2] => n = FirstNumber(v) + LocalIndex(f)
        /\ v # f[2] => LocalIndex(f) \in Int
    BY <1>5
  <2>4. Owns(u, v) => FirstNumber(u) + LocalCount(u) <= FirstNumber(v)
    BY <2>1, NumbersApart
  <2>5. Owns(v, u) => FirstNumber(v) + LocalCount(v) <= FirstNumber(u)
    BY <2>1, NumbersApart
  <2>6. u = v \/ Owns(u, v) \/ Owns(v, u)
    BY <2>1, OwnsOrder
  <2>7. (u # e[2] => e[2] \in OwnedEdges(u)) /\ (v # f[2] => f[2] \in OwnedEdges(v))
    BY <1>3
  <2> HIDE DEF u, v
  <2>8. u = v
    BY <2>1, <2>2, <2>3, <2>4, <2>5, <2>6
  <2>9. (u = e[2]) <=> (v = f[2])
    BY <2>1, <2>2, <2>3, <2>8
  <2>10. u # e[2] /\ v # f[2]
    BY <2>1, <2>8, <2>9, <1>8
  <2>11. LocalIndex(e) = LocalIndex(f)
    BY <2>1, <2>2, <2>3, <2>8, <2>10
  <2>12. e[2] = f[2]
    <3>1. LocalIndex(<<u, e[2]>>) = LocalIndex(<<u, f[2]>>) /\ e[2] \in OwnedEdges(u) /\ f[2] \in OwnedEdges(u)
      BY <2>1, <2>7, <2>8, <2>10, <2>11
    <3>2. Cardinality(OwnedEdges(u)) \in Nat
      BY <2>1, CountsAreNumbers
    <3> QED
      BY <2>1, <3>1, <3>2, OwnedNumbers
  <2> QED
    BY <2>1, <2>8, <2>12, <1>8
<1>9. UNION {Indices(e) : e \in Own} = N
  <2> HIDE DEF Indices, Own, N
  <2> QED
    BY <1>6, <1>7
<1> QED
  BY <1>2, <1>8, <1>9 DEF Numbering, NumberOfUnknowns

(* The numbers of edges and the counts they are made of are numbers.       *)
LEMMA EdgeTypes ==
  ASSUME NEW u \in Unit
  PROVE  /\ OffsetInRank(u) \in Int /\ FirstNumber(u) \in Int
         /\ <<u, u>> \in Edges
         /\ \A v \in Neigh[u] : v \in Unit /\ v # u /\ <<u, v>> \in Edges /\ u \in Neigh[v]
         /\ \A v \in OwnedEdges(u) : v \in Neigh[u] /\ Owns(u, v) /\ LocalIndex(<<u, v>>) \in Int
<1>1. OffsetInRank(u) \in Int
  <2>1. {w \in Unit : Locality[w] = Locality[u] /\ Owns(w, u)} \subseteq Unit
    OBVIOUS
  <2> QED
    BY <2>1, SumsOfCounts DEF OffsetInRank
<1>2. FirstNumber(u) \in Int
  BY NumbersApart
<1>3. \A v \in OwnedEdges(u) : LocalIndex(<<u, v>>) \in Int
  BY OwnedNumbers, CountsAreNumbers
<1> QED
  BY <1>1, <1>2, <1>3, NeighAssumption DEF Edges, RankBoundaries, OwnedEdges

LEMMA LocalIndexType == \A e \in Edges : LocalIndex(e) \in Int
<1> SUFFICES ASSUME NEW e \in Edges PROVE LocalIndex(e) \in Int
  OBVIOUS
<1>1. CASE e[1] = e[2]
  BY <1>1 DEF LocalIndex
<1>2. CASE e[1] # e[2] /\ ~Owns(e[1], e[2])
  BY <1>2 DEF LocalIndex
<1>3. CASE e[1] # e[2] /\ Owns(e[1], e[2])
  <2>1. e \in RankBoundaries
    BY <1>3 DEF Edges
  <2>2. e[1] \in Unit /\ e = <<e[1], e[2]>> /\ e[2] \in OwnedEdges(e[1])
    BY <1>3, <2>1 DEF RankBoundaries, OwnedEdges
  <2> QED
    BY <2>2, EdgeTypes
<1> QED
  BY <1>1, <1>2, <1>3

LEMMA RankCountType == \A l \in Ranks : RankCount(l) \in Nat
<1> SUFFICES ASSUME NEW l \in Ranks PROVE RankCount(l) \in Nat
  OBVIOUS
<1>1. UnitsOn(l) \subseteq Unit
  BY DEF UnitsOn
<1> QED
  BY <1>1, SumsOfCounts DEF RankCount

LEMMA OffsetOfRankType ==
  ASSUME NEW f, \A l \in Ranks : f[l] = RankCount(l), NEW l \in Ranks
  PROVE  OffsetOfRank(f, l) \in Int
<1> DEFINE R == {r \in Ranks : r < l}
<1>1. \A r \in R : f[r] \in Int
  BY RankCountType
<1>2. IsFiniteSet(R)
  <2> DEFINE loc == [u \in Unit |-> Locality[u]]
  <2>1. loc \in Surjection(Unit, Ranks)
    BY Fun_IsSurj DEF Ranks
  <2>2. IsFiniteSet(Ranks)
    BY <2>1, CommunicatorAssumption, FS_Surjection
  <2> QED
    BY <2>2, FS_Subset
<1> HIDE DEF R
<1>3. SumOf(f, R) \in Nat
  BY <1>1, <1>2, SumFinite
<1> QED
  BY <1>3 DEF OffsetOfRank, R
=============================================================================
