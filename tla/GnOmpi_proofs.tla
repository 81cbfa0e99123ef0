---------------------------- MODULE GnOmpi_proofs ----------------------------
(***************************************************************************)
(* Proofs about GnOmpi, for every mesh partition, assignment of submeshes  *)
(* to ranks and threads, number of stages and of steps.                    *)
(***************************************************************************)
EXTENDS GnOmpi, OmpiThreads_proofs

-----------------------------------------------------------------------------
(* The program is a path from entry to entry: f may follow e in it.        *)
WithWork == {"bound_state", "baryctr_state", "dbath", "derivatives"}
WithoutWork == {"baryctr_coord", "init_global_prob"}

Follows(e, f) ==
  \/ \E c \in WithWork : e = <<c, "exchange">> /\ f = <<c, "work">>
  \/ \E c \in WithWork : e = <<c, "work">> /\ f = <<c, "receive">>
  \/ \E c \in WithoutWork : e = <<c, "exchange">> /\ f = <<c, "receive">>
  \/ \E c \in WithoutWork \cup {"baryctr_state", "dbath", "derivatives"} :
       e = <<c, "receive">> /\ f = <<c, "wait">>
  \/ e = <<"baryctr_coord", "wait">> /\ f = <<"init_global_prob", "exchange">>
  \/ e = <<"init_global_prob", "wait">> /\ f = <<"omp", "number">>
  \/ e = <<"omp", "number">> /\ f = <<"master", "gather">>
  \/ e = <<"master", "gather">> /\ f = <<"master", "scatter">>
  \/ e = <<"master", "scatter">> /\ f = <<"master", "finalize">>
  \/ e = <<"master", "finalize">> /\ f = <<"master", "receive_all">>
  \/ e = <<"master", "receive_all">> /\ f = <<"master", "send_all">>
  \/ e = <<"master", "send_all">> /\ f = <<"master", "post_receive">>
  \/ e = <<"master", "post_receive">> /\ f = <<"master", "wait_all">>
  \/ e = <<"master", "wait_all">> /\ f = <<"omp", "numbered">>
  \/ e = <<"omp", "numbered">> /\ f = <<"dbath", "exchange">>
  \/ e = <<"dbath", "wait">> /\ f \in {<<"dbath", "exchange">>, <<"launch", "work">>}
  \/ e = <<"launch", "work">> /\ f = <<"parse", "work">>
  \/ e = <<"parse", "work">> /\ f \in {<<"bound_state", "exchange">>, <<"derivatives", "exchange">>}
  \/ e = <<"bound_state", "receive">>
     /\ f \in {<<"baryctr_state", "exchange">>, <<"scrutinize", "work">>}
  \/ e = <<"baryctr_state", "wait">> /\ f = <<"scrutinize", "work">>
  \/ e = <<"scrutinize", "work">> /\ f = <<"bound_state", "wait">>
  \/ e = <<"bound_state", "wait">> /\ f \in {<<"parse", "work">>, <<"output", "work">>}
  \/ e = <<"derivatives", "wait">>
     /\ f \in {<<"derivatives", "exchange">>, <<"kernels", "work">>}
  \/ e = <<"kernels", "work">> /\ f = <<"dc", "condense">>
  \/ e = <<"dc", "condense">> /\ f = <<"omp", "solve">>
  \/ e = <<"omp", "solve">> /\ f = <<"master", "assemble">>
  \/ e = <<"master", "assemble">> /\ f = <<"master", "solve">>
  \/ e = <<"master", "solve">> /\ f = <<"omp", "solved">>
  \/ e = <<"omp", "solved">> /\ f = <<"dc", "update">>
  \/ e = <<"dc", "update">> /\ f = <<"correct", "work">>
  \/ e = <<"correct", "work">> /\ f = <<"parse", "work">>
  \/ e = <<"output", "work">> /\ f \in {<<"parse", "work">>, <<"done", "done">>}

Names == {"baryctr_coord", "init_global_prob", "bound_state", "baryctr_state", "dbath", "derivatives",
          "omp", "master", "launch", "parse", "scrutinize", "kernels", "dc", "correct", "output"}
Doings == {"exchange", "work", "receive", "wait", "number", "gather", "scatter", "finalize",
           "receive_all", "send_all", "post_receive", "wait_all", "numbered", "condense", "solve",
           "assemble", "solved", "update"}
Entry == Names \X Doings

(* s is a path from a to b.                                                *)
Leads(s, a, b) ==
  /\ s \in Seq(Entry) /\ Len(s) > 0 /\ s[1] = a /\ s[Len(s)] = b
  /\ \A i \in 1 .. Len(s) - 1 : Follows(s[i], s[i + 1])

LEMMA OnePlace ==
  ASSUME NEW a \in Entry
  PROVE  Leads(<<a>>, a, a)
<1>1. <<a>> \in Seq(Entry) /\ Len(<<a>>) = 1 /\ <<a>>[1] = a
  OBVIOUS
<1> QED
  BY <1>1 DEF Leads

LEMMA Join ==
  ASSUME NEW s, NEW t, NEW a, NEW b, NEW c, NEW d,
         Leads(s, a, b), Leads(t, c, d), Follows(b, c)
  PROVE  Leads(s \o t, a, d)
<1> DEFINE m == Len(s)
           n == Len(t)
           q == s \o t
<1>1. /\ s \in Seq(Entry) /\ t \in Seq(Entry) /\ m > 0 /\ n > 0 /\ m \in Nat /\ n \in Nat
      /\ s[1] = a /\ s[m] = b /\ t[1] = c /\ t[n] = d
      /\ \A i \in 1 .. m - 1 : Follows(s[i], s[i + 1])
      /\ \A i \in 1 .. n - 1 : Follows(t[i], t[i + 1])
  BY DEF Leads
<1>2. /\ q \in Seq(Entry) /\ Len(q) = m + n
      /\ \A i \in 1 .. m : q[i] = s[i]
      /\ \A i \in m + 1 .. m + n : q[i] = t[i - m]
  BY <1>1
<1> HIDE DEF q, m, n
<1>3. q[1] = a /\ q[m + n] = d
  <2>1. 1 \in 1 .. m /\ m + n \in m + 1 .. m + n /\ (m + n) - m = n
    BY <1>1
  <2> QED
    BY <1>1, <1>2, <2>1
<1>4. ASSUME NEW i \in 1 .. m + n - 1 PROVE Follows(q[i], q[i + 1])
  <2>1. CASE i < m
    <3>1. i \in 1 .. m - 1 /\ i \in 1 .. m /\ i + 1 \in 1 .. m
      BY <1>1, <2>1
    <3> QED
      BY <1>1, <1>2, <3>1
  <2>2. CASE i = m
    <3>1. i \in 1 .. m /\ i + 1 \in m + 1 .. m + n /\ (i + 1) - m = 1
      BY <1>1, <2>2
    <3>2. q[i] = b /\ q[i + 1] = c
      BY <1>1, <1>2, <2>2, <3>1
    <3> QED
      BY <3>2
  <2>3. CASE i > m
    <3>1. /\ i \in m + 1 .. m + n /\ i + 1 \in m + 1 .. m + n /\ i - m \in 1 .. n - 1
          /\ (i + 1) - m = (i - m) + 1
      BY <1>1, <2>3
    <3>2. q[i] = t[i - m] /\ q[i + 1] = t[(i - m) + 1]
      BY <1>2, <3>1
    <3> QED
      BY <1>1, <3>1, <3>2
  <2> QED
    BY <1>1, <2>1, <2>2, <2>3
<1>5. Leads(q, a, d)
  BY <1>1, <1>2, <1>3, <1>4 DEF Leads
<1> QED
  BY <1>5 DEF q

(* The place in s that the i-th place of its repetition repeats.           *)
LEMMA Division ==
  ASSUME NEW i \in Nat, NEW n \in Nat \ {0}
  PROVE  i \div n \in Nat /\ i % n \in 0 .. n - 1 /\ i = n * (i \div n) + (i % n)
OBVIOUS

LEMMA Modulus ==
  ASSUME NEW n \in Nat \ {0}, NEW q \in Nat, NEW r \in 0 .. n - 1
  PROVE  (q * n + r) % n = r
<1> DEFINE i == q * n + r
           k == i \div n
           j == i % n
<1>1. i \in Nat
  BY DEF i
<1> HIDE DEF i
<1>2. k \in Nat /\ j \in 0 .. n - 1 /\ i = n * k + j
  BY <1>1
<1>3. n * k = k * n
  BY <1>2
<1> HIDE DEF k, j
<1>4. q * n + r = k * n + j
  BY <1>2, <1>3 DEF i
<1>5. j = r
  BY <1>2, <1>4, PairNumber
<1> QED
  BY <1>5 DEF j, i

LEMMA Repeat ==
  ASSUME NEW s, NEW a, NEW b, NEW n \in Nat \ {0}, Leads(s, a, b), Follows(b, a)
  PROVE  Leads(Times(n, s), a, b)
<1> DEFINE m == Len(s)
           t == Times(n, s)
           k(i) == (i - 1) % m
<1>1. /\ s \in Seq(Entry) /\ m \in Nat \ {0} /\ s[1] = a /\ s[m] = b
      /\ \A i \in 1 .. m - 1 : Follows(s[i], s[i + 1])
  BY DEF Leads
<1>2. n * m \in Nat /\ n * m > 0
  BY <1>1
<1>3. t = [i \in 1 .. n * m |-> s[k(i) + 1]]
  BY DEF Times
<1> HIDE DEF m
<1>4. \A i \in 1 .. n * m : k(i) \in 0 .. m - 1
  BY <1>1, <1>2
<1> HIDE DEF t
<1>5. t \in Seq(Entry) /\ Len(t) = n * m
  <2>1. \A i \in 1 .. n * m : s[k(i) + 1] \in Entry
    <3> SUFFICES ASSUME NEW j \in 0 .. m - 1 PROVE s[j + 1] \in Entry
      BY <1>4
    <3>1. j + 1 \in 1 .. Len(s) /\ s \in Seq(Entry)
      BY <1>1 DEF m
    <3> HIDE DEF k
    <3> QED
      BY <3>1
  <2> HIDE DEF k
  <2>2. t \in [1 .. n * m -> Entry]
    BY <1>3, <2>1
  <2> QED
    BY <1>2, <2>2
<1>6. ASSUME NEW i \in Nat \ {0}, NEW q \in Nat, NEW r \in 0 .. m - 1, i - 1 = q * m + r
      PROVE  k(i) = r
  BY <1>1, <1>6, Modulus
<1>7. k(1) = 0
  <2>1. 1 - 1 = 0 * m + 0 /\ 0 \in 0 .. m - 1
    BY <1>1
  <2> HIDE DEF k
  <2> QED
    BY <2>1, <1>6
<1>8. k(n * m) = m - 1
  <2>1. n * m - 1 = (n - 1) * m + (m - 1) /\ m - 1 \in 0 .. m - 1 /\ n - 1 \in Nat
    BY <1>1
  <2> HIDE DEF k
  <2> QED
    BY <2>1, <1>2, <1>6
<1>9. ASSUME NEW i \in 1 .. n * m - 1
      PROVE  k(i + 1) = IF k(i) < m - 1 THEN k(i) + 1 ELSE 0
  <2> DEFINE q == (i - 1) \div m
             r == (i - 1) % m
  <2>1. i - 1 \in Nat /\ q \in Nat /\ r \in 0 .. m - 1 /\ i - 1 = m * q + r
    <3>1. i - 1 \in Nat
      BY <1>2
    <3> QED
      BY <1>1, <3>1, Division
  <2>2. m * q = q * m /\ (q + 1) * m = q * m + m /\ q * m \in Nat
    BY <1>1, <2>1
  <2>3. k(i) = r /\ (i + 1) - 1 = i /\ i + 1 \in Nat \ {0}
    BY <1>2
  <2> HIDE DEF q, r, k
  <2>4. CASE r < m - 1
    <3>1. (i + 1) - 1 = q * m + (r + 1) /\ r + 1 \in 0 .. m - 1
      BY <1>1, <2>1, <2>2, <2>3, <2>4
    <3>2. k(i + 1) = r + 1
      BY <1>6, <2>1, <2>3, <3>1
    <3> QED
      BY <2>3, <2>4, <3>2
  <2>5. CASE ~(r < m - 1)
    <3>1. (i + 1) - 1 = (q + 1) * m + 0 /\ 0 \in 0 .. m - 1 /\ q + 1 \in Nat
      BY <1>1, <2>1, <2>2, <2>3, <2>5
    <3>2. k(i + 1) = 0
      BY <1>6, <2>3, <3>1
    <3> QED
      BY <2>3, <2>5, <3>2
  <2> QED
    BY <2>4, <2>5
<1> HIDE DEF k
<1>10. t[1] = a /\ t[n * m] = b
  <2>1. 1 \in 1 .. n * m /\ n * m \in 1 .. n * m
    <3> SUFFICES ASSUME NEW p \in Nat, p > 0 PROVE 1 \in 1 .. p /\ p \in 1 .. p
      BY <1>2
    <3> QED OBVIOUS
  <2>2. 0 + 1 = 1 /\ (m - 1) + 1 = m
    BY <1>1
  <2> QED
    BY <1>1, <1>3, <1>7, <1>8, <2>1, <2>2
<1>11. ASSUME NEW i \in 1 .. n * m - 1 PROVE Follows(t[i], t[i + 1])
  <2>1. i \in 1 .. n * m /\ i + 1 \in 1 .. n * m /\ k(i) \in 0 .. m - 1
    BY <1>2, <1>4
  <2>2. t[i] = s[k(i) + 1] /\ t[i + 1] = s[k(i + 1) + 1]
    BY <1>3, <2>1
  <2>3. CASE k(i) < m - 1
    <3>1. k(i + 1) + 1 = (k(i) + 1) + 1 /\ k(i) + 1 \in 1 .. m - 1
      BY <1>1, <1>9, <2>1, <2>3
    <3> QED
      BY <1>1, <2>2, <3>1
  <2>4. CASE ~(k(i) < m - 1)
    <3>1. k(i + 1) + 1 = 1 /\ k(i) + 1 = m
      BY <1>1, <1>9, <2>1, <2>4
    <3> QED
      BY <1>1, <2>2, <3>1
  <2> QED
    BY <2>3, <2>4
<1>12. Leads(t, a, b)
  BY <1>2, <1>5, <1>10, <1>11 DEF Leads
<1> QED
  BY <1>12 DEF t

LEMMA ThreePlaces ==
  ASSUME NEW a \in Entry, NEW b \in Entry, NEW c \in Entry, Follows(a, b), Follows(b, c)
  PROVE  Leads(<<a, b, c>>, a, c)
<1> DEFINE s == <<a, b, c>>
<1>1. s \in Seq(Entry) /\ Len(s) = 3 /\ s[1] = a /\ s[2] = b /\ s[3] = c
  OBVIOUS
<1>2. \A i \in 1 .. 2 : (i = 1 /\ i + 1 = 2) \/ (i = 2 /\ i + 1 = 3)
  OBVIOUS
<1> HIDE DEF s
<1>3. Leads(s, a, c)
  BY <1>1, <1>2 DEF Leads
<1> QED
  BY <1>3 DEF s

LEMMA FourPlaces ==
  ASSUME NEW a \in Entry, NEW b \in Entry, NEW c \in Entry, NEW d \in Entry,
         Follows(a, b), Follows(b, c), Follows(c, d)
  PROVE  Leads(<<a, b, c, d>>, a, d)
<1> DEFINE s == <<a, b, c, d>>
<1>1. s \in Seq(Entry) /\ Len(s) = 4 /\ s[1] = a /\ s[2] = b /\ s[3] = c /\ s[4] = d
  OBVIOUS
<1>2. \A i \in 1 .. 3 : (i = 1 /\ i + 1 = 2) \/ (i = 2 /\ i + 1 = 3) \/ (i = 3 /\ i + 1 = 4)
  OBVIOUS
<1> HIDE DEF s
<1>3. Leads(s, a, d)
  BY <1>1, <1>2 DEF Leads
<1> QED
  BY <1>3 DEF s

LEMMA ExchangeLeads ==
  /\ \A c \in WithoutWork : Leads(Exchange(c), <<c, "exchange">>, <<c, "wait">>)
  /\ \A c \in WithWork \ {"bound_state"} : Leads(ExchangeAndWork(c), <<c, "exchange">>, <<c, "wait">>)
<1>1. ASSUME NEW c \in WithoutWork PROVE Leads(Exchange(c), <<c, "exchange">>, <<c, "wait">>)
  <2>1. <<c, "exchange">> \in Entry /\ <<c, "receive">> \in Entry /\ <<c, "wait">> \in Entry
    BY DEF Entry, Names, Doings, WithoutWork
  <2>2. Follows(<<c, "exchange">>, <<c, "receive">>) /\ Follows(<<c, "receive">>, <<c, "wait">>)
    BY DEF Follows
  <2> QED
    BY <2>1, <2>2, ThreePlaces DEF Exchange
<1>2. ASSUME NEW c \in WithWork \ {"bound_state"}
      PROVE Leads(ExchangeAndWork(c), <<c, "exchange">>, <<c, "wait">>)
  <2>1. /\ <<c, "exchange">> \in Entry /\ <<c, "work">> \in Entry
        /\ <<c, "receive">> \in Entry /\ <<c, "wait">> \in Entry
    BY DEF Entry, Names, Doings, WithWork
  <2>2. /\ Follows(<<c, "exchange">>, <<c, "work">>) /\ Follows(<<c, "work">>, <<c, "receive">>)
        /\ Follows(<<c, "receive">>, <<c, "wait">>)
    BY DEF Follows, WithWork
  <2> QED
    BY <2>1, <2>2, FourPlaces DEF ExchangeAndWork
<1> QED
  BY <1>1, <1>2

(* The master sections with their barriers, as parts that are joined.      *)
LEMMA NumberingLeads == Leads(NumberingSection, <<"omp", "number">>, <<"omp", "numbered">>)
<1> DEFINE s == <<<<"omp", "number">>, <<"master", "gather">>, <<"master", "scatter">>>>
           t == <<<<"master", "finalize">>, <<"master", "receive_all">>, <<"master", "send_all">>>>
           q == <<<<"master", "post_receive">>, <<"master", "wait_all">>, <<"omp", "numbered">>>>
<1>1. Leads(s, <<"omp", "number">>, <<"master", "scatter">>)
  BY ThreePlaces DEF Follows, Entry, Names, Doings
<1>2. Leads(t, <<"master", "finalize">>, <<"master", "send_all">>)
  BY ThreePlaces DEF Follows, Entry, Names, Doings
<1>3. Leads(q, <<"master", "post_receive">>, <<"omp", "numbered">>)
  BY ThreePlaces DEF Follows, Entry, Names, Doings
<1>4. Follows(<<"master", "scatter">>, <<"master", "finalize">>)
      /\ Follows(<<"master", "send_all">>, <<"master", "post_receive">>)
  BY DEF Follows
<1>5. NumberingSection = (s \o t) \o q
  BY DEF NumberingSection
<1> HIDE DEF s, t, q
<1>6. Leads(s \o t, <<"omp", "number">>, <<"master", "send_all">>)
  BY <1>1, <1>2, <1>4, Join
<1> QED
  BY <1>3, <1>4, <1>5, <1>6, Join

LEMMA SolveLeads == Leads(SolveSection, <<"dc", "condense">>, <<"dc", "update">>)
<1> DEFINE s == <<<<"dc", "condense">>, <<"omp", "solve">>, <<"master", "assemble">>>>
           t == <<<<"master", "solve">>, <<"omp", "solved">>, <<"dc", "update">>>>
<1>1. Leads(s, <<"dc", "condense">>, <<"master", "assemble">>)
  BY ThreePlaces DEF Follows, Entry, Names, Doings
<1>2. Leads(t, <<"master", "solve">>, <<"dc", "update">>)
  BY ThreePlaces DEF Follows, Entry, Names, Doings
<1>3. Follows(<<"master", "assemble">>, <<"master", "solve">>)
  BY DEF Follows
<1>4. SolveSection = s \o t
  BY DEF SolveSection
<1> HIDE DEF s, t
<1> QED
  BY <1>1, <1>2, <1>3, <1>4, Join

LEMMA PreprocessorLeads == Leads(Preprocessor, <<"baryctr_coord", "exchange">>, <<"launch", "work">>)
<1> DEFINE a == Exchange("baryctr_coord")
           b == Exchange("init_global_prob")
           c == NumberingSection
           d == ExchangeAndWork("dbath")
           e == <<<<"launch", "work">>>>
<1>1. /\ Leads(a, <<"baryctr_coord", "exchange">>, <<"baryctr_coord", "wait">>)
      /\ Leads(b, <<"init_global_prob", "exchange">>, <<"init_global_prob", "wait">>)
      /\ Leads(c, <<"omp", "number">>, <<"omp", "numbered">>)
      /\ Leads(d, <<"dbath", "exchange">>, <<"dbath", "wait">>)
  BY ExchangeLeads, NumberingLeads DEF WithWork, WithoutWork
<1>2. Leads(e, <<"launch", "work">>, <<"launch", "work">>)
  BY OnePlace DEF Entry, Names, Doings
<1>3. Preprocessor = (((((a \o b) \o c) \o d) \o d) \o d) \o e
  BY DEF Preprocessor, BathDerivatives, BathSecondDerivatives, BathThirdDerivatives
<1>4. /\ Follows(<<"baryctr_coord", "wait">>, <<"init_global_prob", "exchange">>)
      /\ Follows(<<"init_global_prob", "wait">>, <<"omp", "number">>)
      /\ Follows(<<"omp", "numbered">>, <<"dbath", "exchange">>)
      /\ Follows(<<"dbath", "wait">>, <<"dbath", "exchange">>)
      /\ Follows(<<"dbath", "wait">>, <<"launch", "work">>)
  BY DEF Follows
<1> HIDE DEF a, b, c, d, e
<1>5. Leads(a \o b, <<"baryctr_coord", "exchange">>, <<"init_global_prob", "wait">>)
  BY <1>1, <1>4, Join
<1>6. Leads((a \o b) \o c, <<"baryctr_coord", "exchange">>, <<"omp", "numbered">>)
  BY <1>1, <1>4, <1>5, Join
<1>7. Leads(((a \o b) \o c) \o d, <<"baryctr_coord", "exchange">>, <<"dbath", "wait">>)
  BY <1>1, <1>4, <1>6, Join
<1>8. Leads((((a \o b) \o c) \o d) \o d, <<"baryctr_coord", "exchange">>, <<"dbath", "wait">>)
  BY <1>1, <1>4, <1>7, Join
<1>9. Leads(((((a \o b) \o c) \o d) \o d) \o d, <<"baryctr_coord", "exchange">>, <<"dbath", "wait">>)
  BY <1>1, <1>4, <1>8, Join
<1> QED
  BY <1>2, <1>3, <1>4, <1>9, Join

LEMMA SweStageLeads == Leads(SweStage, <<"parse", "work">>, <<"bound_state", "wait">>)
<1> DEFINE a == <<<<"parse", "work">>, <<"bound_state", "exchange">>, <<"bound_state", "work">>,
                  <<"bound_state", "receive">>>>
           b == ExchangeAndWork("baryctr_state")
           c == <<<<"scrutinize", "work">>, <<"bound_state", "wait">>>>
           sc == <<<<"scrutinize", "work">>>>
           bw == <<<<"bound_state", "wait">>>>
<1>1. Leads(a, <<"parse", "work">>, <<"bound_state", "receive">>)
  BY FourPlaces DEF Follows, Entry, Names, Doings, WithWork
<1>2. Leads(b, <<"baryctr_state", "exchange">>, <<"baryctr_state", "wait">>)
  BY ExchangeLeads DEF WithWork
<1>3. Leads(c, <<"scrutinize", "work">>, <<"bound_state", "wait">>)
  <2>1. Leads(sc, <<"scrutinize", "work">>, <<"scrutinize", "work">>)
        /\ Leads(bw, <<"bound_state", "wait">>, <<"bound_state", "wait">>)
    BY OnePlace DEF Entry, Names, Doings
  <2>2. c = sc \o bw /\ Follows(<<"scrutinize", "work">>, <<"bound_state", "wait">>)
    BY DEF Follows
  <2> HIDE DEF c, sc, bw
  <2> QED
    BY <2>1, <2>2, Join
<1>4. /\ Follows(<<"bound_state", "receive">>, <<"baryctr_state", "exchange">>)
      /\ Follows(<<"bound_state", "receive">>, <<"scrutinize", "work">>)
      /\ Follows(<<"baryctr_state", "wait">>, <<"scrutinize", "work">>)
  BY DEF Follows
<1>5. CASE SlopeLimiting
  <2>1. SweStage = (a \o b) \o c
    BY <1>5 DEF SweStage
  <2> HIDE DEF a, b, c
  <2>2. Leads(a \o b, <<"parse", "work">>, <<"baryctr_state", "wait">>)
    BY <1>1, <1>2, <1>4, Join
  <2> QED
    BY <1>3, <1>4, <2>1, <2>2, Join
<1>6. CASE ~SlopeLimiting
  <2>1. SweStage = a \o c
    BY <1>6 DEF SweStage
  <2> HIDE DEF a, b, c
  <2> QED
    BY <1>1, <1>3, <1>4, <2>1, Join
<1> QED
  BY <1>5, <1>6

LEMMA CorrectionLeads == Leads(DispersiveCorrection, <<"parse", "work">>, <<"correct", "work">>)
<1> DEFINE a == <<<<"parse", "work">>>>
           b == ExchangeAndWork("derivatives")
           c == <<<<"kernels", "work">>>>
           d == SolveSection
           e == <<<<"correct", "work">>>>
<1>1. /\ Leads(a, <<"parse", "work">>, <<"parse", "work">>)
      /\ Leads(c, <<"kernels", "work">>, <<"kernels", "work">>)
      /\ Leads(e, <<"correct", "work">>, <<"correct", "work">>)
  BY OnePlace DEF Entry, Names, Doings
<1>2. /\ Leads(b, <<"derivatives", "exchange">>, <<"derivatives", "wait">>)
      /\ Leads(d, <<"dc", "condense">>, <<"dc", "update">>)
  BY ExchangeLeads, SolveLeads DEF WithWork
<1>3. DispersiveCorrection = ((((a \o b) \o b) \o c) \o d) \o e
  BY DEF DispersiveCorrection, Derivatives, SecondDerivatives
<1>4. /\ Follows(<<"parse", "work">>, <<"derivatives", "exchange">>)
      /\ Follows(<<"derivatives", "wait">>, <<"derivatives", "exchange">>)
      /\ Follows(<<"derivatives", "wait">>, <<"kernels", "work">>)
      /\ Follows(<<"kernels", "work">>, <<"dc", "condense">>)
      /\ Follows(<<"dc", "update">>, <<"correct", "work">>)
  BY DEF Follows
<1> HIDE DEF a, b, c, d, e
<1>5. Leads(a \o b, <<"parse", "work">>, <<"derivatives", "wait">>)
  BY <1>1, <1>2, <1>4, Join
<1>6. Leads((a \o b) \o b, <<"parse", "work">>, <<"derivatives", "wait">>)
  BY <1>2, <1>4, <1>5, Join
<1>7. Leads(((a \o b) \o b) \o c, <<"parse", "work">>, <<"kernels", "work">>)
  BY <1>1, <1>4, <1>6, Join
<1>8. Leads((((a \o b) \o b) \o c) \o d, <<"parse", "work">>, <<"dc", "update">>)
  BY <1>2, <1>4, <1>7, Join
<1> QED
  BY <1>1, <1>3, <1>4, <1>8, Join

LEMMA ProgramLeads == Leads(Program, <<"baryctr_coord", "exchange">>, <<"output", "work">>)
<1> DEFINE a == Times(NumStages, SweStage)
           b == Times(NumStages, DispersiveCorrection)
           c == <<<<"output", "work">>>>
           d == Times(NumSteps, TimeStep)
<1>1. NumStages \in Nat \ {0} /\ NumSteps \in Nat \ {0}
  BY GnOmpiAssumption
<1>2. /\ Follows(<<"bound_state", "wait">>, <<"parse", "work">>)
      /\ Follows(<<"correct", "work">>, <<"parse", "work">>)
      /\ Follows(<<"bound_state", "wait">>, <<"output", "work">>)
      /\ Follows(<<"output", "work">>, <<"parse", "work">>)
      /\ Follows(<<"launch", "work">>, <<"parse", "work">>)
  BY DEF Follows
<1>3. Leads(a, <<"parse", "work">>, <<"bound_state", "wait">>)
  BY <1>1, <1>2, SweStageLeads, Repeat
<1>4. Leads(b, <<"parse", "work">>, <<"correct", "work">>)
  BY <1>1, <1>2, CorrectionLeads, Repeat
<1>5. Leads(c, <<"output", "work">>, <<"output", "work">>)
  BY OnePlace DEF Entry, Names, Doings
<1>6. TimeStep = ((a \o b) \o a) \o c
  BY DEF TimeStep
<1>7. Program = Preprocessor \o d
  BY DEF Program
<1> HIDE DEF a, b, c
<1>8. Leads(a \o b, <<"parse", "work">>, <<"correct", "work">>)
  BY <1>2, <1>3, <1>4, Join
<1>9. Leads((a \o b) \o a, <<"parse", "work">>, <<"bound_state", "wait">>)
  BY <1>2, <1>3, <1>8, Join
<1>10. Leads(TimeStep, <<"parse", "work">>, <<"output", "work">>)
  BY <1>2, <1>5, <1>6, <1>9, Join
<1>11. Leads(d, <<"parse", "work">>, <<"output", "work">>)
  BY <1>1, <1>2, <1>10, Repeat
<1> HIDE DEF d
<1> QED
  BY <1>2, <1>7, <1>11, PreprocessorLeads, Join

(* Each place of the program has its entry, which follows the one before.  *)
LEMMA Path ==
  /\ Done \in Nat /\ Done > 1 /\ DOMAIN Program = 1 .. Done - 1
  /\ Place(1) = <<"baryctr_coord", "exchange">> /\ Place(Done) = <<"done", "done">>
  /\ \A p \in 1 .. Done - 1 : Place(p) = Program[p] /\ Follows(Place(p), Place(p + 1))
<1>1. /\ Program \in Seq(Entry) /\ Len(Program) > 0
      /\ Program[1] = <<"baryctr_coord", "exchange">> /\ Program[Len(Program)] = <<"output", "work">>
      /\ \A i \in 1 .. Len(Program) - 1 : Follows(Program[i], Program[i + 1])
  BY ProgramLeads DEF Leads
<1>2. Done \in Nat /\ Done > 1 /\ Len(Program) = Done - 1 /\ DOMAIN Program = 1 .. Done - 1
  BY <1>1 DEF Done
<1>3. Place(Done) = <<"done", "done">> /\ \A p \in 1 .. Done - 1 : Place(p) = Program[p]
  BY <1>2 DEF Place
<1>4. ASSUME NEW p \in 1 .. Done - 1 PROVE Follows(Place(p), Place(p + 1))
  <2>1. CASE p < Done - 1
    <3>1. p \in 1 .. Len(Program) - 1 /\ p + 1 \in 1 .. Done - 1
      BY <1>2, <2>1
    <3> QED
      BY <1>1, <1>3, <3>1
  <2>2. CASE p = Done - 1
    <3>1. Place(p) = <<"output", "work">> /\ p + 1 = Done
      BY <1>1, <1>2, <1>3, <2>2
    <3> QED
      BY <1>3, <3>1 DEF Follows
  <2> QED
    BY <1>2, <2>1, <2>2
<1>5. Place(1) = <<"baryctr_coord", "exchange">>
  <2>1. 1 \in 1 .. Done - 1
    BY <1>2
  <2> QED
    BY <1>1, <1>3, <2>1
<1> QED
  BY <1>2, <1>3, <1>4, <1>5

-----------------------------------------------------------------------------
(* How the threads go through the program.                                 *)

(* The first stop after a place.                                           *)
LEMMA FirstStop ==
  ASSUME NEW th \in Threads, NEW p \in 0 .. Done - 1
  PROVE  /\ NextPlace(th, p) \in p + 1 .. Done /\ Stops(th, NextPlace(th, p))
         /\ \A j \in p + 1 .. NextPlace(th, p) - 1 : ~Stops(th, j)
<1> DEFINE T == {i \in p + 1 .. Done : Stops(th, i)}
<1>1. Done \in Nat /\ Place(Done) = <<"done", "done">>
  BY Path
<1>2. Done \in T
  <2>1. Place(Done)[1] = "done"
    BY <1>1
  <2>2. Stops(th, Done)
    BY <2>1 DEF Stops
  <2> QED
    BY <1>1, <2>2
<1>3. T \subseteq Nat
  BY <1>1
<1>4. PICK i \in T : \A j \in T : i <= j
  BY <1>2, <1>3, Smallest
<1>5. i \in p + 1 .. Done /\ Stops(th, i) /\ \A j \in p + 1 .. i - 1 : ~Stops(th, j)
  BY <1>1, <1>4
<1>6. \E k \in p + 1 .. Done : Stops(th, k) /\ \A j \in p + 1 .. k - 1 : ~Stops(th, j)
  BY <1>5
<1> QED
  BY <1>6 DEF NextPlace

(* A stop at the next place is the next stop.                              *)
LEMMA StopNext ==
  ASSUME NEW th \in Threads, NEW p \in 0 .. Done - 1, Stops(th, p + 1)
  PROVE  NextPlace(th, p) = p + 1
<1> DEFINE q == NextPlace(th, p)
<1>1. Done \in Nat
  BY Path
<1>2. q \in p + 1 .. Done /\ \A j \in p + 1 .. q - 1 : ~Stops(th, j)
  BY FirstStop
<1> HIDE DEF q
<1>3. q <= p + 1
  <2> SUFFICES ASSUME q > p + 1 PROVE FALSE
    BY <1>1, <1>2
  <2>1. p + 1 \in p + 1 .. q - 1
    BY <1>1, <1>2
  <2> QED
    BY <1>2, <2>1
<1>4. q = p + 1
  BY <1>1, <1>2, <1>3
<1> QED
  BY <1>4 DEF q

(* The master stops everywhere.                                            *)
LEMMA NextOfMaster ==
  ASSUME NEW th \in Threads, th[2] = 0, NEW p \in 0 .. Done - 1
  PROVE  NextPlace(th, p) = p + 1
<1>1. HasWork(th)
  BY ThreadShape, MasterHasWork DEF HasWork, FirstId
<1>2. Stops(th, p + 1)
  BY <1>1 DEF Stops
<1> QED
  BY <1>2, StopNext

(* Outside of master sections a thread with submeshes stops everywhere.    *)
LEMMA NextOfWorker ==
  ASSUME NEW th \in Threads, HasWork(th), NEW p \in 0 .. Done - 1, Place(p + 1)[1] # "master"
  PROVE  NextPlace(th, p) = p + 1
BY StopNext DEF Stops

(* A master section begins after a barrier, and ends at one.               *)
LEMMA SectionEnds ==
  ASSUME NEW p \in 1 .. Done - 1
  PROVE  /\ Place(p)[1] # "omp" /\ Place(p)[1] # "master" => Place(p + 1)[1] # "master"
         /\ Place(p)[1] = "master" => Place(p + 1)[1] \in {"master", "omp"}
BY Path DEF Follows, WithWork, WithoutWork

(* The other threads go from the barrier before a master section to the    *)
(* barrier after it.                                                       *)
LEMMA NextOverSection ==
  ASSUME NEW th \in Threads, th[2] # 0, NEW p \in 1 .. Done - 1, Place(p + 1)[1] = "master"
  PROVE  /\ NextPlace(th, p) > p + 1 /\ Place(NextPlace(th, p))[1] = "omp"
         /\ \A j \in p + 1 .. NextPlace(th, p) - 1 : Place(j)[1] = "master"
<1> DEFINE q == NextPlace(th, p)
           T == {i \in p + 1 .. Done : Place(i)[1] # "master"}
<1>1. Done \in Nat /\ Place(Done) = <<"done", "done">>
  BY Path
<1>2. Done \in T
  <2>1. Place(Done)[1] = "done"
    BY <1>1
  <2> QED
    BY <1>1, <2>1
<1>3. T \subseteq Nat
  BY <1>1
<1>4. PICK k \in T : \A j \in T : k <= j
  BY <1>2, <1>3, Smallest
<1>5. k \in p + 1 .. Done /\ Place(k)[1] # "master" /\ \A j \in p + 1 .. k - 1 : Place(j)[1] = "master"
  BY <1>1, <1>4
<1>6. k > p + 1
  BY <1>1, <1>5
<1>7. Place(k)[1] = "omp"
  <2>1. k - 1 \in 1 .. Done - 1 /\ k - 1 \in p + 1 .. k - 1 /\ (k - 1) + 1 = k
    BY <1>1, <1>5, <1>6
  <2> QED
    BY <1>5, <2>1, SectionEnds
<1>8. q \in p + 1 .. Done /\ Stops(th, q) /\ \A j \in p + 1 .. q - 1 : ~Stops(th, j)
  <2>1. p \in 0 .. Done - 1
    BY <1>1
  <2> QED
    BY <2>1, FirstStop
<1> HIDE DEF q, T
<1>9. ~(k < q)
  <2>1. Stops(th, k)
    BY <1>7 DEF Stops
  <2> QED
    BY <1>1, <1>5, <1>8, <2>1
<1>10. ~(q < k)
  <2> SUFFICES ASSUME q < k PROVE FALSE
    OBVIOUS
  <2>1. q \in p + 1 .. k - 1
    BY <1>1, <1>5, <1>8
  <2>2. Place(q)[1] = "master"
    BY <1>5, <2>1
  <2> QED
    BY <1>8, <2>2 DEF Stops
<1>11. q = k
  BY <1>1, <1>5, <1>8, <1>9, <1>10
<1> QED
  BY <1>5, <1>6, <1>7, <1>11 DEF q

-----------------------------------------------------------------------------
(* Where a thread starts with its first submesh without having run any.    *)
Unlooped(e) ==
  \/ e[1] \in {"omp", "done"}
  \/ e \in {<<"master", "gather">>, <<"master", "scatter">>, <<"master", "solve">>}

ThreadsOK ==
  /\ pc \in [Threads -> 1 .. Done]
  /\ su_id \in [Threads -> Int]
  /\ \A th \in Threads :
       /\ Stops(th, pc[th])
       /\ FirstId(th) <= su_id[th]
       /\ Unlooped(At(th)) => su_id[th] = FirstId(th)

(* No barrier is between two threads of a rank.                            *)
SameSegment ==
  \A th, m \in Threads : \A b \in 1 .. Done :
    th[1] = m[1] /\ pc[th] <= b /\ b < pc[m] => Place(b)[1] # "omp"

(* While the master is in a section of its own, the other threads of the   *)
(* rank wait at the barrier after it.                                      *)
OthersWait ==
  \A th \in Threads :
    InMaster(Master(th)) /\ th[2] # 0 =>
      /\ At(th)[1] = "omp"
      /\ \A j \in pc[Master(th)] .. pc[th] - 1 : Place(j)[1] = "master"

TInv == ThreadsOK /\ SameSegment /\ OthersWait

(* A thread that is neither at a barrier nor done has a place to go to, its*)
(* next place, which starts no master section.                             *)
LEMMA NextStep ==
  ASSUME ThreadsOK, NEW th \in Threads, At(th)[1] \notin {"omp", "done"}
  PROVE  /\ pc[th] \in 1 .. Done - 1 /\ NextPlace(th, pc[th]) = pc[th] + 1
         /\ Stops(th, pc[th] + 1)
         /\ ~InMaster(th) => Place(pc[th] + 1)[1] # "master"
<1>1. Done \in Nat /\ Place(Done) = <<"done", "done">>
  BY Path
<1>2. pc[th] \in 1 .. Done /\ pc[th] # Done
  <2>1. pc[th] = Done => At(th)[1] = "done"
    BY <1>1 DEF At
  <2> QED
    BY <2>1 DEF ThreadsOK
<1>3. pc[th] \in 1 .. Done - 1 /\ pc[th] \in 0 .. Done - 1
  BY <1>1, <1>2
<1>4. ~InMaster(th) => Place(pc[th] + 1)[1] # "master"
  BY <1>3, SectionEnds DEF InMaster, At
<1>5. IF InMaster(th) THEN th[2] = 0 ELSE HasWork(th)
  <2>1. Stops(th, pc[th])
    BY DEF ThreadsOK
  <2> QED
    BY <2>1 DEF Stops, At, InMaster
<1>6. NextPlace(th, pc[th]) = pc[th] + 1
  BY <1>3, <1>4, <1>5, NextOfMaster, NextOfWorker
<1> QED
  BY <1>3, <1>4, <1>6, FirstStop

LEMMA GoOnKeeps ==
  ASSUME TInv, NEW th \in Threads, At(th)[1] \notin {"omp", "done"}, GoOn(th)
  PROVE  TInv' /\ pc'[th] = pc[th] + 1 /\ su_id'[th] = FirstId(th)
<1> DEFINE p == pc[th]
<1>1. /\ p \in 1 .. Done - 1 /\ NextPlace(th, p) = p + 1 /\ Stops(th, p + 1)
      /\ ~InMaster(th) => Place(p + 1)[1] # "master"
  BY NextStep DEF TInv
<1>2. Done \in Nat /\ pc \in [Threads -> 1 .. Done] /\ su_id \in [Threads -> Int]
  BY Path DEF TInv, ThreadsOK
<1>3. /\ pc' = [pc EXCEPT ![th] = p + 1] /\ su_id' = [su_id EXCEPT ![th] = FirstId(th)]
      /\ FirstId(th) \in Int
  BY <1>1, ThreadIds DEF GoOn, FirstId
<1> HIDE DEF p
<1>4. pc'[th] = p + 1 /\ su_id'[th] = FirstId(th)
      /\ \A m \in Threads \ {th} : pc'[m] = pc[m] /\ su_id'[m] = su_id[m]
  BY <1>2, <1>3
<1>5. p + 1 \in 1 .. Done /\ p \in Int
  BY <1>1, <1>2
<1>6. ThreadsOK'
  <2>1. pc' \in [Threads -> 1 .. Done] /\ su_id' \in [Threads -> Int]
    BY <1>2, <1>3, <1>5
  <2>2. ASSUME NEW m \in Threads
        PROVE  /\ Stops(m, pc'[m]) /\ FirstId(m) <= su_id'[m]
               /\ Unlooped(Place(pc'[m])) => su_id'[m] = FirstId(m)
    <3>1. CASE m = th
      BY <1>1, <1>3, <1>4, <3>1
    <3>2. CASE m # th
      BY <1>4, <3>2 DEF TInv, ThreadsOK, At
    <3> QED
      BY <3>1, <3>2
  <2> QED
    BY <2>1, <2>2 DEF ThreadsOK, At
<1>7. SameSegment'
  <2> SUFFICES ASSUME NEW t \in Threads, NEW m \in Threads, NEW b \in 1 .. Done,
                      t[1] = m[1], pc'[t] <= b, b < pc'[m]
               PROVE  Place(b)[1] # "omp"
    BY DEF SameSegment
  <2>1. pc[t] \in Int /\ pc[m] \in Int /\ b \in Int
    BY <1>2
  <2>2. pc[t] <= b
    BY <1>4, <1>5, <2>1 DEF p
  <2>3. CASE b < pc[m]
    BY <2>2, <2>3 DEF TInv, SameSegment
  <2>4. CASE ~(b < pc[m])
    <3>1. m = th /\ b = p
      BY <1>4, <1>5, <2>1, <2>4 DEF p
    <3> QED
      BY <3>1 DEF At, p
  <2> QED
    BY <2>3, <2>4
<1>8. OthersWait'
  <2> SUFFICES ASSUME NEW t \in Threads, Place(pc'[Master(t)])[1] = "master", t[2] # 0
               PROVE  /\ Place(pc'[t])[1] = "omp"
                      /\ \A j \in pc'[Master(t)] .. pc'[t] - 1 : Place(j)[1] = "master"
    BY DEF OthersWait, InMaster, At
  <2>1. Master(t) \in Threads /\ Master(t)[2] = 0
    BY ThreadShape DEF Master
  <2>2. InMaster(Master(t))
    <3>1. CASE Master(t) = th
      BY <1>1, <1>4, <3>1
    <3>2. CASE Master(t) # th
      BY <1>4, <2>1, <3>2 DEF InMaster, At
    <3> QED
      BY <3>1, <3>2
  <2>3. At(t)[1] = "omp" /\ \A j \in pc[Master(t)] .. pc[t] - 1 : Place(j)[1] = "master"
    BY <2>2 DEF TInv, OthersWait
  <2>4. t # th
    BY <2>3
  <2>5. pc'[t] = pc[t] /\ pc'[Master(t)] >= pc[Master(t)] /\ pc[Master(t)] \in Int /\ pc'[Master(t)] \in Int
    BY <1>2, <1>4, <1>5, <2>1, <2>4 DEF p
  <2>6. pc[t] \in Int
    BY <1>2
  <2>7. ASSUME NEW j \in pc'[Master(t)] .. pc'[t] - 1 PROVE Place(j)[1] = "master"
    <3>1. j \in pc[Master(t)] .. pc[t] - 1
      BY <2>5, <2>6
    <3> QED
      BY <2>3, <3>1
  <2> QED
    BY <2>3, <2>5, <2>7 DEF At
<1> QED
  BY <1>4, <1>6, <1>7, <1>8 DEF TInv, p

LEMMA NextUnitKeeps ==
  ASSUME TInv, NEW th \in Threads, ~Unlooped(At(th)),
         su_id' = [su_id EXCEPT ![th] = @ + 1], pc' = pc
  PROVE  TInv'
<1>1. su_id \in [Threads -> Int] /\ FirstId(th) \in Int
  BY ThreadIds DEF TInv, ThreadsOK, FirstId
<1>2. ThreadsOK'
  <2>1. ASSUME NEW m \in Threads
        PROVE  /\ FirstId(m) <= su_id'[m]
               /\ Unlooped(At(m)) => su_id'[m] = FirstId(m)
    <3>1. CASE m = th
      BY <1>1, <3>1 DEF TInv, ThreadsOK
    <3>2. CASE m # th
      BY <1>1, <3>2 DEF TInv, ThreadsOK
    <3> QED
      BY <3>1, <3>2
  <2>2. su_id' \in [Threads -> Int]
    BY <1>1
  <2> QED
    BY <2>1, <2>2 DEF TInv, ThreadsOK, At
<1>3. SameSegment' /\ OthersWait'
  BY DEF TInv, SameSegment, OthersWait, InMaster, At
<1> QED
  BY <1>2, <1>3 DEF TInv

LEMMA NoThreadMoves ==
  ASSUME TInv, UNCHANGED <<pc, su_id>>
  PROVE  TInv'
BY DEF TInv, ThreadsOK, SameSegment, OthersWait, InMaster, At

(* The threads of a rank that are all at barriers are at the same one.     *)
LEMMA SameBarrier ==
  ASSUME TInv, NEW l \in Ranks, \A th \in Threads : th[1] = l => At(th)[1] = "omp"
  PROVE  \A th, m \in Threads : th[1] = l /\ m[1] = l => pc[th] = pc[m]
<1>1. ASSUME NEW th \in Threads, NEW m \in Threads, th[1] = l, m[1] = l
      PROVE  ~(pc[th] < pc[m])
  <2>1. pc[th] \in 1 .. Done /\ pc[th] \in Int /\ Place(pc[th])[1] = "omp"
    BY <1>1, Path DEF TInv, ThreadsOK, At
  <2> QED
    BY <1>1, <2>1 DEF TInv, SameSegment
<1>2. \A th \in Threads : pc[th] \in Int
  BY Path DEF TInv, ThreadsOK
<1> QED
  BY <1>1, <1>2

LEMMA BarrierKeeps ==
  ASSUME TInv, NEW l \in Ranks, Barrier(l)
  PROVE  /\ TInv' /\ pc[<<l, 0>>] \in 1 .. Done - 1 /\ Place(pc[<<l, 0>>])[1] = "omp"
         /\ \A th \in Threads :
              IF th[1] = l
              THEN /\ pc[th] = pc[<<l, 0>>] /\ pc'[th] = NextPlace(th, pc[th])
                   /\ su_id[th] = FirstId(th) /\ su_id'[th] = FirstId(th)
              ELSE pc'[th] = pc[th] /\ su_id'[th] = su_id[th]
<1> DEFINE b == pc[<<l, 0>>]
<1>1. /\ \A th \in Threads : th[1] = l => At(th)[1] = "omp"
      /\ pc' = [th \in Threads |-> IF th[1] = l THEN NextPlace(th, pc[th]) ELSE pc[th]]
      /\ su_id' = [th \in Threads |-> IF th[1] = l THEN FirstId(th) ELSE su_id[th]]
  BY DEF Barrier
<1>2. \A th \in Threads : th[1] = l => pc[th] = b
  BY <1>1, SameBarrier, RankHasMaster
<1>3. Done \in Nat /\ pc \in [Threads -> 1 .. Done] /\ su_id \in [Threads -> Int]
      /\ Place(Done)[1] = "done"
  BY Path DEF TInv, ThreadsOK
<1>4. <<l, 0>> \in Threads /\ <<l, 0>>[1] = l /\ <<l, 0>>[2] = 0
  BY RankHasMaster
<1>5. Place(b)[1] = "omp" /\ b \in 1 .. Done
  BY <1>1, <1>3, <1>4 DEF At
<1>6. b \in 1 .. Done - 1 /\ b \in 0 .. Done - 1
  BY <1>3, <1>5
<1>7. \A th \in Threads :
        IF th[1] = l
        THEN /\ pc[th] = b /\ pc'[th] = NextPlace(th, b)
             /\ su_id[th] = FirstId(th) /\ su_id'[th] = FirstId(th)
        ELSE pc'[th] = pc[th] /\ su_id'[th] = su_id[th]
  BY <1>1, <1>2 DEF TInv, ThreadsOK, Unlooped
<1> HIDE DEF b
<1>8. \A th \in Threads :
        /\ NextPlace(th, b) \in b + 1 .. Done /\ Stops(th, NextPlace(th, b))
        /\ \A j \in b + 1 .. NextPlace(th, b) - 1 : ~Stops(th, j)
  BY <1>6, FirstStop
<1>9. \A th \in Threads : FirstId(th) \in Int
  BY ThreadIds DEF FirstId
<1>10. ThreadsOK'
  <2>1. ASSUME NEW th \in Threads
        PROVE  /\ pc'[th] \in 1 .. Done /\ su_id'[th] \in Int
               /\ Stops(th, pc'[th]) /\ FirstId(th) <= su_id'[th]
               /\ Unlooped(Place(pc'[th])) => su_id'[th] = FirstId(th)
    <3>1. CASE th[1] = l
      <4>1. pc'[th] \in b + 1 .. Done /\ Stops(th, pc'[th]) /\ su_id'[th] = FirstId(th)
        BY <1>7, <1>8, <3>1
      <4> QED
        BY <1>3, <1>6, <1>9, <4>1
    <3>2. CASE th[1] # l
      BY <1>3, <1>7, <3>2 DEF TInv, ThreadsOK, At
    <3> QED
      BY <3>1, <3>2
  <2>2. pc' \in [Threads -> 1 .. Done] /\ su_id' \in [Threads -> Int]
    BY <1>1, <2>1
  <2> QED
    BY <2>1, <2>2 DEF ThreadsOK, At
<1>11. SameSegment'
  <2> SUFFICES ASSUME NEW t \in Threads, NEW m \in Threads, NEW c \in 1 .. Done,
                      t[1] = m[1], pc'[t] <= c, c < pc'[m], Place(c)[1] = "omp"
               PROVE  FALSE
    BY DEF SameSegment
  <2>1. CASE t[1] = l
    <3>1. pc'[t] \in b + 1 .. Done /\ pc'[m] = NextPlace(m, b) /\ NextPlace(m, b) \in b + 1 .. Done
      BY <1>7, <1>8, <2>1
    <3>2. c \in b + 1 .. NextPlace(m, b) - 1
      BY <1>3, <1>6, <3>1
    <3> QED
      BY <1>8, <3>2 DEF Stops
  <2>2. CASE t[1] # l
    BY <1>7, <2>2 DEF TInv, SameSegment
  <2> QED
    BY <2>1, <2>2
<1>12. OthersWait'
  <2> SUFFICES ASSUME NEW t \in Threads, Place(pc'[Master(t)])[1] = "master", t[2] # 0
               PROVE  /\ Place(pc'[t])[1] = "omp"
                      /\ \A j \in pc'[Master(t)] .. pc'[t] - 1 : Place(j)[1] = "master"
    BY DEF OthersWait, InMaster, At
  <2>1. Master(t) \in Threads /\ Master(t)[1] = t[1] /\ Master(t)[2] = 0
    BY ThreadShape DEF Master
  <2>2. CASE t[1] = l
    <3>1. pc'[Master(t)] = b + 1 /\ pc'[t] = NextPlace(t, b)
      BY <1>6, <1>7, <2>1, <2>2, NextOfMaster
    <3> QED
      BY <1>6, <3>1, NextOverSection
  <2>3. CASE t[1] # l
    BY <1>7, <2>1, <2>3 DEF TInv, OthersWait, InMaster, At
  <2> QED
    BY <2>2, <2>3
<1> QED
  BY <1>5, <1>6, <1>7, <1>10, <1>11, <1>12 DEF TInv, b

LEMMA SolveKeeps ==
  ASSUME TInv, Solve
  PROVE  /\ TInv' /\ su_id' = su_id
         /\ \A th \in Threads : pc'[th] = IF th[2] = 0 THEN pc[th] + 1 ELSE pc[th]
         /\ \A th \in Threads : th[2] = 0 =>
              /\ At(th) = <<"master", "solve">> /\ pc[th] \in 1 .. Done - 1
              /\ Place(pc[th] + 1) = <<"omp", "solved">>
<1>1. /\ \A th \in Threads : th[2] = 0 => At(th) = <<"master", "solve">>
      /\ pc' = [th \in Threads |-> IF th[2] = 0 THEN NextPlace(th, pc[th]) ELSE pc[th]]
      /\ su_id' = su_id
  BY DEF Solve, Masters
<1>2. Done \in Nat /\ pc \in [Threads -> 1 .. Done] /\ su_id \in [Threads -> Int]
  BY Path DEF TInv, ThreadsOK
<1>3. ASSUME NEW th \in Threads, th[2] = 0
      PROVE  /\ pc[th] \in 1 .. Done - 1 /\ NextPlace(th, pc[th]) = pc[th] + 1 /\ Stops(th, pc[th] + 1)
             /\ Place(pc[th] + 1) = <<"omp", "solved">>
             /\ su_id[th] = FirstId(th)
  <2>1. At(th) = <<"master", "solve">> /\ At(th)[1] = "master"
    BY <1>1, <1>3
  <2>2. pc[th] \in 1 .. Done - 1 /\ NextPlace(th, pc[th]) = pc[th] + 1 /\ Stops(th, pc[th] + 1)
    BY <2>1, NextStep DEF TInv
  <2>3. Place(pc[th] + 1) = <<"omp", "solved">>
    <3>1. Follows(<<"master", "solve">>, Place(pc[th] + 1))
      BY <2>1, <2>2, Path DEF At
    <3> QED
      BY <3>1 DEF Follows
  <2> QED
    BY <2>1, <2>2, <2>3 DEF TInv, ThreadsOK, Unlooped
<1>4. \A th \in Threads : pc'[th] = IF th[2] = 0 THEN pc[th] + 1 ELSE pc[th]
  BY <1>1, <1>3
<1>5. ThreadsOK'
  <2>1. ASSUME NEW th \in Threads
        PROVE  /\ pc'[th] \in 1 .. Done /\ Stops(th, pc'[th])
               /\ Unlooped(Place(pc'[th])) => su_id[th] = FirstId(th)
    <3>1. CASE th[2] = 0
      BY <1>2, <1>3, <1>4, <3>1
    <3>2. CASE th[2] # 0
      BY <1>2, <1>4, <3>2 DEF TInv, ThreadsOK, At
    <3> QED
      BY <3>1, <3>2
  <2>2. pc' \in [Threads -> 1 .. Done]
    BY <1>1, <2>1
  <2> QED
    BY <1>1, <2>1, <2>2 DEF TInv, ThreadsOK, At
<1>6. SameSegment'
  <2> SUFFICES ASSUME NEW t \in Threads, NEW m \in Threads, NEW b \in 1 .. Done,
                      t[1] = m[1], pc'[t] <= b, b < pc'[m]
               PROVE  Place(b)[1] # "omp"
    BY DEF SameSegment
  <2>1. pc[t] \in Int /\ pc[m] \in Int /\ b \in Int
    BY <1>2
  <2>2. pc[t] <= b
    BY <1>4, <2>1
  <2>3. CASE b < pc[m]
    BY <2>2, <2>3 DEF TInv, SameSegment
  <2>4. CASE ~(b < pc[m])
    <3>1. m[2] = 0 /\ b = pc[m]
      BY <1>4, <2>1, <2>4
    <3>2. Place(b) = <<"master", "solve">>
      BY <1>1, <3>1 DEF At
    <3> QED
      BY <3>2
  <2> QED
    BY <2>3, <2>4
<1>7. OthersWait'
  <2> SUFFICES ASSUME NEW t \in Threads, Place(pc'[Master(t)])[1] = "master" PROVE FALSE
    BY DEF OthersWait, InMaster, At
  <2>1. Master(t) \in Threads /\ Master(t)[2] = 0
    BY ThreadShape DEF Master
  <2>2. Place(pc'[Master(t)]) = <<"omp", "solved">>
    BY <1>3, <1>4, <2>1
  <2> QED
    BY <2>2
<1> QED
  BY <1>1, <1>3, <1>4, <1>5, <1>6, <1>7 DEF TInv

-----------------------------------------------------------------------------
(* Where the submeshes are in the program: at the place of the rank's      *)
(* master in a master section, else at the place of their thread, and at   *)
(* the one after it when the loop there has been run for them.             *)
Position(th, u) == IF su_id[th] > SubmeshId[u] THEN pc[th] + 1 ELSE pc[th]
Runner(u) == CHOOSE th \in Threads : Runs(th, u)
MasterOf(u) == <<Locality[u], 0>>
Leader(u) == IF InMaster(MasterOf(u)) THEN MasterOf(u) ELSE Runner(u)
Pos(u) == Position(Leader(u), u)
Here(u) == Place(Pos(u))

(* The submeshes in S go on to the next place, the others stay.            *)
Moved(S) == \A u \in Unit : Pos(u)' = IF u \in S THEN Pos(u) + 1 ELSE Pos(u)

LEMMA RunnerRuns ==
  ASSUME NEW u \in Unit
  PROVE  /\ Runner(u) \in Threads /\ Runs(Runner(u), u) /\ Runner(u)[1] = Locality[u]
         /\ \A th \in Threads : Runs(th, u) => th = Runner(u)
         /\ MasterOf(u) \in Threads /\ MasterOf(u)[1] = Locality[u] /\ MasterOf(u)[2] = 0
         /\ Master(Runner(u)) = MasterOf(u) /\ Locality[u] \in Ranks /\ SubmeshId[u] \in Nat
<1>1. Runner(u) \in Threads /\ Runs(Runner(u), u)
  BY RunByOne DEF Runner
<1>2. \A th \in Threads : Runs(th, u) => th = Runner(u)
  BY <1>1, RunByOne
<1>3. Runner(u)[1] = Locality[u]
  BY <1>1 DEF Runs, ThreadRuns
<1>4. Locality[u] \in Ranks
  BY DEF Ranks
<1>5. MasterOf(u) \in Threads
  BY <1>4, RankHasMaster DEF MasterOf
<1> QED BY <1>1, <1>2, <1>3, <1>4, <1>5, CommunicatorAssumption DEF MasterOf, Master

(* Thread numbers: those of th's submeshes are from FirstId(th) on.        *)
LEMMA RunIds ==
  ASSUME NEW th \in Threads
  PROVE  /\ FirstId(th) \in Int /\ EndSimId(th[1], th[2]) \in Int /\ NumUnits(th[1]) \in Int
         /\ th[2] = 0 => FirstId(th) = 0
         /\ \A u \in Unit : Runs(th, u) =>
              /\ Locality[u] = th[1] /\ SubmeshId[u] \in Nat
              /\ FirstId(th) <= SubmeshId[u] /\ SubmeshId[u] < EndSimId(th[1], th[2])
         /\ \A u \in Unit : Locality[u] = th[1] => SubmeshId[u] < NumUnits(th[1])
BY ThreadIds DEF FirstId

(* A thread in a master section is the master, and stands for all          *)
(* submeshes of its rank.                                                  *)
LEMMA InMasterIsMaster ==
  ASSUME ThreadsOK, NEW th \in Threads, InMaster(th)
  PROVE  th[2] = 0 /\ th = Master(th) /\ \A u \in Unit : Locality[u] = th[1] => MasterOf(u) = th
<1>1. Stops(th, pc[th])
  BY DEF ThreadsOK
<1>2. th[2] = 0
  BY <1>1 DEF Stops, InMaster, At
<1> QED BY <1>2, ThreadShape DEF Master, MasterOf

LEMMA LeaderOK ==
  ASSUME ThreadsOK, NEW u \in Unit
  PROVE  /\ Leader(u) \in Threads /\ Leader(u)[1] = Locality[u]
         /\ FirstId(Leader(u)) \in Int /\ FirstId(Leader(u)) <= SubmeshId[u]
         /\ SubmeshId[u] \in Nat /\ pc[Leader(u)] \in 1 .. Done /\ su_id[Leader(u)] \in Int
<1>1. Leader(u) \in Threads /\ Leader(u)[1] = Locality[u] /\ SubmeshId[u] \in Nat
  BY RunnerRuns DEF Leader
<1>2. FirstId(Leader(u)) <= SubmeshId[u]
  <2>1. CASE InMaster(MasterOf(u))
    BY <2>1, <1>1, RunIds, RunnerRuns DEF Leader
  <2>2. CASE ~InMaster(MasterOf(u))
    BY <2>2, <1>1, RunIds, RunnerRuns DEF Leader
  <2> QED BY <2>1, <2>2
<1> QED BY <1>1, <1>2, RunIds DEF ThreadsOK

(* Every submesh is at a place of the program.                             *)
LEMMA PosType ==
  ASSUME ThreadsOK, NEW u \in Unit
  PROVE  /\ Pos(u) \in 1 .. Done
         /\ Pos(u) \in {pc[Leader(u)], pc[Leader(u)] + 1}
         /\ Pos(u) # pc[Leader(u)] => ~Unlooped(At(Leader(u))) /\ pc[Leader(u)] < Done
         /\ Unlooped(At(Leader(u))) => Pos(u) = pc[Leader(u)]
<1> DEFINE L == Leader(u)
<1>1. /\ L \in Threads /\ FirstId(L) \in Int /\ FirstId(L) <= SubmeshId[u]
      /\ SubmeshId[u] \in Nat /\ pc[L] \in 1 .. Done /\ su_id[L] \in Int
  BY LeaderOK
<1>2. Unlooped(At(L)) => su_id[L] = FirstId(L)
  BY <1>1 DEF ThreadsOK
<1>3. Pos(u) = IF su_id[L] > SubmeshId[u] THEN pc[L] + 1 ELSE pc[L]
  BY DEF Pos, Position
<1>4. pc[L] = Done => Unlooped(At(L))
  BY Path DEF Unlooped, At
<1> HIDE DEF L
<1>5. Done \in Nat
  BY Path
<1>6. Pos(u) \in 1 .. Done /\ (Pos(u) # pc[L] => ~Unlooped(At(L)) /\ pc[L] < Done)
  BY <1>1, <1>2, <1>3, <1>4, <1>5
<1>7. Unlooped(At(L)) => Pos(u) = pc[L]
  BY <1>1, <1>2, <1>3
<1> QED BY <1>3, <1>6, <1>7 DEF L

(* The other threads wait right after the master's section.                *)
LEMMA WaitNext ==
  ASSUME TInv, NEW th \in Threads, th[2] # 0, InMaster(Master(th)),
         Place(pc[Master(th)] + 1)[1] = "omp"
  PROVE  pc[th] = pc[Master(th)] + 1 /\ su_id[th] = FirstId(th)
<1> DEFINE m == Master(th)
<1>0. m \in Threads /\ m[1] = th[1]
  BY ThreadShape
<1>1. pc[m] \in 1 .. Done /\ pc[th] \in 1 .. Done
  BY <1>0 DEF TInv, ThreadsOK
<1>2. At(th)[1] = "omp" /\ \A j \in pc[m] .. pc[th] - 1 : Place(j)[1] = "master"
  BY DEF TInv, OthersWait
<1>3. pc[m] <= pc[th]
  <2> SUFFICES ASSUME pc[th] < pc[m] PROVE FALSE
    BY <1>1, Path
  <2>1. Place(pc[th])[1] # "omp"
    BY <1>0, <1>1, Path DEF TInv, SameSegment
  <2> QED BY <2>1, <1>2 DEF At
<1>4. pc[th] # pc[m]
  BY <1>2 DEF At, InMaster
<1>5. ~(pc[th] > pc[m] + 1)
  <2> SUFFICES ASSUME pc[th] > pc[m] + 1 PROVE FALSE
    OBVIOUS
  <2>1. pc[m] + 1 \in pc[m] .. pc[th] - 1
    BY <1>1, Path
  <2> QED BY <2>1, <1>2
<1>6. su_id[th] = FirstId(th)
  BY <1>2 DEF TInv, ThreadsOK, Unlooped
<1> QED BY <1>1, <1>3, <1>4, <1>5, <1>6, Path

(* A submesh stays where its leader stays.                                 *)
LEMMA LeaderStays ==
  ASSUME NEW w \in Unit, InMaster(MasterOf(w))' <=> InMaster(MasterOf(w)),
         pc'[Leader(w)] = pc[Leader(w)], su_id'[Leader(w)] = su_id[Leader(w)]
  PROVE  Pos(w)' = Pos(w) /\ Leader(w)' = Leader(w)
<1>1. MasterOf(w)' = MasterOf(w) /\ Runner(w)' = Runner(w)
  BY DEF MasterOf, Runner
<1>2. Leader(w)' = Leader(w)
  BY <1>1 DEF Leader
<1> DEFINE L == Leader(w)
<1>3. pc'[L] = pc[L] /\ su_id'[L] = su_id[L]
  OBVIOUS
<1>4. Pos(w) = IF su_id[L] > SubmeshId[w] THEN pc[L] + 1 ELSE pc[L]
  BY DEF Pos, Position
<1>5. Pos(w)' = IF su_id'[L] > SubmeshId[w] THEN pc'[L] + 1 ELSE pc'[L]
  BY <1>2 DEF Pos, Position
<1> QED BY <1>2, <1>3, <1>4, <1>5

(* The next submesh of the loop.                                           *)
LEMMA NextUnitMoves ==
  ASSUME TInv, NEW th \in Threads, NEW u \in Unit, Leader(u) = th, su_id[th] = SubmeshId[u],
         pc' = pc, su_id' = [su_id EXCEPT ![th] = @ + 1]
  PROVE  Pos(u) = pc[th] /\ Moved({u})
<1>1. /\ th[1] = Locality[u] /\ SubmeshId[u] \in Nat /\ pc[th] \in 1 .. Done /\ su_id[th] \in Int
  BY LeaderOK DEF TInv
<1>2. Pos(u) = pc[th]
  BY <1>1 DEF Pos, Position
<1>3. su_id'[th] = su_id[th] + 1 /\ \A m \in Threads \ {th} : su_id'[m] = su_id[m]
  BY DEF TInv, ThreadsOK
<1>4. ASSUME NEW w \in Unit PROVE InMaster(MasterOf(w))' <=> InMaster(MasterOf(w))
  BY DEF InMaster, At, MasterOf
<1>5. ASSUME NEW w \in Unit, Leader(w) # th PROVE Pos(w)' = Pos(w)
  BY <1>3, <1>4, <1>5, LeaderStays, LeaderOK DEF TInv
<1>6. ASSUME NEW w \in Unit, Leader(w) = th
      PROVE  Pos(w)' = IF w = u THEN Pos(w) + 1 ELSE Pos(w)
  <2>1. Locality[w] = th[1] /\ SubmeshId[w] \in Nat
    BY <1>6, LeaderOK DEF TInv
  <2>2. Leader(w)' = th
    BY <1>4, <1>6 DEF Leader, MasterOf, Runner
  <2>3. Pos(w) = IF su_id[th] > SubmeshId[w] THEN pc[th] + 1 ELSE pc[th]
    BY <1>6 DEF Pos, Position
  <2>4. Pos(w)' = IF su_id[th] + 1 > SubmeshId[w] THEN pc[th] + 1 ELSE pc[th]
    BY <1>3, <2>2 DEF Pos, Position
  <2>5. w # u => SubmeshId[w] # SubmeshId[u]
    BY <1>1, <2>1, OmpiThreadsAssumption
  <2>6. CASE w = u
    BY <2>6, <1>1, <2>3, <2>4
  <2>7. CASE w # u
    BY <2>7, <1>1, <2>1, <2>3, <2>4, <2>5
  <2> QED BY <2>6, <2>7
<1>7. ASSUME NEW w \in Unit PROVE Pos(w)' = IF w \in {u} THEN Pos(w) + 1 ELSE Pos(w)
  <2>1. Leader(w) # th => w # u
    OBVIOUS
  <2> QED BY <2>1, <1>5, <1>6
<1> QED BY <1>2, <1>7 DEF Moved

(* Whose leader th is: those of its rank in a master section, else its own.*)
LEMMA LedBy ==
  ASSUME TInv, NEW th \in Threads, NEW w \in Unit, Leader(w) = th
  PROVE  /\ Locality[w] = th[1] /\ SubmeshId[w] \in Nat /\ SubmeshId[w] < EndId(th)
         /\ FirstId(th) \in Int /\ FirstId(th) <= SubmeshId[w]
         /\ InMaster(th) => MasterOf(w) = th
         /\ ~InMaster(th) => Runner(w) = th /\ ~InMaster(MasterOf(w))
<1>1. /\ Locality[w] = th[1] /\ SubmeshId[w] \in Nat
      /\ FirstId(th) \in Int /\ FirstId(th) <= SubmeshId[w]
  BY LeaderOK DEF TInv
<1>2. CASE InMaster(th)
  BY <1>1, <1>2, InMasterIsMaster, RunIds DEF EndId, TInv
<1>3. CASE ~InMaster(th)
  <2>1. ~InMaster(MasterOf(w)) /\ Runner(w) = th
    BY <1>3 DEF Leader
  <2>2. Runs(th, w)
    BY <2>1, RunnerRuns
  <2> QED BY <1>1, <1>3, <2>1, <2>2, RunIds DEF EndId
<1> QED BY <1>2, <1>3

(* Going on after the last submesh of the loop, or after what is done once *)
(* for all submeshes (S) it leads.                                         *)
LEMMA ThreadGoesOn ==
  ASSUME TInv, NEW th \in Threads, At(th)[1] \notin {"omp", "done"}, GoOn(th), NEW S \in SUBSET Unit,
         \A w \in Unit : Leader(w) = th => Pos(w) = IF w \in S THEN pc[th] ELSE pc[th] + 1,
         \A w \in S : Leader(w) = th
  PROVE  Moved(S)
<1>1. /\ pc[th] \in 1 .. Done - 1 /\ NextPlace(th, pc[th]) = pc[th] + 1
      /\ ~InMaster(th) => Place(pc[th] + 1)[1] # "master"
  BY NextStep DEF TInv
<1>2. pc'[th] = pc[th] + 1 /\ su_id'[th] = FirstId(th)
  BY GoOnKeeps
<1>3. \A m \in Threads \ {th} : pc'[m] = pc[m] /\ su_id'[m] = su_id[m]
  BY DEF GoOn, TInv, ThreadsOK
<1>4. ASSUME InMaster(th)' PROVE InMaster(th) /\ Place(pc[th] + 1)[1] = "master"
  BY <1>1, <1>2, <1>4 DEF InMaster, At
<1>5. ASSUME NEW m \in Threads \ {th} PROVE InMaster(m)' <=> InMaster(m)
  BY <1>3 DEF InMaster, At
<1>6. ASSUME NEW w \in Unit, Leader(w) # th PROVE Pos(w)' = Pos(w)
  <2>1. Leader(w) \in Threads \ {th} /\ MasterOf(w) \in Threads
    BY <1>6, LeaderOK, RunnerRuns DEF TInv
  <2>2. MasterOf(w)' = MasterOf(w)
    BY DEF MasterOf
  <2>3. MasterOf(w) = th => ~InMaster(th)
    BY <1>6 DEF Leader
  <2>4. InMaster(MasterOf(w))' <=> InMaster(MasterOf(w))
    BY <1>4, <1>5, <2>1, <2>2, <2>3
  <2> QED BY <1>3, <2>1, <2>4, LeaderStays
<1>7. ASSUME NEW w \in Unit, Leader(w) = th PROVE Pos(w)' = pc[th] + 1
  <2>0. /\ Locality[w] = th[1] /\ SubmeshId[w] \in Nat
        /\ FirstId(th) \in Int /\ FirstId(th) <= SubmeshId[w]
        /\ InMaster(th) => MasterOf(w) = th
        /\ ~InMaster(th) => Runner(w) = th /\ ~InMaster(MasterOf(w))
    BY <1>7, LedBy
  <2>1. Pos(w)' = IF su_id'[Leader(w)'] > SubmeshId[w] THEN pc'[Leader(w)'] + 1 ELSE pc'[Leader(w)']
    BY DEF Pos, Position
  <2>2. MasterOf(w)' = MasterOf(w) /\ Runner(w)' = Runner(w)
    BY DEF MasterOf, Runner
  <2>3. CASE Leader(w)' = th
    BY <2>3, <2>0, <2>1, <1>1, <1>2
  <2>4. CASE Leader(w)' # th
    <3>1. InMaster(th) /\ ~InMaster(th)'
      <4>1. CASE ~InMaster(th)
        <5>1. ~InMaster(MasterOf(w))'
          BY <4>1, <2>0, <1>4, <1>5, <2>2, RunnerRuns
        <5> QED BY <5>1, <4>1, <2>0, <2>2, <2>4 DEF Leader
      <4>2. CASE InMaster(th) /\ InMaster(th)'
        BY <4>2, <2>0, <2>2, <2>4 DEF Leader
      <4> QED BY <4>1, <4>2
    <3>2. MasterOf(w) = th /\ Leader(w)' = Runner(w) /\ Runner(w) # th
      BY <3>1, <2>0, <2>2, <2>4 DEF Leader
    <3>3. Runner(w) \in Threads /\ Master(Runner(w)) = th
      BY <3>2, RunnerRuns
    <3>4. Runner(w)[2] # 0
      BY <3>2, <3>3, ThreadShape DEF Master
    <3>5. Place(pc[th] + 1)[1] = "omp"
      BY <3>1, <1>1, <1>2, SectionEnds DEF InMaster, At
    <3>6. pc[Runner(w)] = pc[th] + 1 /\ su_id[Runner(w)] = FirstId(Runner(w))
      BY <3>1, <3>3, <3>4, <3>5, WaitNext
    <3>7. FirstId(Runner(w)) \in Int /\ FirstId(Runner(w)) <= SubmeshId[w]
      BY RunnerRuns, RunIds
    <3> QED BY <2>0, <2>1, <3>2, <3>3, <3>6, <3>7, <1>3
  <2> QED BY <2>3, <2>4
<1>8. ASSUME NEW w \in Unit PROVE Pos(w)' = IF w \in S THEN Pos(w) + 1 ELSE Pos(w)
  BY <1>6, <1>7, <1>1
<1> QED BY <1>8 DEF Moved

(* A loop body moves its submesh on to the next place.                     *)
LEMMA BodyMoves ==
  ASSUME TInv, NEW th \in Threads, NEW u \in Unit, ~Unlooped(At(th)), Body(th, u)
  PROVE  /\ TInv' /\ Moved({u}) /\ Leader(u) = th
         /\ Pos(u) = pc[th] /\ Here(u) = At(th) /\ Pos(u) \in 1 .. Done - 1
<1>1. At(th)[1] \notin {"omp", "done"}
  BY DEF Unlooped
<1>2. th[1] = Locality[u] /\ su_id[th] = SubmeshId[u] /\ su_id[th] < EndId(th)
  BY DEF Body
<1>3. pc[th] \in 1 .. Done - 1
  BY <1>1, NextStep DEF TInv
<1>4. Leader(u) = th
  <2>1. CASE InMaster(th)
    BY <2>1, <1>2, InMasterIsMaster DEF Leader, TInv
  <2>2. CASE ~InMaster(th)
    <3>1. FirstId(th) <= su_id[th]
      BY DEF TInv, ThreadsOK
    <3>2. Runs(th, u)
      BY <2>2, <3>1, <1>2 DEF Runs, ThreadRuns, FirstId, EndId
    <3>3. Runner(u) = th /\ Master(th) = MasterOf(u)
      BY <3>2, RunnerRuns
    <3>4. ~InMaster(MasterOf(u))
      <4>1. CASE th[2] = 0
        BY <4>1, <3>3, <2>2, ThreadShape DEF Master
      <4>2. CASE th[2] # 0
        BY <4>2, <3>3, <1>1 DEF TInv, OthersWait
      <4> QED BY <4>1, <4>2
    <3> QED BY <3>3, <3>4 DEF Leader
  <2> QED BY <2>1, <2>2
<1>5. /\ pc[th] \in 1 .. Done /\ SubmeshId[u] \in Nat /\ su_id[th] \in Int
  BY <1>4, LeaderOK DEF TInv
<1>6. Pos(u) = pc[th]
  BY <1>2, <1>4, <1>5 DEF Pos, Position
<1>7. Here(u) = At(th)
  BY <1>6 DEF Here, At
<1>8. CASE su_id[th] + 1 < EndId(th)
  <2>1. su_id' = [su_id EXCEPT ![th] = @ + 1] /\ pc' = pc
    BY <1>8 DEF Body
  <2>2. TInv'
    BY <2>1, NextUnitKeeps
  <2>3. Moved({u})
    BY <2>1, <1>2, <1>4, NextUnitMoves
  <2> QED BY <2>2, <2>3, <1>3, <1>4, <1>6, <1>7
<1>9. CASE ~(su_id[th] + 1 < EndId(th))
  <2>1. GoOn(th)
    BY <1>9 DEF Body
  <2>2. TInv'
    BY <2>1, <1>1, GoOnKeeps
  <2>3. ASSUME NEW w \in Unit, Leader(w) = th
        PROVE  Pos(w) = IF w \in {u} THEN pc[th] ELSE pc[th] + 1
    <3>1. SubmeshId[w] < EndId(th) /\ SubmeshId[w] \in Nat /\ Locality[w] = th[1]
      BY <2>3, LedBy
    <3>2. EndId(th) \in Int
      BY RunIds DEF EndId
    <3>3. w # u => SubmeshId[w] # SubmeshId[u]
      BY <3>1, <1>2, OmpiThreadsAssumption
    <3>4. w # u => SubmeshId[w] < su_id[th]
      BY <3>1, <3>2, <3>3, <1>2, <1>5, <1>9
    <3>5. w # u => Pos(w) = pc[th] + 1
      BY <3>4, <2>3 DEF Pos, Position
    <3> QED BY <3>5, <1>6
  <2>4. Moved({u})
    BY <2>1, <2>3, <1>1, <1>4, ThreadGoesOn
  <2> QED BY <2>2, <2>4, <1>3, <1>4, <1>6, <1>7
<1> QED BY <1>8, <1>9

(* A part of a master section that is no loop moves all submeshes of the   *)
(* rank on.                                                                *)
LEMMA SectionMoves ==
  ASSUME TInv, NEW th \in Threads, At(th) \in {<<"master", "gather">>, <<"master", "scatter">>}, GoOn(th)
  PROVE  /\ TInv' /\ Moved(UnitsOn(th[1])) /\ th = Master(th) /\ pc[th] \in 1 .. Done - 1
         /\ \A u \in UnitsOn(th[1]) : Pos(u) = pc[th] /\ Here(u) = At(th)
<1>1. At(th)[1] \notin {"omp", "done"} /\ Unlooped(At(th)) /\ InMaster(th)
  BY DEF Unlooped, InMaster
<1>2. th = Master(th) /\ \A u \in Unit : Locality[u] = th[1] => MasterOf(u) = th
  BY <1>1, InMasterIsMaster DEF TInv
<1>3. ASSUME NEW u \in UnitsOn(th[1]) PROVE Leader(u) = th
  BY <1>1, <1>2 DEF UnitsOn, Leader
<1>4. ASSUME NEW u \in Unit, Leader(u) = th PROVE u \in UnitsOn(th[1]) /\ Pos(u) = pc[th]
  <2>1. Locality[u] = th[1]
    BY <1>4, LeaderOK DEF TInv
  <2>2. Pos(u) = pc[th]
    BY <1>1, <1>4, PosType DEF TInv
  <2> QED BY <2>1, <2>2 DEF UnitsOn
<1>5. UnitsOn(th[1]) \in SUBSET Unit
  BY DEF UnitsOn
<1>6. Moved(UnitsOn(th[1]))
  BY <1>1, <1>3, <1>4, <1>5, ThreadGoesOn
<1>7. TInv' /\ pc[th] \in 1 .. Done - 1
  BY <1>1, GoOnKeeps, NextStep DEF TInv
<1>8. ASSUME NEW u \in UnitsOn(th[1]) PROVE Pos(u) = pc[th] /\ Here(u) = At(th)
  BY <1>3, <1>4, <1>5 DEF Here, At
<1> QED BY <1>2, <1>6, <1>7, <1>8

(* A barrier moves all submeshes of its rank on.                           *)
LEMMA BarrierMoves ==
  ASSUME TInv, NEW l \in Ranks, Barrier(l)
  PROVE  /\ TInv' /\ Moved(UnitsOn(l)) /\ pc[<<l, 0>>] \in 1 .. Done - 1
         /\ Place(pc[<<l, 0>>])[1] = "omp" /\ \A u \in UnitsOn(l) : Pos(u) = pc[<<l, 0>>]
<1> DEFINE m == <<l, 0>>
<1>0. m \in Threads /\ m[1] = l /\ m[2] = 0
  BY RankHasMaster
<1>1. /\ TInv' /\ pc[m] \in 1 .. Done - 1 /\ Place(pc[m])[1] = "omp"
      /\ \A th \in Threads :
           IF th[1] = l
           THEN /\ pc[th] = pc[m] /\ pc'[th] = NextPlace(th, pc[th])
                /\ su_id[th] = FirstId(th) /\ su_id'[th] = FirstId(th)
           ELSE pc'[th] = pc[th] /\ su_id'[th] = su_id[th]
  BY BarrierKeeps
<1> HIDE DEF m
<1>2. ASSUME NEW u \in Unit PROVE MasterOf(u)' = MasterOf(u) /\ Runner(u)' = Runner(u)
  BY DEF MasterOf, Runner
<1>3. ASSUME NEW u \in UnitsOn(l) PROVE Pos(u) = pc[m]
  <2>1. u \in Unit /\ Locality[u] = l
    BY DEF UnitsOn
  <2>2. /\ Leader(u) \in Threads /\ Leader(u)[1] = l
        /\ FirstId(Leader(u)) \in Int /\ FirstId(Leader(u)) <= SubmeshId[u] /\ SubmeshId[u] \in Nat
    BY <2>1, LeaderOK DEF TInv
  <2> QED BY <2>2, <1>1 DEF Pos, Position
<1>4. pc'[m] = pc[m] + 1
  BY <1>0, <1>1, NextOfMaster
<1>5. ASSUME NEW u \in UnitsOn(l) PROVE Pos(u)' = pc[m] + 1
  <2>1. u \in Unit /\ Locality[u] = l
    BY DEF UnitsOn
  <2>2. MasterOf(u) = m
    BY <2>1 DEF MasterOf, m
  <2>3. Pos(u)' = IF su_id'[Leader(u)'] > SubmeshId[u] THEN pc'[Leader(u)'] + 1 ELSE pc'[Leader(u)']
    BY DEF Pos, Position
  <2>4. Leader(u)' = IF InMaster(m)' THEN m ELSE Runner(u)
    <3>1. Leader(u)' = IF InMaster(MasterOf(u))' THEN MasterOf(u)' ELSE Runner(u)'
      BY DEF Leader
    <3>2. InMaster(MasterOf(u))' <=> InMaster(m)'
      BY <2>1, <2>2, <1>2 DEF InMaster, At, m, MasterOf
    <3> QED BY <3>1, <3>2, <2>1, <2>2, <1>2
  <2>5. InMaster(m)' <=> Place(pc[m] + 1)[1] = "master"
    BY <1>4 DEF InMaster, At, m
  <2>6. CASE Place(pc[m] + 1)[1] = "master"
    <3>1. Leader(u)' = m
      BY <2>4, <2>5, <2>6
    <3>2. su_id'[m] = FirstId(m) /\ FirstId(m) = 0 /\ SubmeshId[u] \in Nat
      BY <1>0, <1>1, <2>1, RunIds, RunnerRuns
    <3> QED BY <3>1, <3>2, <2>3, <1>4
  <2>7. CASE Place(pc[m] + 1)[1] # "master"
    <3>1. Leader(u)' = Runner(u)
      BY <2>4, <2>5, <2>7
    <3>2. /\ Runner(u) \in Threads /\ Runner(u)[1] = l /\ Runs(Runner(u), u) /\ SubmeshId[u] \in Nat
      BY <2>1, RunnerRuns
    <3>3. FirstId(Runner(u)) \in Int /\ FirstId(Runner(u)) <= SubmeshId[u] /\ HasWork(Runner(u))
      <4>1. /\ FirstId(Runner(u)) \in Int /\ FirstId(Runner(u)) <= SubmeshId[u]
            /\ SubmeshId[u] < EndSimId(Runner(u)[1], Runner(u)[2])
            /\ EndSimId(Runner(u)[1], Runner(u)[2]) \in Int
        BY <2>1, <3>2, RunIds
      <4> QED BY <4>1, <3>2 DEF HasWork
    <3>4. NextPlace(Runner(u), pc[m]) = pc[m] + 1
      BY <3>2, <3>3, <2>7, <1>1, NextOfWorker
    <3>5. pc'[Runner(u)] = pc[m] + 1 /\ su_id'[Runner(u)] = FirstId(Runner(u))
      BY <3>2, <3>4, <1>1
    <3> QED BY <3>1, <3>2, <3>3, <3>5, <2>3
  <2> QED BY <2>6, <2>7
<1>6. ASSUME NEW u \in Unit \ UnitsOn(l) PROVE Pos(u)' = Pos(u)
  <2>1. Locality[u] # l
    BY DEF UnitsOn
  <2>2. Leader(u) \in Threads /\ Leader(u)[1] # l
    BY <2>1, LeaderOK DEF TInv
  <2>3. MasterOf(u) \in Threads /\ MasterOf(u)[1] # l
    BY <2>1, RunnerRuns
  <2>4. InMaster(MasterOf(u))' <=> InMaster(MasterOf(u))
    BY <2>3, <1>1, <1>2 DEF InMaster, At, MasterOf
  <2> QED BY <2>2, <2>4, <1>1, LeaderStays
<1>7. ASSUME NEW u \in Unit PROVE Pos(u)' = IF u \in UnitsOn(l) THEN Pos(u) + 1 ELSE Pos(u)
  BY <1>3, <1>5, <1>6
<1> QED BY <1>1, <1>3, <1>7 DEF Moved, m

(* The collective solve moves all submeshes of all ranks on.               *)
LEMMA SolveMoves ==
  ASSUME TInv, Solve
  PROVE  TInv' /\ Moved(Unit) /\ \A u \in Unit : Here(u) = <<"master", "solve">> /\ Pos(u) \in 1 .. Done - 1
<1>1. /\ TInv' /\ su_id' = su_id
      /\ \A th \in Threads : pc'[th] = IF th[2] = 0 THEN pc[th] + 1 ELSE pc[th]
      /\ \A th \in Threads : th[2] = 0 =>
           /\ At(th) = <<"master", "solve">> /\ pc[th] \in 1 .. Done - 1
           /\ Place(pc[th] + 1) = <<"omp", "solved">>
  BY SolveKeeps
<1>2. ASSUME NEW u \in Unit
      PROVE  Here(u) = <<"master", "solve">> /\ Pos(u) \in 1 .. Done - 1 /\ Pos(u)' = Pos(u) + 1
  <2> DEFINE m == MasterOf(u)
             r == Runner(u)
  <2>1. /\ m \in Threads /\ m[2] = 0 /\ r \in Threads /\ Master(r) = m /\ Runs(r, u)
        /\ SubmeshId[u] \in Nat
    BY RunnerRuns
  <2>2. At(m) = <<"master", "solve">> /\ pc[m] \in 1 .. Done - 1 /\ Place(pc[m] + 1) = <<"omp", "solved">>
    BY <1>1, <2>1
  <2>3. InMaster(m) /\ Unlooped(At(m)) /\ Place(pc[m] + 1)[1] = "omp"
    BY <2>2 DEF InMaster, Unlooped
  <2>4. Leader(u) = m /\ Pos(u) = pc[m]
    <3>1. Leader(u) = m
      BY <2>3 DEF Leader
    <3> QED BY <3>1, <2>3, PosType DEF TInv
  <2>5. Here(u) = <<"master", "solve">> /\ Pos(u) \in 1 .. Done - 1
    BY <2>2, <2>4 DEF Here, At
  <2>6. pc'[m] = pc[m] + 1
    BY <1>1, <2>1
  <2>7. ~InMaster(MasterOf(u))'
    BY <2>3, <2>6 DEF InMaster, At, MasterOf
  <2>8. Leader(u)' = r
    BY <2>7 DEF Leader, Runner, MasterOf
  <2>9. pc'[r] = pc[m] + 1 /\ su_id[r] = FirstId(r)
    <3>1. CASE r[2] = 0
      <4>1. r = m
        BY <3>1, <2>1, ThreadShape DEF Master
      <4> QED BY <4>1, <2>3, <2>6, <2>1 DEF TInv, ThreadsOK
    <3>2. CASE r[2] # 0
      <4>1. pc[r] = pc[m] + 1 /\ su_id[r] = FirstId(r)
        BY <3>2, <2>1, <2>3, WaitNext
      <4> QED BY <4>1, <3>2, <2>1, <1>1
    <3> QED BY <3>1, <3>2
  <2>10. FirstId(r) \in Int /\ FirstId(r) <= SubmeshId[u]
    BY <2>1, RunIds
  <2>11. Pos(u)' = IF su_id'[Leader(u)'] > SubmeshId[u] THEN pc'[Leader(u)'] + 1 ELSE pc'[Leader(u)']
    BY DEF Pos, Position
  <2>12. Pos(u)' = pc[m] + 1
    BY <1>1, <2>1, <2>8, <2>9, <2>10, <2>11
  <2> QED BY <2>4, <2>5, <2>12
<1> QED BY <1>1, <1>2 DEF Moved

LEMMA InitTInv ==
  ASSUME Init
  PROVE  TInv /\ \A u \in Unit : Pos(u) = 1
<1>1. pc = [th \in Threads |-> NextPlace(th, 0)] /\ su_id = [th \in Threads |-> FirstId(th)]
  BY DEF Init
<1>2. Done \in Nat /\ Done > 1 /\ Place(1) = <<"baryctr_coord", "exchange">>
  BY Path
<1>3. ASSUME NEW th \in Threads
      PROVE  /\ pc[th] \in 1 .. Done /\ Stops(th, pc[th])
             /\ \A j \in 1 .. pc[th] - 1 : ~Stops(th, j)
  <2>1. 0 \in 0 .. Done - 1
    BY <1>2
  <2> QED BY <1>1, <1>2, <2>1, FirstStop
<1>4. \A th \in Threads : su_id[th] = FirstId(th) /\ FirstId(th) \in Int
  BY <1>1, RunIds
<1>5. ThreadsOK
  <2>1. pc \in [Threads -> 1 .. Done]
    BY <1>1, <1>3
  <2>2. su_id \in [Threads -> Int]
    BY <1>1, <1>4
  <2> QED BY <1>3, <1>4, <2>1, <2>2 DEF ThreadsOK
<1>6. SameSegment
  <2> SUFFICES ASSUME NEW th \in Threads, NEW m \in Threads, NEW b \in 1 .. Done,
                      th[1] = m[1], pc[th] <= b, b < pc[m]
               PROVE  Place(b)[1] # "omp"
    BY DEF SameSegment
  <2>1. b \in 1 .. pc[m] - 1
    BY <1>3, <1>2
  <2> QED BY <2>1, <1>3 DEF Stops
<1>7. ASSUME NEW th \in Threads, HasWork(th) PROVE pc[th] = 1
  <2>1. Stops(th, 1)
    BY <1>2, <1>7 DEF Stops
  <2> QED BY <2>1, <1>2, <1>3
<1>8. ASSUME NEW th \in Threads, th[2] = 0 PROVE pc[th] = 1
  <2>1. th[1] \in Ranks
    BY ThreadShape
  <2>2. HasWork(th)
    BY <2>1, <1>8, MasterHasWork DEF HasWork, FirstId
  <2> QED BY <2>2, <1>7
<1>9. ASSUME NEW th \in Threads PROVE ~InMaster(Master(th))
  <2>1. pc[Master(th)] = 1
    BY <1>8, ThreadShape DEF Master
  <2> QED BY <2>1, <1>2 DEF InMaster, At
<1>10. OthersWait
  BY <1>9 DEF OthersWait
<1>11. ASSUME NEW u \in Unit PROVE Pos(u) = 1
  <2>1. /\ Runner(u) \in Threads /\ Runs(Runner(u), u) /\ Master(Runner(u)) = MasterOf(u)
        /\ SubmeshId[u] \in Nat
    BY RunnerRuns
  <2>2. Leader(u) = Runner(u)
    BY <2>1, <1>9 DEF Leader
  <2>3. /\ FirstId(Runner(u)) \in Int /\ FirstId(Runner(u)) <= SubmeshId[u]
        /\ SubmeshId[u] < EndSimId(Runner(u)[1], Runner(u)[2])
        /\ EndSimId(Runner(u)[1], Runner(u)[2]) \in Int
    BY <2>1, RunIds
  <2>4. HasWork(Runner(u))
    BY <2>3, <2>1 DEF HasWork
  <2>5. pc[Runner(u)] = 1
    BY <2>1, <2>4, <1>7
  <2> QED BY <2>1, <2>2, <2>3, <2>5, <1>4 DEF Pos, Position
<1> QED BY <1>5, <1>6, <1>10, <1>11 DEF TInv

(* The submeshes of a rank are not on different sides of a barrier.        *)
LEMMA UnitsInSegment ==
  ASSUME TInv, NEW u \in Unit, NEW w \in Unit, Locality[u] = Locality[w],
         NEW b \in 1 .. Done, Pos(u) <= b, b < Pos(w)
  PROVE  Place(b)[1] # "omp"
<1> DEFINE L == Leader(u)
           M == Leader(w)
<1>1. /\ L \in Threads /\ M \in Threads /\ L[1] = M[1]
      /\ pc[L] \in 1 .. Done /\ pc[M] \in 1 .. Done
  BY LeaderOK DEF TInv
<1>2. Pos(u) \in {pc[L], pc[L] + 1} /\ Pos(w) \in {pc[M], pc[M] + 1}
  BY PosType DEF TInv
<1>3. Pos(w) # pc[M] => ~Unlooped(At(M))
  BY PosType DEF TInv
<1> HIDE DEF L, M
<1>4. Done \in Nat
  BY Path
<1>5. pc[L] <= b
  BY <1>1, <1>2, <1>4
<1>6. CASE b < pc[M]
  BY <1>1, <1>5, <1>6 DEF TInv, SameSegment
<1>7. CASE ~(b < pc[M])
  <2>1. b = pc[M] /\ Pos(w) # pc[M]
    BY <1>1, <1>2, <1>4, <1>7
  <2> QED BY <2>1, <1>3 DEF Unlooped, At
<1> QED BY <1>6, <1>7

(* The places outside of master sections and barriers that a thread has    *)
(* passed for a submesh of its own are those before the submesh's.         *)
LEMMA PassedPlaces ==
  ASSUME TInv, NEW th \in Threads, NEW u \in Unit, Runs(th, u), NEW S \in SUBSET (1 .. Done),
         \A p \in S : Place(p)[1] \notin {"master", "omp"}
  PROVE  Passed(th, u, S) = {p \in S : p < Pos(u)}
<1>1. th = Runner(u) /\ Master(th) = MasterOf(u) /\ SubmeshId[u] \in Nat /\ MasterOf(u) \in Threads
  BY RunnerRuns
<1>2. pc[th] \in 1 .. Done /\ su_id[th] \in Int /\ Done \in Nat
  BY Path DEF TInv, ThreadsOK
<1>3. Pos(u) = IF su_id[Leader(u)] > SubmeshId[u] THEN pc[Leader(u)] + 1 ELSE pc[Leader(u)]
  BY DEF Pos, Position
<1>4. CASE Leader(u) = th
  <2>1. ASSUME NEW p \in S
        PROVE  (p < pc[th] \/ (p = pc[th] /\ su_id[th] > SubmeshId[u])) <=> p < Pos(u)
    <3>1. p \in 1 .. Done
      OBVIOUS
    <3> QED BY <3>1, <1>2, <1>3, <1>4
  <2> QED BY <2>1 DEF Passed
<1>5. CASE Leader(u) # th
  <2> DEFINE m == MasterOf(u)
  <2>1. Leader(u) = m /\ InMaster(m) /\ m # th
    BY <1>1, <1>5 DEF Leader
  <2>2. th[2] # 0
    BY <2>1, <1>1, ThreadShape DEF Master
  <2>3. At(th)[1] = "omp" /\ \A j \in pc[m] .. pc[th] - 1 : Place(j)[1] = "master"
    BY <2>1, <2>2, <1>1 DEF TInv, OthersWait
  <2>4. pc[m] \in 1 .. Done /\ su_id[m] \in Int
    BY <1>1 DEF TInv, ThreadsOK
  <2>5. Pos(u) \in {pc[m], pc[m] + 1}
    BY <2>1, <1>3
  <2>6. pc[m] < pc[th]
    <3>1. pc[m] # pc[th]
      BY <2>1, <2>3 DEF InMaster, At
    <3>2. ~(pc[th] < pc[m])
      <4> SUFFICES ASSUME pc[th] < pc[m] PROVE FALSE
        OBVIOUS
      <4>1. th[1] = m[1]
        BY <1>1, RunnerRuns
      <4>2. Place(pc[th])[1] # "omp"
        BY <4>1, <1>1, <1>2, <2>4 DEF TInv, SameSegment
      <4> QED BY <4>2, <2>3 DEF At
    <3> QED BY <3>1, <3>2, <2>4, <1>2
  <2>7. su_id[th] = FirstId(th) /\ FirstId(th) <= SubmeshId[u] /\ FirstId(th) \in Int
    BY <2>3, RunIds DEF TInv, ThreadsOK, Unlooped
  <2>8. ASSUME NEW p \in S
        PROVE  (p < pc[th] \/ (p = pc[th] /\ su_id[th] > SubmeshId[u])) <=> p < Pos(u)
    <3>1. p \in 1 .. Done /\ Place(p)[1] \notin {"master", "omp"}
      OBVIOUS
    <3>2. p < pc[th] => p < pc[m]
      BY <3>1, <2>3, <2>4, <1>2
    <3>3. p # pc[m]
      BY <3>1, <2>1 DEF InMaster, At
    <3> HIDE DEF m
    <3> QED BY <3>1, <3>2, <3>3, <2>4, <2>5, <2>6, <2>7, <1>1, <1>2
  <2> QED BY <2>8 DEF Passed
<1> QED BY <1>4, <1>5

(* When all threads are done, so are all submeshes.                        *)
LEMMA DonePos ==
  ASSUME TInv, AllDone, NEW u \in Unit
  PROVE  Pos(u) = Done
<1>1. Leader(u) \in Threads
  BY LeaderOK DEF TInv
<1>2. pc[Leader(u)] = Done
  BY <1>1 DEF AllDone
<1>3. Unlooped(At(Leader(u)))
  BY <1>2, Path DEF Unlooped, At
<1> QED BY <1>2, <1>3, PosType DEF TInv

-----------------------------------------------------------------------------
(* The exchanges.  Every message from u to v is one round: the sends of u  *)
(* and the receives of v have the same order in the program, which stamps  *)
(* the data with the place it was written at.                              *)
SendAllHere == <<"master", "send_all">>
SendPlaces == {p \in 1 .. Done - 1 : Place(p)[2] = "exchange" \/ Place(p) = SendAllHere}

(* The rounds sent before p, and those asked for.                          *)
Rounds(p) == Cardinality({x \in SendPlaces : x < p})
AskedAt(p) == IF Place(p) = SendAllHere THEN Rounds(p) + 1 ELSE Rounds(p)

(* The type and the stamp of what is sent at place x: the numbers of the   *)
(* owned edges are written two places before they are sent.                *)
TypeAt(x) == IF Place(x) = SendAllHere THEN "dc_global_dof_indx" ELSE Place(x)[1]
Stamp(u, x) == IF Place(x) # SendAllHere THEN x ELSE IF OwnedEdges(u) = {} THEN -1 ELSE x - 2

Sent(u) == Rounds(Pos(u))
Asked(v) == AskedAt(Pos(v))
Delivered(u, v) == Asked(v) - Len(posted[SendEnvelope(u, v)])

(* m is the message of round r from u to v.  Until MPI has read it, it is  *)
(* in the send buffer, which still holds what was sent.                    *)
OfRound(m, u, v, r) ==
  \E x \in SendPlaces :
    /\ Rounds(x) + 1 = r
    /\ m.slot = <<u, v, TypeAt(x)>>
    /\ IF m.data = NotRead
       THEN <<u, v, TypeAt(x)>> \in unsent /\ send_buffer[u][TypeAt(x)] = Stamp(u, x)
       ELSE m.data = Written(u, v, TypeAt(x), Stamp(u, x))

(* The network holds the rounds sent and not delivered, in their order.    *)
InOrder(u, v) ==
  /\ Len(network[SendEnvelope(u, v)]) = Sent(u) - Delivered(u, v)
  /\ \A i \in DOMAIN network[SendEnvelope(u, v)] :
       OfRound(network[SendEnvelope(u, v)][i], u, v, Delivered(u, v) + i)

(* At most one receive is posted, of the round v has asked for last.       *)
OneReceive(u, v) ==
  \/ posted[SendEnvelope(u, v)] = <<>>
  \/ \E x \in SendPlaces :
       /\ Rounds(x) + 1 = Asked(v)
       /\ posted[SendEnvelope(u, v)] = << <<v, u, TypeAt(x)>> >>
       /\ <<v, u, TypeAt(x)>> \in unreceived

(* When it is complete it has brought what u wrote for that round.         *)
Arrived(u, v) ==
  \A x \in SendPlaces :
    Rounds(x) + 1 = Asked(v) /\ <<v, u, TypeAt(x)>> \notin unreceived =>
      receive_buffer[<<v, u, TypeAt(x)>>] = Written(u, v, TypeAt(x), Stamp(u, x))

Link(u, v) == InOrder(u, v) /\ OneReceive(u, v) /\ Arrived(u, v)

Linked ==
  /\ CommTypeOK
  /\ \A v \in Unit : \A u \in Neigh[v] : Link(u, v)
  /\ ~mpi_error

(* A request is active between its start and the wait for it: the sends of *)
(* the boundary states until the stage ends.                               *)
Sending(c, e) ==
  \/ e[1] = c /\ e[2] # "exchange"
  \/ c = "bound_state" /\ (e[1] = "baryctr_state" \/ e = <<"scrutinize", "work">>)
  \/ c = "dc_global_dof_indx" /\ e \in {<<"master", "post_receive">>, <<"master", "wait_all">>}
Receiving(c, e) ==
  \/ e[1] = c /\ e[2] \in {"work", "receive"}
  \/ c = "dc_global_dof_indx" /\ e \in {SendAllHere, <<"master", "post_receive">>}

Requests(u) ==
  /\ \A s \in send_requests : s[1] = u => Sending(s[3], Here(u))
  /\ \A s \in receive_requests : s[1] = u => Receiving(s[3], Here(u))

(* The entries up to the one that writes the edges' final numbers.         *)
BeforeFinal ==
  ({"baryctr_coord", "init_global_prob"} \X {"exchange", "receive", "wait"})
  \cup {<<"omp", "number">>, <<"master", "gather">>, <<"master", "scatter">>, <<"master", "finalize">>}

(* What is in the send buffer for the numbers of the edges.                *)
Buffered(u) ==
  /\ Here(u) \in BeforeFinal => send_buffer[u]["dc_global_dof_indx"] = -1
  /\ Here(u) = <<"master", "receive_all">> =>
       send_buffer[u]["dc_global_dof_indx"] = Stamp(u, Pos(u) + 1)
  /\ Here(u) = SendAllHere => send_buffer[u]["dc_global_dof_indx"] = Stamp(u, Pos(u))

(* The places of S that are before u's.                                    *)
PassedBy(u, S) == {p \in S : p < Pos(u)}

(* What u has stored is what its neighbour has written for the same loop.  *)
StoredOK(u) ==
  \A v \in Neigh[u] : \A c \in CommTypes :
    PassedBy(u, ReceivePlaces[c]) # {} =>
      stored[<<u, v, c>>] =
        Written(v, u, c, LastBefore(Max(PassedBy(u, ReceivePlaces[c])), ExchangePlaces[c]))

UnitOK(u) == Requests(u) /\ Buffered(u) /\ StoredOK(u)

CInv == Linked /\ \A u \in Unit : UnitOK(u)

-----------------------------------------------------------------------------
(* Entries that only lead to entries of the same set.                      *)
LEMMA Onward ==
  ASSUME NEW E, \A e \in E : \A f : Follows(e, f) => f \in E,
         NEW a \in 1 .. Done, Place(a) \in E, NEW b \in 1 .. Done, a <= b
  PROVE  Place(b) \in E
<1> DEFINE S == {n \in Nat : a + n <= Done => Place(a + n) \in E}
<1>0. Done \in Nat
  BY Path
<1>1. a + 0 = a
  BY <1>0
<1>2. 0 \in S
  BY <1>1
<1>3. ASSUME NEW n \in S PROVE n + 1 \in S
  <2>1. n \in Nat /\ (a + n <= Done => Place(a + n) \in E)
    OBVIOUS
  <2>2. ASSUME a + (n + 1) <= Done PROVE Place(a + (n + 1)) \in E
    <3>1. a + n \in 1 .. Done - 1 /\ a + (n + 1) = (a + n) + 1
      BY <1>0, <2>1, <2>2
    <3>2. Follows(Place(a + n), Place((a + n) + 1)) /\ Place(a + n) \in E
      BY <1>0, <2>1, <3>1, Path
    <3> QED BY <3>1, <3>2
  <2>3. n + 1 \in Nat
    BY <2>1
  <2> QED BY <2>2, <2>3
<1>4. S \in SUBSET Nat
  OBVIOUS
<1> HIDE DEF S
<1>5. S = Nat
  BY <1>2, <1>3, <1>4, Induction
<1>6. b - a \in Nat /\ a + (b - a) = b
  BY <1>0
<1>7. b - a \in S
  BY <1>5, <1>6
<1>8. a + (b - a) <= Done => Place(a + (b - a)) \in E
  BY <1>7 DEF S
<1> QED BY <1>0, <1>6, <1>8

(* The rounds count up at the places that send.                            *)
LEMMA RoundsFinite ==
  ASSUME NEW p \in 1 .. Done
  PROVE  IsFiniteSet({x \in SendPlaces : x < p}) /\ Rounds(p) \in Nat
<1>1. IsFiniteSet(1 .. Done - 1)
  BY FS_Interval, Path
<1>2. {x \in SendPlaces : x < p} \subseteq 1 .. Done - 1
  BY DEF SendPlaces
<1> HIDE DEF SendPlaces
<1>3. IsFiniteSet({x \in SendPlaces : x < p})
  BY <1>1, <1>2, FS_Subset
<1> QED BY <1>3, FS_CardinalityType DEF Rounds

LEMMA RoundStep ==
  ASSUME NEW p \in 1 .. Done - 1
  PROVE  Rounds(p + 1) = IF p \in SendPlaces THEN Rounds(p) + 1 ELSE Rounds(p)
<1> DEFINE S == {x \in SendPlaces : x < p}
           T == {x \in SendPlaces : x < p + 1}
<1>0. p \in 1 .. Done /\ Done \in Nat /\ p \in Nat /\ \A x \in SendPlaces : x \in Int
  BY Path DEF SendPlaces
<1>1. IsFiniteSet(S)
  BY <1>0, RoundsFinite
<1>2. CASE p \in SendPlaces
  <2>0. \A x \in SendPlaces : x < p + 1 <=> (x < p \/ x = p)
    BY <1>0
  <2>1. ~(p < p)
    BY <1>0
  <2>2. T = S \cup {p} /\ p \notin S
    BY <2>0, <2>1, <1>2
  <2> HIDE DEF S, T
  <2>3. Cardinality(T) = Cardinality(S) + 1
    BY <1>1, <2>2, FS_AddElement
  <2> QED BY <2>3, <1>2 DEF Rounds, S, T
<1>3. CASE p \notin SendPlaces
  <2>0. \A x \in SendPlaces : x < p + 1 <=> x < p
    BY <1>0, <1>3
  <2>1. T = S
    BY <2>0
  <2> QED BY <2>1, <1>3 DEF Rounds
<1> QED BY <1>2, <1>3

LEMMA RoundsGrow ==
  ASSUME NEW a \in SendPlaces, NEW b \in 1 .. Done, a < b
  PROVE  Rounds(a) < Rounds(b)
<1> DEFINE S == {x \in SendPlaces : x < a}
           T == {x \in SendPlaces : x < b}
<1>0. a \in 1 .. Done /\ Done \in Nat /\ \A x \in SendPlaces : x \in Int
  BY Path DEF SendPlaces
<1>1. IsFiniteSet(S) /\ IsFiniteSet(T) /\ Rounds(a) \in Nat /\ Rounds(b) \in Nat
  BY <1>0, RoundsFinite
<1>2. S \cup {a} \subseteq T /\ a \notin S
  <2>1. \A x \in SendPlaces : x < a => x < b
    BY <1>0
  <2>2. ~(a < a)
    BY <1>0
  <2> QED BY <2>1, <2>2
<1> HIDE DEF S, T
<1>3. Cardinality(S \cup {a}) = Cardinality(S) + 1
  BY <1>1, <1>2, FS_AddElement
<1>4. Cardinality(S \cup {a}) <= Cardinality(T)
  BY <1>1, <1>2, FS_Subset
<1>5. Rounds(a) = Cardinality(S) /\ Rounds(b) = Cardinality(T)
  BY DEF Rounds, S, T
<1>6. Cardinality(S \cup {a}) \in Nat
  BY <1>1, <1>3, <1>5
<1> QED BY <1>1, <1>3, <1>4, <1>5, <1>6

LEMMA RoundsApart ==
  ASSUME NEW a \in SendPlaces, NEW b \in SendPlaces, Rounds(a) = Rounds(b)
  PROVE  a = b
<1>0. a \in 1 .. Done /\ b \in 1 .. Done /\ Done \in Nat
  BY Path DEF SendPlaces
<1>1. Rounds(a) \in Nat /\ Rounds(b) \in Nat
  BY <1>0, RoundsFinite
<1>2. ~(a < b) /\ ~(b < a)
  BY <1>0, <1>1, RoundsGrow
<1> QED BY <1>0, <1>2

(* The numbers of the edges are sent once.                                 *)
AfterSendAll ==
  {<<"master", "post_receive">>, <<"master", "wait_all">>, <<"omp", "numbered">>, <<"done", "done">>}
  \cup (Entry \ (BeforeFinal \cup {<<"master", "receive_all">>, SendAllHere}))

LEMMA FollowsEntry ==
  ASSUME NEW e, NEW f, Follows(e, f)
  PROVE  f \in Entry \cup {<<"done", "done">>}
BY DEF Follows, Entry, Names, Doings, WithWork, WithoutWork

LEMMA AfterSendAllOnward ==
  ASSUME NEW e, NEW f, e = SendAllHere \/ e \in AfterSendAll, Follows(e, f)
  PROVE  f \in AfterSendAll
<1>1. f \in Entry \cup {<<"done", "done">>}
  BY FollowsEntry
<1>2. f \notin BeforeFinal \cup {<<"master", "receive_all">>, SendAllHere}
  BY DEF Follows, AfterSendAll, BeforeFinal, SendAllHere, WithWork, WithoutWork
<1> QED BY <1>1, <1>2 DEF AfterSendAll

(* The places after the one that sends them.                               *)
LEMMA SentBefore ==
  ASSUME NEW x \in 1 .. Done, NEW y \in 1 .. Done, Place(x) = SendAllHere, x < y
  PROVE  Place(y) \in AfterSendAll
<1>1. Done \in Nat /\ x \in 1 .. Done - 1 /\ x + 1 \in 1 .. Done /\ x + 1 <= y
  BY Path
<1>2. Follows(Place(x), Place(x + 1))
  BY <1>1, Path
<1>3. Place(x + 1) \in AfterSendAll
  BY <1>2, AfterSendAllOnward
<1>4. \A e \in AfterSendAll : \A f : Follows(e, f) => f \in AfterSendAll
  BY AfterSendAllOnward
<1> QED BY <1>1, <1>3, <1>4, Onward

LEMMA SentOnce ==
  ASSUME NEW a \in 1 .. Done, NEW b \in 1 .. Done, Place(a) = SendAllHere, Place(b) = SendAllHere
  PROVE  a = b
<1>1. SendAllHere \notin AfterSendAll
  BY DEF AfterSendAll, SendAllHere
<1>2. ~(a < b) /\ ~(b < a)
  BY <1>1, SentBefore
<1> QED BY <1>2, Path

-----------------------------------------------------------------------------
(* One rank boundary, from u to v.                                         *)

(* What exchanges at a place.                                              *)
LEMMA Exchanges ==
  ASSUME NEW x \in 1 .. Done - 1, Place(x)[2] = "exchange"
  PROVE  \E c \in WithWork \cup WithoutWork : Place(x) = <<c, "exchange">>
<1>1. Follows(Place(x), Place(x + 1))
  BY Path
<1> QED BY <1>1 DEF Follows, WithWork, WithoutWork

LEMMA SendTypes ==
  ASSUME NEW u \in Unit, NEW x \in SendPlaces
  PROVE  TypeAt(x) \in CommTypes /\ Stamp(u, x) \in Nat \cup {-1}
<1>1. x \in 1 .. Done - 1 /\ (Place(x)[2] = "exchange" \/ Place(x) = SendAllHere)
  BY DEF SendPlaces
<1>2. Done \in Nat /\ Place(1) = <<"baryctr_coord", "exchange">>
  BY Path
<1>3. CASE Place(x) = SendAllHere
  <2>1. x # 1
    BY <1>2, <1>3 DEF SendAllHere
  <2>2. x - 2 \in Nat \cup {-1}
    BY <1>1, <1>2, <2>1
  <2> QED BY <1>3, <2>2, GnOmpiAssumption DEF TypeAt, Stamp
<1>4. CASE Place(x) # SendAllHere
  <2>1. PICK c \in WithWork \cup WithoutWork : Place(x) = <<c, "exchange">>
    BY <1>1, <1>4, Exchanges
  <2>2. c \in CommTypes /\ x \in Nat
    BY <1>1, <1>2, GnOmpiAssumption DEF WithWork, WithoutWork
  <2> QED BY <1>4, <2>1, <2>2 DEF TypeAt, Stamp
<1> QED BY <1>3, <1>4

(* What is written for two rounds differs.                                 *)
LEMMA StampsApart ==
  ASSUME NEW u \in Unit, NEW x \in SendPlaces, NEW y \in SendPlaces,
         TypeAt(x) = TypeAt(y), Stamp(u, x) = Stamp(u, y)
  PROVE  x = y
<1>0. x \in 1 .. Done - 1 /\ y \in 1 .. Done - 1 /\ x \in 1 .. Done /\ y \in 1 .. Done
  BY Path DEF SendPlaces
<1>1. ASSUME NEW z \in SendPlaces PROVE TypeAt(z) = "dc_global_dof_indx" <=> Place(z) = SendAllHere
  <2>1. z \in 1 .. Done - 1 /\ (Place(z)[2] = "exchange" \/ Place(z) = SendAllHere)
    BY DEF SendPlaces
  <2>2. CASE Place(z) = SendAllHere
    BY <2>2 DEF TypeAt
  <2>3. CASE Place(z) # SendAllHere
    <3>1. PICK c \in WithWork \cup WithoutWork : Place(z) = <<c, "exchange">>
      BY <2>1, <2>3, Exchanges
    <3> QED BY <2>3, <3>1 DEF TypeAt, WithWork, WithoutWork
  <2> QED BY <2>2, <2>3
<1>2. CASE Place(x) = SendAllHere
  <2>1. Place(y) = SendAllHere
    BY <1>1, <1>2
  <2> QED BY <1>0, <1>2, <2>1, SentOnce
<1>3. CASE Place(x) # SendAllHere
  <2>1. Place(y) # SendAllHere
    BY <1>1, <1>3
  <2> QED BY <1>3, <2>1 DEF Stamp
<1> QED BY <1>2, <1>3

LEMMA AskedType ==
  ASSUME ThreadsOK, NEW u \in Unit
  PROVE  Sent(u) \in Nat /\ Asked(u) \in Nat
<1>1. Pos(u) \in 1 .. Done
  BY PosType
<1>2. Rounds(Pos(u)) \in Nat
  BY <1>1, RoundsFinite
<1> QED BY <1>2 DEF Sent, Asked, AskedAt

(* The messages stay as they are.                                          *)
LEMMA KeepOrder ==
  ASSUME NEW u \in Unit, NEW v \in Unit, InOrder(u, v),
         network'[SendEnvelope(u, v)] = network[SendEnvelope(u, v)],
         Sent(u)' = Sent(u), Delivered(u, v)' = Delivered(u, v),
         \A c \in CommTypes : <<u, v, c>> \in unsent =>
           <<u, v, c>> \in unsent' /\ send_buffer'[u][c] = send_buffer[u][c]
  PROVE  InOrder(u, v)'
<1> DEFINE e == SendEnvelope(u, v)
<1>1. ASSUME NEW m, NEW r, OfRound(m, u, v, r) PROVE OfRound(m, u, v, r)'
  BY <1>1, SendTypes DEF OfRound
<1>2. SendEnvelope(u, v)' = e
  BY DEF SendEnvelope, Tag
<1> QED
  BY <1>1, <1>2 DEF InOrder

(* The sender starts the message of the next round, from place x.          *)
LEMMA SendOrder ==
  ASSUME NEW u \in Unit, NEW v \in Unit, CommTypeOK, InOrder(u, v),
         SendEnvelope(u, v) \in Envelopes, NEW x \in SendPlaces, NEW c, c = TypeAt(x),
         Sent(u) \in Nat, Rounds(x) = Sent(u),
         network'[SendEnvelope(u, v)] =
           Append(network[SendEnvelope(u, v)], [slot |-> <<u, v, c>>, data |-> NotRead]),
         Sent(u)' = Sent(u) + 1, Delivered(u, v)' = Delivered(u, v),
         Delivered(u, v) \in Int,
         <<u, v, c>> \notin unsent, <<u, v, c>> \in unsent', send_buffer'[u][c] = Stamp(u, x),
         \A d \in CommTypes : <<u, v, d>> \in unsent =>
           <<u, v, d>> \in unsent' /\ send_buffer'[u][d] = send_buffer[u][d]
  PROVE  InOrder(u, v)'
<1> DEFINE e == SendEnvelope(u, v)
           n == network[e]
           D == Delivered(u, v)
           new == [slot |-> <<u, v, c>>, data |-> NotRead]
<1>1. n \in Seq(Message)
  BY DEF CommTypeOK
<1>2. ASSUME NEW m, NEW r, OfRound(m, u, v, r) PROVE OfRound(m, u, v, r)'
  BY <1>2, SendTypes DEF OfRound
<1>3. ASSUME NEW m, NEW r, m = new, r = Sent(u) + 1 PROVE OfRound(m, u, v, r)'
  BY <1>3 DEF OfRound
<1>4. D \in Int /\ Len(n) = Sent(u) - D
  BY DEF InOrder
<1>5. /\ network'[e] = Append(n, new) /\ Len(network'[e]) = Len(n) + 1
      /\ DOMAIN network'[e] = 1 .. Len(n) + 1
      /\ \A i \in 1 .. Len(n) : network'[e][i] = n[i]
      /\ network'[e][Len(n) + 1] = new
  <2> HIDE DEF n, new
  <2> QED
    BY <1>1 DEF n, new
<1>6. ASSUME NEW i \in 1 .. Len(n) + 1, NEW m, NEW r, m = network'[e][i], r = D + i
      PROVE  OfRound(m, u, v, r)'
  <2>1. CASE i \in 1 .. Len(n)
    <3>1. i \in DOMAIN n /\ m = n[i]
      BY <1>1, <1>5, <1>6, <2>1
    <3>2. OfRound(m, u, v, r)
      BY <1>6, <3>1 DEF InOrder
    <3> QED
      BY <1>2, <3>2
  <2>2. CASE i = Len(n) + 1
    <3>1. m = new /\ r = Sent(u) + 1
      BY <1>1, <1>4, <1>5, <1>6, <2>2
    <3> QED
      BY <1>3, <3>1
  <2> QED
    BY <1>1, <2>1, <2>2
<1>7. SendEnvelope(u, v)' = e
  BY DEF SendEnvelope, Tag
<1>8. Len(network'[e]) = Sent(u)' - Delivered(u, v)'
  <2> HIDE DEF D, e, n
  <2> QED
    BY <1>1, <1>4, <1>5 DEF D
<1>9. (\A i \in DOMAIN network[e] : OfRound(network[e][i], u, v, Delivered(u, v) + i))'
  BY <1>5, <1>6
<1> QED
  BY <1>7, <1>8, <1>9 DEF InOrder

(* A message that MPI reads leaves the other rounds as they are.           *)
LEMMA OtherRound ==
  ASSUME NEW u \in Unit, NEW v, NEW m, NEW r, NEW n, NEW s,
         OfRound(m, u, v, r), OfRound(n, u, v, s), r # s,
         unsent' = unsent \/ (m.data = NotRead /\ unsent' = unsent \ {m.slot}),
         send_buffer' = send_buffer
  PROVE  OfRound(n, u, v, s)'
<1>1. PICK x \in SendPlaces :
        /\ Rounds(x) + 1 = s
        /\ n.slot = <<u, v, TypeAt(x)>>
        /\ IF n.data = NotRead THEN <<u, v, TypeAt(x)>> \in unsent /\ send_buffer[u][TypeAt(x)] = Stamp(u, x)
           ELSE n.data = Written(u, v, TypeAt(x), Stamp(u, x))
  BY DEF OfRound
<1>2. n.data = NotRead => <<u, v, TypeAt(x)>> \in unsent'
  <2> SUFFICES ASSUME n.data = NotRead, m.data = NotRead, m.slot = <<u, v, TypeAt(x)>> PROVE FALSE
    BY <1>1
  <2>1. PICK y \in SendPlaces :
          /\ Rounds(y) + 1 = r /\ m.slot = <<u, v, TypeAt(y)>>
          /\ send_buffer[u][TypeAt(y)] = Stamp(u, y)
    BY DEF OfRound
  <2>2. x = y
    BY <1>1, <2>1, StampsApart
  <2> QED
    BY <1>1, <2>1, <2>2
<1>3. \E y \in SendPlaces :
        /\ Rounds(y) + 1 = s
        /\ n.slot = <<u, v, TypeAt(y)>>
        /\ IF n.data = NotRead THEN <<u, v, TypeAt(y)>> \in unsent' /\ send_buffer'[u][TypeAt(y)] = Stamp(u, y)
           ELSE n.data = Written(u, v, TypeAt(y), Stamp(u, y))
  BY <1>1, <1>2
<1> QED
  BY <1>3 DEF OfRound

LEMMA DeliveredType ==
  ASSUME ThreadsOK, CommTypeOK, NEW v \in Unit, NEW u \in Neigh[v]
  PROVE  Delivered(u, v) \in Int /\ Sent(u) \in Nat /\ Asked(v) \in Nat
<1>1. posted[SendEnvelope(u, v)] \in Seq(Slots) /\ u \in Unit
  BY EnvelopeOf DEF CommTypeOK
<1>2. Len(posted[SendEnvelope(u, v)]) \in Nat
  BY <1>1
<1> QED
  BY <1>1, <1>2, AskedType DEF Delivered

(* The threads stay where they are.                                        *)
LEMMA StandStill ==
  ASSUME pc' = pc, su_id' = su_id, NEW u \in Unit
  PROVE  Pos(u)' = Pos(u) /\ Here(u)' = Here(u) /\ Sent(u)' = Sent(u) /\ Asked(u)' = Asked(u)
<1>1. InMaster(MasterOf(u))' <=> InMaster(MasterOf(u))
  BY DEF InMaster, At, MasterOf
<1>2. Pos(u)' = Pos(u)
  BY <1>1, LeaderStays
<1> QED BY <1>2 DEF Here, Sent, Asked

(* MPI reads a message: it now carries the data of its round.              *)
LEMMA ReadOrder ==
  ASSUME ThreadsOK, CommTypeOK, NEW v \in Unit, NEW u \in Neigh[v], InOrder(u, v),
         pc' = pc, su_id' = su_id,
         NEW i \in DOMAIN network[SendEnvelope(u, v)], Buffer(SendEnvelope(u, v), i)
  PROVE  InOrder(u, v)'
<1> DEFINE e == SendEnvelope(u, v)
           n == network[e]
           D == Delivered(u, v)
<1>1. n \in Seq(Message) /\ e \in Envelopes /\ D \in Int /\ u \in Unit
  BY EnvelopeOf, DeliveredType DEF CommTypeOK
<1>2. /\ network'[e] = [n EXCEPT ![i].data = Content(n[i].slot)]
      /\ unsent' = unsent \ {n[i].slot} /\ n[i].data = NotRead
      /\ send_buffer' = send_buffer /\ posted' = posted
  BY <1>1 DEF Buffer, CommTypeOK
<1>3. Sent(u)' = Sent(u) /\ Delivered(u, v)' = D
  <2>1. Sent(u)' = Sent(u) /\ Asked(v)' = Asked(v)
    BY <1>1, StandStill
  <2> QED BY <2>1, <1>2 DEF Delivered, SendEnvelope, Tag
<1>5. DOMAIN network'[e] = DOMAIN n /\ Len(network'[e]) = Len(n)
  <2> HIDE DEF e, n
  <2> QED
    BY <1>1, <1>2
<1>6. i \in 1 .. Len(n) /\ n[i] \in Message
  BY <1>1
<1>7. ASSUME NEW r, NEW m, r = D + i, m = network'[e][i] PROVE OfRound(m, u, v, r)'
  <2>1. PICK x \in SendPlaces :
          /\ Rounds(x) + 1 = r
          /\ n[i].slot = <<u, v, TypeAt(x)>> /\ send_buffer[u][TypeAt(x)] = Stamp(u, x)
    BY <1>2, <1>7 DEF InOrder, OfRound
  <2>2. m = [slot |-> <<u, v, TypeAt(x)>>, data |-> Written(u, v, TypeAt(x), Stamp(u, x))]
    <3>1. network'[e][i] = [n[i] EXCEPT !.data = Content(n[i].slot)]
      BY <1>1, <1>2, <1>6
    <3>2. Content(n[i].slot) = Written(u, v, TypeAt(x), Stamp(u, x))
      BY <2>1 DEF Content
    <3> QED
      BY <1>6, <1>7, <2>1, <3>1, <3>2 DEF Message
  <2>3. Written(u, v, TypeAt(x), Stamp(u, x)) # NotRead
    <3>1. TypeAt(x) # "buffer"
      BY <1>1, SendTypes, GnOmpiAssumption
    <3> QED BY <3>1 DEF Written, NotRead
  <2> QED
    BY <2>1, <2>2, <2>3 DEF OfRound
<1>8. ASSUME NEW j \in DOMAIN n, NEW r, NEW m, r = D + j, m = network'[e][j] PROVE OfRound(m, u, v, r)'
  <2>1. CASE j = i
    BY <1>7, <1>8, <2>1
  <2>2. CASE j # i
    <3>1. m = n[j]
      BY <1>1, <1>2, <1>8, <2>2
    <3>2. D + i # D + j
      BY <1>1, <1>6, <2>2
    <3>3. OfRound(n[i], u, v, D + i) /\ OfRound(n[j], u, v, D + j)
      BY DEF InOrder
    <3> HIDE DEF D, n, e
    <3> QED
      BY <1>1, <1>2, <1>8, <3>1, <3>2, <3>3, OtherRound
  <2> QED
    BY <2>1, <2>2
<1>9. SendEnvelope(u, v)' = e /\ Len(n) = Sent(u) - D
  BY DEF SendEnvelope, Tag, InOrder
<1>10. Len(network'[e]) = Sent(u)' - Delivered(u, v)'
  BY <1>3, <1>5, <1>9
<1>11. (\A j \in DOMAIN network[e] : OfRound(network[e][j], u, v, Delivered(u, v) + j))'
  BY <1>3, <1>5, <1>8
<1> QED
  BY <1>9, <1>10, <1>11 DEF InOrder

(* The oldest message is of the round whose receive is posted.             *)
LEMMA OldestMessage ==
  ASSUME ThreadsOK, CommTypeOK, NEW v \in Unit, NEW u \in Neigh[v], Link(u, v),
         network[SendEnvelope(u, v)] # <<>>, posted[SendEnvelope(u, v)] # <<>>
  PROVE  \E x \in SendPlaces :
           /\ Rounds(x) + 1 = Asked(v)
           /\ posted[SendEnvelope(u, v)] = << <<v, u, TypeAt(x)>> >>
           /\ <<v, u, TypeAt(x)>> \in unreceived
           /\ Head(network[SendEnvelope(u, v)]).slot = <<u, v, TypeAt(x)>>
           /\ IF Head(network[SendEnvelope(u, v)]).data = NotRead
              THEN Content(Head(network[SendEnvelope(u, v)]).slot) = Written(u, v, TypeAt(x), Stamp(u, x))
              ELSE Head(network[SendEnvelope(u, v)]).data = Written(u, v, TypeAt(x), Stamp(u, x))
<1> DEFINE e == SendEnvelope(u, v)
           n == network[e]
<1>1. PICK x \in SendPlaces :
        /\ Rounds(x) + 1 = Asked(v)
        /\ posted[e] = << <<v, u, TypeAt(x)>> >> /\ <<v, u, TypeAt(x)>> \in unreceived
  BY DEF Link, OneReceive
<1>2. n \in Seq(Message) /\ e \in Envelopes /\ Delivered(u, v) \in Int /\ Asked(v) \in Nat
  BY EnvelopeOf, DeliveredType DEF CommTypeOK
<1>3. 1 \in DOMAIN n /\ Head(n) = n[1]
  <2> HIDE DEF n
  <2> QED
    BY <1>2 DEF n
<1>4. Delivered(u, v) + 1 = Asked(v)
  <2>1. Len(posted[e]) = 1
    BY <1>1
  <2> QED
    BY <1>2, <2>1 DEF Delivered
<1>5. PICK y \in SendPlaces :
        /\ Rounds(y) + 1 = Asked(v)
        /\ n[1].slot = <<u, v, TypeAt(y)>>
        /\ IF n[1].data = NotRead
           THEN <<u, v, TypeAt(y)>> \in unsent /\ send_buffer[u][TypeAt(y)] = Stamp(u, y)
           ELSE n[1].data = Written(u, v, TypeAt(y), Stamp(u, y))
  BY <1>3, <1>4 DEF Link, InOrder, OfRound
<1>6. x = y
  <2>1. x \in 1 .. Done /\ y \in 1 .. Done
    BY Path DEF SendPlaces
  <2>2. Rounds(x) \in Nat /\ Rounds(y) \in Nat
    BY <2>1, RoundsFinite
  <2>3. Rounds(x) = Rounds(y)
    BY <1>1, <1>5, <2>2
  <2> QED BY <2>3, RoundsApart
<1>7. n[1].data = NotRead => Content(n[1].slot) = Written(u, v, TypeAt(x), Stamp(u, x))
  BY <1>5, <1>6 DEF Content
<1> QED
  BY <1>1, <1>3, <1>5, <1>6, <1>7

(* MPI delivers a message: it is what the receiver waits for.              *)
LEMMA DeliverLink ==
  ASSUME ThreadsOK, CommTypeOK, NEW v \in Unit, NEW u \in Neigh[v], Link(u, v),
         pc' = pc, su_id' = su_id, Deliver(SendEnvelope(u, v))
  PROVE  Link(u, v)' /\ mpi_error' = mpi_error
<1> DEFINE e == SendEnvelope(u, v)
           n == network[e]
           D == Delivered(u, v)
<1>1. n \in Seq(Message) /\ n # <<>> /\ e \in Envelopes /\ D \in Int /\ Asked(v) \in Nat
      /\ u \in Unit /\ posted[e] # <<>>
  BY EnvelopeOf, DeliveredType DEF CommTypeOK, Deliver
<1>2. PICK x \in SendPlaces :
        /\ Rounds(x) + 1 = Asked(v)
        /\ posted[e] = << <<v, u, TypeAt(x)>> >> /\ <<v, u, TypeAt(x)>> \in unreceived
        /\ Head(n).slot = <<u, v, TypeAt(x)>>
        /\ IF Head(n).data = NotRead THEN Content(Head(n).slot) = Written(u, v, TypeAt(x), Stamp(u, x))
           ELSE Head(n).data = Written(u, v, TypeAt(x), Stamp(u, x))
  BY <1>1, OldestMessage
<1> DEFINE c == TypeAt(x)
           w == Written(u, v, TypeAt(x), Stamp(u, x))
<1>3. c \in CommTypes /\ <<v, u, c>> \in Slots /\ w.comm = c
  BY <1>1, SendTypes DEF Slots, Written
<1>4. /\ receive_buffer' = [receive_buffer EXCEPT ![<<v, u, c>>] = w]
      /\ unreceived' = unreceived \ {<<v, u, c>>}
      /\ mpi_error' = (mpi_error \/ w.comm # c)
      /\ network'[e] = Tail(n) /\ posted'[e] = <<>>
      /\ unsent' = unsent \/ (Head(n).data = NotRead /\ unsent' = unsent \ {Head(n).slot})
      /\ send_buffer' = send_buffer
  <2> DEFINE d == IF Head(n).data = NotRead THEN Content(Head(n).slot) ELSE Head(n).data
  <2>1. Head(posted[e]) = <<v, u, c>> /\ Tail(posted[e]) = <<>> /\ d = w
    BY <1>2
  <2>2. /\ receive_buffer' = [receive_buffer EXCEPT ![Head(posted[e])] = d]
        /\ unreceived' = unreceived \ {Head(posted[e])}
        /\ mpi_error' = (mpi_error \/ d.comm # Head(posted[e])[3])
        /\ unsent' = IF Head(n).data = NotRead THEN unsent \ {Head(n).slot} ELSE unsent
        /\ network' = [network EXCEPT ![e] = Tail(n)]
        /\ posted' = [posted EXCEPT ![e] = Tail(posted[e])]
        /\ send_buffer' = send_buffer
    BY DEF Deliver
  <2>3. network'[e] = Tail(n) /\ posted'[e] = Tail(posted[e])
    BY <1>1, <2>2 DEF CommTypeOK
  <2>4. <<v, u, c>>[3] = c
    OBVIOUS
  <2> HIDE DEF d, n, e, c, w
  <2>5. /\ receive_buffer' = [receive_buffer EXCEPT ![<<v, u, c>>] = w]
        /\ unreceived' = unreceived \ {<<v, u, c>>}
        /\ mpi_error' = (mpi_error \/ w.comm # c)
    BY <2>1, <2>2, <2>4
  <2>6. unsent' = unsent \/ (Head(n).data = NotRead /\ unsent' = unsent \ {Head(n).slot})
    BY <2>2
  <2> QED
    BY <2>1, <2>2, <2>3, <2>5, <2>6
<1>5. mpi_error' = mpi_error
  BY <1>3, <1>4 DEF CommTypeOK
<1>6. SendEnvelope(u, v)' = e
  BY DEF SendEnvelope, Tag
<1>7. Sent(u)' = Sent(u) /\ Asked(v)' = Asked(v)
  BY <1>1, StandStill
<1>8. D = Asked(v) - 1 /\ Delivered(u, v)' = D + 1
  <2>1. Len(posted[e]) = 1 /\ Len(posted'[e]) = 0
    BY <1>2, <1>4
  <2>2. D = Asked(v) - Len(posted[e])
    BY DEF Delivered
  <2>3. Delivered(u, v)' = Asked(v)' - Len(posted'[e])
    BY <1>6 DEF Delivered
  <2> HIDE DEF D, e
  <2> QED
    BY <1>1, <1>7, <2>1, <2>2, <2>3
<1>9. /\ Len(n) \in Nat \ {0} /\ Len(Tail(n)) = Len(n) - 1 /\ DOMAIN Tail(n) = 1 .. Len(n) - 1
      /\ Head(n) = n[1] /\ \A j \in 1 .. Len(n) - 1 : Tail(n)[j] = n[j + 1] /\ j + 1 \in DOMAIN n
      /\ 1 \in DOMAIN n
  <2> HIDE DEF n
  <2> QED
    BY <1>1
<1>10. InOrder(u, v)'
  <2>1. Len(n) = Sent(u) - D /\ Sent(u) \in Nat
    BY DeliveredType DEF Link, InOrder
  <2>2. Len(network'[e]) = Sent(u)' - Delivered(u, v)'
    BY <1>1, <1>4, <1>7, <1>8, <1>9, <2>1
  <2>3. ASSUME NEW j \in 1 .. Len(n) - 1, NEW r, NEW m, r = D + 1 + j, m = network'[e][j]
        PROVE  OfRound(m, u, v, r)'
    <3>1. m = n[j + 1] /\ j + 1 \in DOMAIN n
      BY <1>4, <1>9, <2>3
    <3>2. r = D + (j + 1) /\ D + 1 # r
      BY <1>1, <2>3
    <3>3. OfRound(n[1], u, v, D + 1) /\ OfRound(m, u, v, r)
      BY <1>9, <3>1, <3>2 DEF Link, InOrder
    <3> HIDE DEF D, n, e
    <3> QED
      BY <1>1, <1>4, <1>9, <3>2, <3>3, OtherRound
  <2>4. (\A j \in DOMAIN network[e] : OfRound(network[e][j], u, v, Delivered(u, v) + j))'
    BY <1>4, <1>8, <1>9, <2>3
  <2> QED
    BY <1>6, <2>2, <2>4 DEF InOrder
<1>11. OneReceive(u, v)'
  BY <1>4, <1>6 DEF OneReceive
<1>12. Arrived(u, v)'
  <2>1. ASSUME NEW y \in SendPlaces, Rounds(y) + 1 = Asked(v)
        PROVE  receive_buffer'[<<v, u, TypeAt(y)>>] = Written(u, v, TypeAt(y), Stamp(u, y))
    <3>1. x \in 1 .. Done /\ y \in 1 .. Done
      BY Path DEF SendPlaces
    <3>2. Rounds(x) \in Nat /\ Rounds(y) \in Nat
      BY <3>1, RoundsFinite
    <3>3. x = y
      BY <1>2, <2>1, <3>2, RoundsApart
    <3> QED BY <3>3, <1>3, <1>4 DEF CommTypeOK
  <2> QED
    BY <1>7, <2>1 DEF Arrived
<1> QED
  BY <1>5, <1>10, <1>11, <1>12 DEF Link

-----------------------------------------------------------------------------
(* What a step does to the communicator.                                   *)

(* The sender u goes on without sending to v.                              *)
SenderKeeps(u, v) ==
  /\ network'[SendEnvelope(u, v)] = network[SendEnvelope(u, v)]
  /\ Sent(u)' = Sent(u)
  /\ \A c \in CommTypes : <<u, v, c>> \in unsent =>
       <<u, v, c>> \in unsent' /\ send_buffer'[u][c] = send_buffer[u][c]

(* The receiver v goes on without starting or completing a receive from u. *)
ReceiverKeeps(u, v) ==
  /\ posted'[SendEnvelope(u, v)] = posted[SendEnvelope(u, v)]
  /\ Asked(v)' = Asked(v)
  /\ \A c \in CommTypes :
       /\ <<v, u, c>> \in unreceived' <=> <<v, u, c>> \in unreceived
       /\ receive_buffer'[<<v, u, c>>] = receive_buffer[<<v, u, c>>]

LEMMA ReceiverSide ==
  ASSUME NEW v \in Unit, NEW u \in Unit, OneReceive(u, v), Arrived(u, v), ReceiverKeeps(u, v)
  PROVE  OneReceive(u, v)' /\ Arrived(u, v)' /\ Delivered(u, v)' = Delivered(u, v)
<1>1. SendEnvelope(u, v)' = SendEnvelope(u, v)
  BY DEF SendEnvelope, Tag
<1>2. Asked(v)' = Asked(v)
  BY DEF ReceiverKeeps
<1>3. Delivered(u, v)' = Delivered(u, v)
  BY <1>1, <1>2 DEF Delivered, ReceiverKeeps
<1>4. OneReceive(u, v)'
  <2>1. \A x \in SendPlaces : TypeAt(x) \in CommTypes
    BY SendTypes
  <2> QED BY <1>1, <1>2, <2>1 DEF OneReceive, ReceiverKeeps
<1>5. Arrived(u, v)'
  <2>1. \A x \in SendPlaces : TypeAt(x) \in CommTypes
    BY SendTypes
  <2> QED BY <1>2, <2>1 DEF Arrived, ReceiverKeeps
<1> QED
  BY <1>3, <1>4, <1>5

LEMMA LinkKept ==
  ASSUME NEW v \in Unit, NEW u \in Unit, Link(u, v), SenderKeeps(u, v), ReceiverKeeps(u, v)
  PROVE  Link(u, v)'
<1>1. OneReceive(u, v)' /\ Arrived(u, v)' /\ Delivered(u, v)' = Delivered(u, v)
  BY ReceiverSide DEF Link
<1>2. InOrder(u, v)'
  BY <1>1, KeepOrder DEF Link, SenderKeeps
<1> QED
  BY <1>1, <1>2 DEF Link

(* A step that waits, or does not concern the communicator.                *)
LEMMA QuietLinks ==
  ASSUME Linked, \A u \in Unit : Sent(u)' = Sent(u) /\ Asked(u)' = Asked(u),
         UNCHANGED <<send_buffer, receive_buffer, unsent, unreceived, network, posted, mpi_error>>,
         send_requests' \subseteq Slots, receive_requests' \subseteq Slots,
         unsent \subseteq send_requests', unreceived \subseteq receive_requests'
  PROVE  Linked'
<1>1. CommTypeOK'
  BY DEF Linked, CommTypeOK
<1>2. ASSUME NEW v \in Unit, NEW u \in Neigh[v] PROVE Link(u, v)'
  <2>1. u \in Unit /\ Link(u, v)
    BY EnvelopeOf DEF Linked
  <2>2. SenderKeeps(u, v) /\ ReceiverKeeps(u, v)
    BY <2>1 DEF SenderKeeps, ReceiverKeeps
  <2> QED
    BY <2>1, <2>2, LinkKept
<1> QED
  BY <1>1, <1>2 DEF Linked

LEMMA WaitLinks ==
  ASSUME Linked, \A u \in Unit : Sent(u)' = Sent(u) /\ Asked(u)' = Asked(u),
         NEW w \in Unit, NEW c, WaitReceivesBody(w, c) \/ WaitSendsBody(w, c)
  PROVE  Linked'
<1>1. CommTypeOK
  BY DEF Linked
<1>2. CASE WaitReceivesBody(w, c)
  <2>1. receive_requests' = receive_requests \ UnitSlots(w, c) /\ UnitSlots(w, c) \cap unreceived = {}
        /\ UNCHANGED <<send_buffer, receive_buffer, send_requests, unsent, unreceived,
                       network, posted, mpi_error>>
    BY <1>2 DEF WaitReceivesBody, WaitAllReceives
  <2>2. unreceived \subseteq receive_requests' /\ receive_requests' \subseteq Slots
    BY <1>1, <2>1 DEF CommTypeOK
  <2> QED
    BY <1>1, <2>1, <2>2, QuietLinks DEF CommTypeOK
<1>3. CASE WaitSendsBody(w, c)
  <2>1. send_requests' = send_requests \ UnitSlots(w, c) /\ UnitSlots(w, c) \cap unsent = {}
        /\ UNCHANGED <<send_buffer, receive_buffer, receive_requests, unsent, unreceived,
                       network, posted, mpi_error>>
    BY <1>3 DEF WaitSendsBody, WaitAllSends
  <2>2. unsent \subseteq send_requests' /\ send_requests' \subseteq Slots
    BY <1>1, <2>1 DEF CommTypeOK
  <2> QED
    BY <1>1, <2>1, <2>2, QuietLinks DEF CommTypeOK
<1> QED
  BY <1>2, <1>3

(* w asks for the round of place x, after it has waited for its receives.  *)
LEMMA ReceiversLinked ==
  ASSUME FewSubmeshes, ThreadsOK, Linked, NEW w \in Unit, NEW x \in SendPlaces, NEW c, c = TypeAt(x),
         ReceiveAll(w, c), receive_buffer' = receive_buffer,
         \A s \in receive_requests : s[1] # w,
         Asked(w)' = Asked(w) + 1, Rounds(x) = Asked(w),
         \A a \in Unit \ {w} : Asked(a)' = Asked(a),
         NEW v \in Unit, NEW u \in Neigh[v]
  PROVE  OneReceive(u, v)' /\ Arrived(u, v)' /\ Delivered(u, v)' = Delivered(u, v)
<1>1. CommTypeOK /\ c \in CommTypes
  BY SendTypes DEF Linked
<1>2. u \in Unit /\ v \in Neigh[u] /\ Link(u, v) /\ SendEnvelope(u, v)' = SendEnvelope(u, v)
  BY EnvelopeOf DEF Linked, SendEnvelope, Tag
<1>3. /\ unreceived' = unreceived \cup UnitSlots(w, c)
      /\ \A a, d : <<w, a, d>> \notin unreceived
  BY <1>1 DEF ReceiveAll, CommTypeOK
<1>4. CASE v # w
  <2>1. posted'[SendEnvelope(u, v)] = posted[SendEnvelope(u, v)]
    BY <1>1, <1>4, ReceiveAllPosted
  <2>2. \A d \in CommTypes : <<v, u, d>> \in unreceived' <=> <<v, u, d>> \in unreceived
    BY <1>3, <1>4 DEF UnitSlots
  <2>3. ReceiverKeeps(u, v)
    BY <1>4, <2>1, <2>2 DEF ReceiverKeeps
  <2> QED BY <2>3, <1>2, ReceiverSide DEF Link
<1>5. CASE v = w
  <2> DEFINE e == SendEnvelope(u, w)
  <2>1. posted[e] = <<>>
    BY <1>2, <1>3, <1>5 DEF Link, OneReceive
  <2>2. posted'[e] = << <<w, u, c>> >>
    <3>1. posted'[e] = Append(posted[e], <<w, u, c>>)
      BY <1>1, <1>5, ReceiveAllPosted
    <3> HIDE DEF e
    <3> QED
      BY <2>1, <3>1
  <2>3. <<w, u, c>> \in unreceived'
    BY <1>1, <1>2, <1>3, <1>5 DEF UnitSlots, Slots
  <2>4. Rounds(x) + 1 = Asked(w)'
    OBVIOUS
  <2>5. OneReceive(u, w)'
    BY <1>2, <1>5, <2>2, <2>3, <2>4 DEF OneReceive
  <2>6. Arrived(u, w)'
    <3> SUFFICES ASSUME NEW y \in SendPlaces, Rounds(y) + 1 = Asked(w)', <<w, u, TypeAt(y)>> \notin unreceived'
                 PROVE  FALSE
      BY DEF Arrived
    <3>1. x \in 1 .. Done /\ y \in 1 .. Done
      BY Path DEF SendPlaces
    <3>2. Rounds(x) \in Nat /\ Rounds(y) \in Nat
      BY <3>1, RoundsFinite
    <3>3. x = y
      BY <2>4, <3>2, RoundsApart
    <3> QED
      BY <2>3, <3>3
  <2>7. Delivered(u, w)' = Delivered(u, w)
    <3>1. Len(posted[e]) = 0 /\ Len(posted'[e]) = 1 /\ Asked(w) \in Nat
      BY <2>1, <2>2, AskedType
    <3>2. Delivered(u, w) = Asked(w) - Len(posted[e]) /\ Delivered(u, w)' = Asked(w)' - Len(posted'[e])
      BY <1>2, <1>5 DEF Delivered
    <3> HIDE DEF e
    <3> QED
      BY <3>1, <3>2
  <2> QED BY <1>5, <2>5, <2>6, <2>7
<1> QED BY <1>4, <1>5

(* w sends the round of place x, after it has waited for the sends of the  *)
(* same type.                                                              *)
SendsRound(w, x, c) ==
  /\ x \in SendPlaces /\ c = TypeAt(x) /\ SendAll(w, c)
  /\ send_buffer'[w][c] = Stamp(w, x)
  /\ \A d \in CommTypes \ {c} : send_buffer'[w][d] = send_buffer[w][d]
  /\ \A a \in Unit \ {w} : send_buffer'[a] = send_buffer[a]
  /\ \A s \in send_requests : s[1] = w => s[3] # c
  /\ Sent(w)' = Sent(w) + 1 /\ Rounds(x) = Sent(w)
  /\ \A a \in Unit \ {w} : Sent(a)' = Sent(a)

LEMMA SendersLinked ==
  ASSUME FewSubmeshes, ThreadsOK, Linked, NEW w \in Unit, NEW x, NEW c, SendsRound(w, x, c),
         NEW v \in Unit, NEW u \in Neigh[v], Delivered(u, v)' = Delivered(u, v)
  PROVE  InOrder(u, v)'
<1>0. /\ x \in SendPlaces /\ c = TypeAt(x) /\ SendAll(w, c)
      /\ send_buffer'[w][c] = Stamp(w, x)
      /\ \A d \in CommTypes \ {c} : send_buffer'[w][d] = send_buffer[w][d]
      /\ \A a \in Unit \ {w} : send_buffer'[a] = send_buffer[a]
      /\ \A s \in send_requests : s[1] = w => s[3] # c
      /\ Sent(w)' = Sent(w) + 1 /\ Rounds(x) = Sent(w)
      /\ \A a \in Unit \ {w} : Sent(a)' = Sent(a)
  BY DEF SendsRound
<1>1. CommTypeOK /\ c \in CommTypes
  BY <1>0, SendTypes DEF Linked
<1>2. /\ unsent' = unsent \cup UnitSlots(w, c)
      /\ \A a : <<w, a, c>> \notin unsent
  BY <1>0, <1>1 DEF SendAll, CommTypeOK
<1>3. /\ u \in Unit /\ InOrder(u, v) /\ SendEnvelope(u, v) \in Envelopes /\ v \in Neigh[u]
      /\ Delivered(u, v) \in Int /\ Sent(u) \in Nat
  BY <1>1, EnvelopeOf, DeliveredType DEF Linked, Link
<1>4. network'[SendEnvelope(u, v)] =
        IF u = w THEN Append(network[SendEnvelope(u, v)], [slot |-> <<u, v, c>>, data |-> NotRead])
        ELSE network[SendEnvelope(u, v)]
  BY <1>0, <1>1, SendAllNetwork
<1>5. CASE u = w
  <2>1. <<u, v, c>> \notin unsent /\ <<u, v, c>> \in unsent'
    BY <1>1, <1>2, <1>3, <1>5 DEF UnitSlots, Slots
  <2>2. \A d \in CommTypes : <<u, v, d>> \in unsent =>
          <<u, v, d>> \in unsent' /\ send_buffer'[u][d] = send_buffer[u][d]
    BY <1>0, <1>2, <1>5, <2>1
  <2> QED
    BY <1>0, <1>1, <1>3, <1>4, <1>5, <2>1, <2>2, SendOrder
<1>6. CASE u # w
  <2>1. \A d \in CommTypes : <<u, v, d>> \in unsent =>
          <<u, v, d>> \in unsent' /\ send_buffer'[u][d] = send_buffer[u][d]
    BY <1>0, <1>2, <1>3, <1>6
  <2> QED
    BY <1>0, <1>3, <1>4, <1>6, <2>1, KeepOrder
<1> QED BY <1>5, <1>6

(* A step of the MPI library.                                              *)
LEMMA MpiLinks ==
  ASSUME FewSubmeshes, ThreadsOK, Linked, MpiProgress, pc' = pc, su_id' = su_id
  PROVE  Linked'
<1>1. CommTypeOK
  BY DEF Linked
<1>2. PICK e \in Envelopes : Deliver(e) \/ \E i \in DOMAIN network[e] : Buffer(e, i)
  BY DEF MpiProgress
<1>3. PICK v \in Unit : \E u \in Neigh[v] : e = SendEnvelope(u, v)
  BY EveryEnvelope
<1>4. PICK u \in Neigh[v] : e = SendEnvelope(u, v)
  BY <1>3
<1>5. Link(u, v) /\ u \in Unit
  BY <1>3, <1>4, EnvelopeOf DEF Linked
<1>6. send_buffer' = send_buffer
  BY <1>2 DEF Deliver, Buffer
<1>7. CommTypeOK'
  BY <1>1, <1>2, DeliverType, BufferType
<1>8. \A a \in Unit : Sent(a)' = Sent(a) /\ Asked(a)' = Asked(a)
  BY StandStill
<1>9. Link(u, v)' /\ mpi_error' = mpi_error
  <2>1. CASE Deliver(e)
    BY <1>1, <1>4, <1>5, <2>1, DeliverLink
  <2>2. ASSUME NEW i \in DOMAIN network[e], Buffer(e, i)
        PROVE  Link(u, v)' /\ mpi_error' = mpi_error
    <3>1. InOrder(u, v)'
      BY <1>1, <1>4, <1>5, <2>2, ReadOrder DEF Link
    <3>2. UNCHANGED <<receive_buffer, unreceived, posted, mpi_error>>
      BY <2>2 DEF Buffer
    <3>3. ReceiverKeeps(u, v)
      BY <1>8, <3>2 DEF ReceiverKeeps
    <3>4. OneReceive(u, v)' /\ Arrived(u, v)'
      BY <1>5, <3>3, ReceiverSide DEF Link
    <3> QED
      BY <3>1, <3>2, <3>4 DEF Link
  <2> QED
    BY <1>2, <2>1, <2>2
<1>10. ASSUME NEW b \in Unit, NEW a \in Neigh[b], SendEnvelope(a, b) # e PROVE Link(a, b)'
  <2>1. a \in Unit /\ SendEnvelope(a, b) \in Envelopes /\ Link(a, b)
    BY EnvelopeOf DEF Linked
  <2>2. network'[SendEnvelope(a, b)] = network[SendEnvelope(a, b)]
        /\ posted'[SendEnvelope(a, b)] = posted[SendEnvelope(a, b)]
    BY <1>1, <1>2, <1>10, <2>1 DEF Deliver, Buffer, CommTypeOK
  <2>3. a # u \/ b # v
    BY <1>4, <1>10
  <2>4. network[e] \in Seq(Message)
    BY <1>1 DEF CommTypeOK
  <2>5. \A i \in DOMAIN network[e] : \E x \in SendPlaces : network[e][i].slot = <<u, v, TypeAt(x)>>
    BY <1>4, <1>5 DEF Link, InOrder, OfRound
  <2>6. ASSUME NEW c \in CommTypes, <<a, b, c>> \in unsent PROVE <<a, b, c>> \in unsent'
    <3>1. \E i \in DOMAIN network[e] : unsent' = unsent \/ unsent' = unsent \ {network[e][i].slot}
      <4>1. CASE Deliver(e)
        <5>1. network[e] # <<>> /\ Head(network[e]) = network[e][1] /\ 1 \in DOMAIN network[e]
          BY <2>4, <4>1 DEF Deliver
        <5> QED
          BY <4>1, <5>1 DEF Deliver
      <4> QED
        BY <1>2, <4>1 DEF Buffer
    <3> QED
      BY <2>3, <2>5, <2>6, <3>1
  <2>7. ASSUME NEW c \in CommTypes
        PROVE  /\ <<b, a, c>> \in unreceived' <=> <<b, a, c>> \in unreceived
               /\ receive_buffer'[<<b, a, c>>] = receive_buffer[<<b, a, c>>]
    <3>1. CASE Deliver(e)
      <4>1. PICK x \in SendPlaces : posted[e] = << <<v, u, TypeAt(x)>> >>
        BY <1>4, <1>5, <3>1 DEF Deliver, Link, OneReceive
      <4>2. Head(posted[e]) = <<v, u, TypeAt(x)>> /\ <<v, u, TypeAt(x)>> # <<b, a, c>>
        BY <2>3, <4>1
      <4>3. <<b, a, c>> \in Slots
        BY <2>1 DEF Slots
      <4> QED
        BY <1>1, <3>1, <4>2, <4>3 DEF Deliver, CommTypeOK
    <3> QED
      BY <1>2, <3>1 DEF Buffer
  <2>8. SenderKeeps(a, b) /\ ReceiverKeeps(a, b)
    BY <1>6, <1>8, <2>1, <2>2, <2>6, <2>7 DEF SenderKeeps, ReceiverKeeps
  <2> QED
    BY <2>1, <2>8, LinkKept
<1>11. ASSUME NEW b \in Unit, NEW a \in Neigh[b] PROVE Link(a, b)'
  <2>1. CASE SendEnvelope(a, b) # e
    BY <1>10, <2>1
  <2>2. CASE SendEnvelope(a, b) = e
    <3>1. a = u /\ b = v
      BY <1>4, <1>5, <2>2, EnvelopesDistinct, EnvelopeOf
    <3> QED
      BY <1>9, <3>1
  <2> QED
    BY <2>1, <2>2
<1> QED
  BY <1>7, <1>9, <1>11 DEF Linked

-----------------------------------------------------------------------------
(* What the threads' steps do to the exchanges.                            *)
ReceiveAllHere == <<"master", "receive_all">>

(* How a place changes the rounds.                                         *)
LEMMA RoundsAt ==
  ASSUME NEW p \in 1 .. Done - 1
  PROVE  /\ p \in SendPlaces <=> (Place(p)[2] = "exchange" \/ Place(p) = SendAllHere)
         /\ AskedAt(p + 1) = IF Place(p)[2] = "exchange" \/ Place(p) = ReceiveAllHere
                             THEN AskedAt(p) + 1 ELSE AskedAt(p)
<1>1. p \in 1 .. Done /\ p + 1 \in 1 .. Done /\ Follows(Place(p), Place(p + 1))
  BY Path
<1>2. Rounds(p) \in Nat
  BY <1>1, RoundsFinite
<1>3. p \in SendPlaces <=> (Place(p)[2] = "exchange" \/ Place(p) = SendAllHere)
  BY DEF SendPlaces
<1>4. Rounds(p + 1) = IF p \in SendPlaces THEN Rounds(p) + 1 ELSE Rounds(p)
  BY RoundStep
<1>5. Place(p + 1) = SendAllHere <=> Place(p) = ReceiveAllHere
  BY <1>1 DEF Follows, WithWork, WithoutWork, SendAllHere, ReceiveAllHere
<1>6. Place(p) = ReceiveAllHere => p \notin SendPlaces /\ Place(p) # SendAllHere
  BY <1>3 DEF SendAllHere, ReceiveAllHere
<1>7. Place(p)[2] = "exchange" => Place(p) # SendAllHere /\ Place(p) # ReceiveAllHere
  BY DEF SendAllHere, ReceiveAllHere
<1>8. AskedAt(p + 1) = IF Place(p + 1) = SendAllHere THEN Rounds(p + 1) + 1 ELSE Rounds(p + 1)
  BY DEF AskedAt
<1>9. AskedAt(p) = IF Place(p) = SendAllHere THEN Rounds(p) + 1 ELSE Rounds(p)
  BY DEF AskedAt
<1> QED BY <1>2, <1>3, <1>4, <1>5, <1>6, <1>7, <1>8, <1>9

LEMMA RoundsMove ==
  ASSUME ThreadsOK, NEW S, Moved(S), NEW u \in Unit, u \in S => Pos(u) \in 1 .. Done - 1
  PROVE  /\ Sent(u)' = IF u \in S /\ (Here(u)[2] = "exchange" \/ Here(u) = SendAllHere)
                       THEN Sent(u) + 1 ELSE Sent(u)
         /\ Asked(u)' = IF u \in S /\ (Here(u)[2] = "exchange" \/ Here(u) = ReceiveAllHere)
                        THEN Asked(u) + 1 ELSE Asked(u)
<1>1. Pos(u)' = IF u \in S THEN Pos(u) + 1 ELSE Pos(u)
  BY DEF Moved
<1>2. Sent(u)' = Rounds(Pos(u)') /\ Asked(u)' = AskedAt(Pos(u)')
  BY DEF Sent, Asked
<1>3. CASE u \in S
  <2>1. Pos(u) \in 1 .. Done - 1 /\ Pos(u)' = Pos(u) + 1
    BY <1>1, <1>3
  <2>2. Rounds(Pos(u) + 1) = IF Pos(u) \in SendPlaces THEN Rounds(Pos(u)) + 1 ELSE Rounds(Pos(u))
    BY <2>1, RoundStep
  <2> QED BY <1>2, <1>3, <2>1, <2>2, RoundsAt DEF Sent, Asked, Here
<1>4. CASE u \notin S
  BY <1>1, <1>2, <1>4 DEF Sent, Asked
<1> QED BY <1>3, <1>4

(* The entries of the parts of loops.                                      *)
LEMMA LoopEntry ==
  ASSUME ThreadsOK, NEW th \in Threads, At(th)[2] \in {"exchange", "receive", "wait", "work"}
  PROVE  /\ ~Unlooped(At(th)) /\ At(th) = <<At(th)[1], At(th)[2]>>
         /\ At(th)[1] \notin {"omp", "done", "master", "dc", "dc_global_dof_indx"}
         /\ At(th)[2] # "work" => At(th)[1] \in CommTypes
<1>1. pc[th] \in 1 .. Done
  BY DEF ThreadsOK
<1>2. pc[th] # Done
  BY Path DEF At
<1>3. pc[th] \in 1 .. Done - 1
  BY <1>1, <1>2, Path
<1>4. Follows(At(th), Place(pc[th] + 1))
  BY <1>3, Path DEF At
<1>5. /\ At(th) = <<At(th)[1], At(th)[2]>>
      /\ At(th)[1] \notin {"omp", "done", "master", "dc", "dc_global_dof_indx"}
  BY <1>4 DEF Follows, WithWork, WithoutWork
<1>6. At(th)[2] # "work" => At(th)[1] \in WithWork \cup WithoutWork
  BY <1>4 DEF Follows, WithWork, WithoutWork
<1>7. At(th)[2] # "work" => At(th)[1] \in CommTypes
  BY <1>6, GnOmpiAssumption DEF WithWork, WithoutWork
<1>8. ~Unlooped(At(th))
  BY <1>5 DEF Unlooped
<1> QED BY <1>5, <1>7, <1>8

(* An exchange is the next round of both its sends and its receives.       *)
LEMMA ExchangeLinks ==
  ASSUME FewSubmeshes, TInv, Linked, NEW th \in Threads, NEW w \in Unit, Requests(w), ExchangeLoop(th, w)
  PROVE  /\ Linked' /\ TInv' /\ Moved({w}) /\ Pos(w) = pc[th] /\ Here(w) = At(th)
         /\ Pos(w) \in 1 .. Done - 1 /\ Here(w) = <<Type(th), "exchange">> /\ Type(th) \in CommTypes
         /\ Type(th) # "dc_global_dof_indx"
<1> DEFINE c == Type(th)
           x == pc[th]
<1>1. Body(th, w) /\ At(th)[2] = "exchange" /\ ExchangeBody(w, c, x)
  BY DEF ExchangeLoop, Part
<1>2. ~Unlooped(At(th)) /\ At(th) = <<c, "exchange">> /\ c \in CommTypes /\ c # "dc_global_dof_indx"
  BY <1>1, LoopEntry DEF TInv, Type
<1>3. /\ TInv' /\ Moved({w}) /\ Pos(w) = x /\ Here(w) = At(th) /\ x \in 1 .. Done - 1
  BY <1>1, <1>2, BodyMoves
<1>4. x \in SendPlaces /\ TypeAt(x) = c /\ Stamp(w, x) = x
  BY <1>2, <1>3 DEF SendPlaces, TypeAt, Stamp, Here, SendAllHere
<1>5. Here(w)[2] = "exchange" /\ Here(w) # SendAllHere
  BY <1>2, <1>3 DEF SendAllHere
<1>6. /\ Sent(w)' = Sent(w) + 1 /\ Asked(w)' = Asked(w) + 1
      /\ \A a \in Unit \ {w} : Sent(a)' = Sent(a) /\ Asked(a)' = Asked(a)
  BY <1>3, <1>5, RoundsMove DEF TInv
<1>7. Rounds(x) = Sent(w) /\ Rounds(x) = Asked(w)
  BY <1>3, <1>5 DEF Sent, Asked, AskedAt, Here
<1>8. CommTypeOK /\ ~mpi_error
  BY DEF Linked
<1>9. ReceiveAll(w, c) /\ SendAll(w, c) /\ SetToSendBuffer(w, c, x) /\ receive_buffer' = receive_buffer
      /\ mpi_error' = (mpi_error \/ ReceiveErroneous(w, c) \/ SendErroneous(w, c))
  BY <1>1 DEF ExchangeBody
<1>10. /\ \A s \in receive_requests : s[1] # w
       /\ \A s \in send_requests : s[1] = w => s[3] # c
  <2>1. \A d : ~Receiving(d, Here(w))
    BY <1>2, <1>3 DEF Receiving, SendAllHere
  <2>2. ~Sending(c, Here(w))
    BY <1>2, <1>3, LoopEntry DEF Sending
  <2> QED BY <2>1, <2>2 DEF Requests
<1> HIDE DEF c, x
<1>11. /\ send_buffer'[w][c] = x
       /\ \A d \in CommTypes \ {c} : send_buffer'[w][d] = send_buffer[w][d]
       /\ \A a \in Unit \ {w} : send_buffer'[a] = send_buffer[a]
  BY <1>2, <1>8, <1>9 DEF SetToSendBuffer, CommTypeOK
<1>12. CommTypeOK'
  <2>1. send_buffer' \in [Unit -> [CommTypes -> Nat \cup {-1}]]
    <3>1. x \in Nat \cup {-1}
      BY <1>3, Path
    <3> QED BY <3>1, <1>8, <1>9 DEF SetToSendBuffer, CommTypeOK
  <2>2. mpi_error' \in BOOLEAN
    BY <1>8, <1>9 DEF CommTypeOK, ReceiveErroneous, SendErroneous
  <2>3. /\ send_requests' \subseteq Slots /\ unsent' \subseteq send_requests'
        /\ network' \in [Envelopes -> Seq(Message)]
    BY <1>2, <1>8, <1>9, SendAllType
  <2>4. /\ receive_requests' \subseteq Slots /\ unreceived' \subseteq receive_requests'
        /\ posted' \in [Envelopes -> Seq(Slots)]
    BY <1>2, <1>8, <1>9, ReceiveAllType
  <2> QED
    BY <1>8, <1>9, <2>1, <2>2, <2>3, <2>4 DEF CommTypeOK
<1>13. ~mpi_error'
  <2>1. ~ReceiveErroneous(w, c) /\ ~SendErroneous(w, c)
    BY <1>10 DEF ReceiveErroneous, SendErroneous, UnitSlots
  <2> QED
    BY <1>8, <1>9, <2>1
<1>14. ASSUME NEW v \in Unit, NEW u \in Neigh[v] PROVE Link(u, v)'
  <2>1. OneReceive(u, v)' /\ Arrived(u, v)' /\ Delivered(u, v)' = Delivered(u, v)
    BY <1>4, <1>6, <1>7, <1>9, <1>10, ReceiversLinked DEF TInv
  <2>2. SendsRound(w, x, c)
    BY <1>4, <1>6, <1>7, <1>9, <1>10, <1>11 DEF SendsRound
  <2>3. Delivered(u, v)' = Delivered(u, v)
    BY <2>1
  <2>4. InOrder(u, v)'
    BY <2>2, <2>3, SendersLinked DEF TInv
  <2> QED BY <2>1, <2>4 DEF Link
<1> QED
  BY <1>2, <1>3, <1>12, <1>13, <1>14 DEF Linked, c, x

(* A step of submeshes that neither send nor ask for anything.             *)
QuietEntry(e) == e[2] # "exchange" /\ e # SendAllHere /\ e # ReceiveAllHere

LEMMA QuietRounds ==
  ASSUME ThreadsOK, NEW S \in SUBSET Unit, Moved(S),
         \A u \in S : Pos(u) \in 1 .. Done - 1 /\ QuietEntry(Here(u))
  PROVE  \A u \in Unit : Sent(u)' = Sent(u) /\ Asked(u)' = Asked(u)
<1> SUFFICES ASSUME NEW u \in Unit PROVE Sent(u)' = Sent(u) /\ Asked(u)' = Asked(u)
  OBVIOUS
<1>1. u \in S => Pos(u) \in 1 .. Done - 1
  OBVIOUS
<1>2. ~(u \in S /\ (Here(u)[2] = "exchange" \/ Here(u) = SendAllHere))
  BY DEF QuietEntry
<1>3. ~(u \in S /\ (Here(u)[2] = "exchange" \/ Here(u) = ReceiveAllHere))
  BY DEF QuietEntry
<1> QED BY <1>1, <1>2, <1>3, RoundsMove

(* The owner's numbers are written before they are sent.                   *)
LEMMA FinalizeLinks ==
  ASSUME FewSubmeshes, TInv, Linked, NEW th \in Threads, NEW w \in Unit, Requests(w), Finalize(th, w)
  PROVE  /\ Linked' /\ TInv' /\ Moved({w}) /\ Pos(w) = pc[th] /\ Here(w) = At(th)
         /\ Pos(w) \in 1 .. Done - 1
         /\ send_buffer'[w]["dc_global_dof_indx"] =
              IF OwnedEdges(w) = {} THEN send_buffer[w]["dc_global_dof_indx"] ELSE Pos(w)
         /\ \A a \in Unit \ {w} : send_buffer'[a] = send_buffer[a]
<1> DEFINE c == "dc_global_dof_indx"
           x == pc[th]
<1>1. At(th) = <<"master", "finalize">> /\ Body(th, w)
  BY DEF Finalize
<1>2. ~Unlooped(At(th)) /\ QuietEntry(At(th))
  BY <1>1 DEF Unlooped, QuietEntry, SendAllHere, ReceiveAllHere
<1>3. TInv' /\ Moved({w}) /\ Pos(w) = x /\ Here(w) = At(th) /\ x \in 1 .. Done - 1
  BY <1>1, <1>2, BodyMoves
<1>4. \A u \in Unit : Sent(u)' = Sent(u) /\ Asked(u)' = Asked(u)
  <2>1. \A u \in {w} : Pos(u) \in 1 .. Done - 1 /\ QuietEntry(Here(u))
    BY <1>2, <1>3
  <2> QED BY <1>3, <2>1, QuietRounds DEF TInv
<1>5. CommTypeOK /\ c \in CommTypes /\ x \in Nat \cup {-1}
  BY <1>3, GnOmpiAssumption, Path DEF Linked
<1>6. /\ UNCHANGED <<receive_buffer, send_requests, receive_requests, unsent, unreceived,
                     network, posted, mpi_error>>
      /\ IF OwnedEdges(w) = {} THEN UNCHANGED send_buffer ELSE SetToSendBuffer(w, c, x)
  BY DEF Finalize
<1>7. \A s \in unsent : s[1] = w => s[3] # c
  <2>1. ~Sending(c, Here(w))
    BY <1>1, <1>3 DEF Sending
  <2> QED BY <1>5, <2>1 DEF Requests, CommTypeOK
<1>8. /\ send_buffer'[w][c] = IF OwnedEdges(w) = {} THEN send_buffer[w][c] ELSE x
      /\ \A d \in CommTypes \ {c} : send_buffer'[w][d] = send_buffer[w][d]
      /\ \A a \in Unit \ {w} : send_buffer'[a] = send_buffer[a]
      /\ send_buffer' \in [Unit -> [CommTypes -> Nat \cup {-1}]]
  <2> HIDE DEF c, x
  <2>1. CASE OwnedEdges(w) = {}
    BY <1>5, <1>6, <2>1 DEF CommTypeOK
  <2>2. CASE OwnedEdges(w) # {}
    <3>1. send_buffer' = [send_buffer EXCEPT ![w][c] = x]
      BY <1>6, <2>2 DEF SetToSendBuffer
    <3>2. send_buffer \in [Unit -> [CommTypes -> Nat \cup {-1}]]
      BY <1>5 DEF CommTypeOK
    <3> QED BY <1>5, <2>2, <3>1, <3>2
  <2> QED BY <2>1, <2>2
<1>9. CommTypeOK'
  BY <1>5, <1>6, <1>8 DEF CommTypeOK
<1>10. ASSUME NEW v \in Unit, NEW u \in Neigh[v] PROVE Link(u, v)'
  <2>1. u \in Unit /\ Link(u, v)
    BY EnvelopeOf DEF Linked
  <2>2. \A d \in CommTypes : <<u, v, d>> \in unsent => send_buffer'[u][d] = send_buffer[u][d]
    BY <1>7, <1>8, <2>1
  <2>3. SenderKeeps(u, v)
    BY <1>4, <1>6, <2>1, <2>2 DEF SenderKeeps
  <2>4. ReceiverKeeps(u, v)
    BY <1>4, <1>6 DEF ReceiverKeeps
  <2> QED BY <2>1, <2>3, <2>4, LinkKept
<1>11. Linked'
  BY <1>6, <1>9, <1>10 DEF Linked
<1> QED BY <1>3, <1>8, <1>11

(* The round of the numbers, asked for by the masters before any sends it. *)
LEMMA AllReceivesLinks ==
  ASSUME FewSubmeshes, TInv, Linked, NEW th \in Threads, NEW w \in Unit, Requests(w),
         MasterReceiveAll(th, w)
  PROVE  /\ Linked' /\ TInv' /\ Moved({w}) /\ Pos(w) = pc[th] /\ Here(w) = At(th)
         /\ Pos(w) \in 1 .. Done - 1
<1> DEFINE c == "dc_global_dof_indx"
           p == pc[th]
           x == p + 1
<1>1. At(th) = ReceiveAllHere /\ Body(th, w) /\ ReceiveAll(w, c)
      /\ mpi_error' = (mpi_error \/ ReceiveErroneous(w, c))
      /\ UNCHANGED <<send_buffer, receive_buffer, send_requests, unsent, network>>
  BY DEF MasterReceiveAll, ReceiveAllHere
<1>2. ~Unlooped(At(th))
  BY <1>1 DEF Unlooped, ReceiveAllHere
<1>3. TInv' /\ Moved({w}) /\ Pos(w) = p /\ Here(w) = At(th) /\ p \in 1 .. Done - 1
  BY <1>1, <1>2, BodyMoves
<1>4. x \in 1 .. Done - 1 /\ Place(x) = SendAllHere
  <2>1. x \in 1 .. Done /\ Follows(At(th), Place(x))
    BY <1>3, Path DEF At
  <2>2. Place(x) = SendAllHere
    BY <1>1, <2>1 DEF Follows, SendAllHere, ReceiveAllHere, WithWork, WithoutWork
  <2>3. x # Done
    BY <2>2, Path DEF SendAllHere
  <2> QED BY <2>1, <2>2, <2>3, Path
<1>5. x \in SendPlaces /\ TypeAt(x) = c
  BY <1>4 DEF SendPlaces, TypeAt
<1>6. Here(w)[2] # "exchange" /\ Here(w) # SendAllHere /\ Here(w) = ReceiveAllHere
  BY <1>1, <1>3 DEF SendAllHere, ReceiveAllHere
<1>7. /\ Sent(w)' = Sent(w) /\ Asked(w)' = Asked(w) + 1
      /\ \A a \in Unit \ {w} : Sent(a)' = Sent(a) /\ Asked(a)' = Asked(a)
  BY <1>3, <1>6, RoundsMove DEF TInv
<1>8. Rounds(x) = Asked(w)
  <2>1. p \notin SendPlaces
    BY <1>3, <1>6 DEF SendPlaces, Here
  <2>2. Rounds(x) = Rounds(p)
    BY <1>3, <2>1, RoundStep
  <2> QED BY <1>3, <1>6, <2>2 DEF Asked, AskedAt, Here
<1>9. CommTypeOK /\ ~mpi_error /\ c \in CommTypes
  BY GnOmpiAssumption DEF Linked
<1>10. \A s \in receive_requests : s[1] # w
  <2>1. \A d \in CommTypes : ~Receiving(d, Here(w))
    BY <1>1, <1>3, GnOmpiAssumption DEF Receiving, SendAllHere, ReceiveAllHere
  <2>2. \A s \in receive_requests : s[3] \in CommTypes
    BY <1>9 DEF CommTypeOK, Slots
  <2> QED BY <2>1, <2>2 DEF Requests
<1> HIDE DEF c, x
<1>11. CommTypeOK'
  <2>1. mpi_error' \in BOOLEAN
    BY <1>1, <1>9 DEF CommTypeOK, ReceiveErroneous
  <2>2. /\ receive_requests' \subseteq Slots /\ unreceived' \subseteq receive_requests'
        /\ posted' \in [Envelopes -> Seq(Slots)]
    BY <1>1, <1>9, ReceiveAllType
  <2> QED BY <1>1, <1>9, <2>1, <2>2 DEF CommTypeOK
<1>12. ~mpi_error'
  <2>1. ~ReceiveErroneous(w, c)
    BY <1>10 DEF ReceiveErroneous, UnitSlots
  <2> QED BY <1>1, <1>9, <2>1
<1>13. ASSUME NEW v \in Unit, NEW u \in Neigh[v] PROVE Link(u, v)'
  <2>1. OneReceive(u, v)' /\ Arrived(u, v)' /\ Delivered(u, v)' = Delivered(u, v)
    BY <1>1, <1>5, <1>7, <1>8, <1>10, ReceiversLinked DEF TInv
  <2>2. u \in Unit /\ InOrder(u, v)
    BY EnvelopeOf DEF Linked, Link
  <2>3. Sent(u)' = Sent(u)
    BY <1>7, <2>2
  <2>4. InOrder(u, v)'
    BY <1>1, <2>1, <2>2, <2>3, KeepOrder
  <2> QED BY <2>1, <2>4 DEF Link
<1> QED BY <1>3, <1>11, <1>12, <1>13 DEF Linked

LEMMA AllSendsLinks ==
  ASSUME FewSubmeshes, TInv, Linked, NEW th \in Threads, NEW w \in Unit, Requests(w), Buffered(w),
         MasterSendAll(th, w)
  PROVE  /\ Linked' /\ TInv' /\ Moved({w}) /\ Pos(w) = pc[th] /\ Here(w) = At(th)
         /\ Pos(w) \in 1 .. Done - 1
<1> DEFINE c == "dc_global_dof_indx"
           x == pc[th]
<1>1. At(th) = SendAllHere /\ Body(th, w) /\ SendAll(w, c)
      /\ mpi_error' = (mpi_error \/ SendErroneous(w, c))
      /\ UNCHANGED <<send_buffer, receive_buffer, receive_requests, unreceived, posted>>
  BY DEF MasterSendAll, SendAllHere
<1>2. ~Unlooped(At(th))
  BY <1>1 DEF Unlooped, SendAllHere
<1>3. TInv' /\ Moved({w}) /\ Pos(w) = x /\ Here(w) = At(th) /\ x \in 1 .. Done - 1
  BY <1>1, <1>2, BodyMoves
<1>4. x \in SendPlaces /\ c = TypeAt(x)
  BY <1>1, <1>3 DEF SendPlaces, TypeAt, Here
<1>5. Here(w)[2] # "exchange" /\ Here(w) = SendAllHere /\ Here(w) # ReceiveAllHere
  BY <1>1, <1>3 DEF SendAllHere, ReceiveAllHere
<1>6. /\ Sent(w)' = Sent(w) + 1 /\ Asked(w)' = Asked(w)
      /\ \A a \in Unit \ {w} : Sent(a)' = Sent(a) /\ Asked(a)' = Asked(a)
  BY <1>3, <1>5, RoundsMove DEF TInv
<1>7. Rounds(x) = Sent(w) /\ send_buffer'[w][c] = Stamp(w, x)
  BY <1>1, <1>3, <1>5 DEF Sent, Buffered
<1>8. CommTypeOK /\ ~mpi_error /\ c \in CommTypes
  BY GnOmpiAssumption DEF Linked
<1>9. \A s \in send_requests : s[1] = w => s[3] # c
  <2>1. ~Sending(c, Here(w))
    BY <1>1, <1>3 DEF Sending, SendAllHere
  <2> QED BY <2>1 DEF Requests
<1> HIDE DEF c, x
<1>10. CommTypeOK'
  <2>1. mpi_error' \in BOOLEAN
    BY <1>1, <1>8 DEF CommTypeOK, SendErroneous
  <2>2. /\ send_requests' \subseteq Slots /\ unsent' \subseteq send_requests'
        /\ network' \in [Envelopes -> Seq(Message)]
    BY <1>1, <1>8, SendAllType
  <2> QED BY <1>1, <1>8, <2>1, <2>2 DEF CommTypeOK
<1>11. ~mpi_error'
  <2>1. ~SendErroneous(w, c)
    BY <1>9 DEF SendErroneous, UnitSlots
  <2> QED BY <1>1, <1>8, <2>1
<1>12. SendsRound(w, x, c)
  BY <1>1, <1>4, <1>6, <1>7, <1>9 DEF SendsRound
<1>13. ASSUME NEW v \in Unit, NEW u \in Neigh[v] PROVE Link(u, v)'
  <2>1. u \in Unit /\ Link(u, v)
    BY EnvelopeOf DEF Linked
  <2>2. ReceiverKeeps(u, v)
    BY <1>1, <1>6 DEF ReceiverKeeps
  <2>3. OneReceive(u, v)' /\ Arrived(u, v)' /\ Delivered(u, v)' = Delivered(u, v)
    BY <2>1, <2>2, ReceiverSide DEF Link
  <2>4. InOrder(u, v)'
    BY <1>12, <2>3, SendersLinked DEF TInv
  <2> QED BY <2>3, <2>4 DEF Link
<1> QED BY <1>3, <1>10, <1>11, <1>13 DEF Linked, x

-----------------------------------------------------------------------------
(* What the threads' steps do to a submesh.                                *)

(* Where a submesh waits for its requests of a type.                       *)
SendsEnd(c, e) ==
  e = <<c, "wait">> \/ (c = "dc_global_dof_indx" /\ e = <<"master", "wait_all">>)
ReceivesEnd(c, e) ==
  e = <<c, "receive">> \/ (c = "dc_global_dof_indx" /\ e = <<"master", "post_receive">>)

LEMMA ActiveOn ==
  ASSUME NEW c \in CommTypes, NEW e, NEW f, Follows(e, f)
  PROVE  /\ Sending(c, e) /\ ~SendsEnd(c, e) => Sending(c, f)
         /\ Receiving(c, e) /\ ~ReceivesEnd(c, e) => Receiving(c, f)
         /\ e = <<c, "exchange">> => Sending(c, f) /\ Receiving(c, f)
         /\ e = ReceiveAllHere => Receiving("dc_global_dof_indx", f)
         /\ e = SendAllHere => Sending("dc_global_dof_indx", f)
<1>1. c \in WithWork \cup WithoutWork \cup {"dc_global_dof_indx"}
  BY GnOmpiAssumption DEF WithWork, WithoutWork
<1>2. Sending(c, e) /\ ~SendsEnd(c, e) => Sending(c, f)
  BY <1>1 DEF Follows, Sending, SendsEnd, WithWork, WithoutWork
<1>3. Receiving(c, e) /\ ~ReceivesEnd(c, e) => Receiving(c, f)
  BY <1>1 DEF Follows, Receiving, ReceivesEnd, WithWork, WithoutWork, SendAllHere
<1>4. e = <<c, "exchange">> => Sending(c, f) /\ Receiving(c, f)
  BY <1>1 DEF Follows, Sending, Receiving, WithWork, WithoutWork
<1>5. e = ReceiveAllHere => Receiving("dc_global_dof_indx", f)
  BY DEF Follows, Receiving, ReceiveAllHere, SendAllHere, WithWork, WithoutWork
<1>6. e = SendAllHere => Sending("dc_global_dof_indx", f)
  BY DEF Follows, Sending, SendAllHere, WithWork, WithoutWork
<1> QED BY <1>2, <1>3, <1>4, <1>5, <1>6

(* A submesh goes on with its requests, and those of the types it starts.  *)
LEMMA RequestsOn ==
  ASSUME NEW w \in Unit, Requests(w), CommTypeOK, CommTypeOK',
         Pos(w) \in 1 .. Done - 1, Pos(w)' = Pos(w) + 1,
         \A s \in send_requests' : s[1] = w =>
           (s \in send_requests /\ ~SendsEnd(s[3], Here(w))) \/ Sending(s[3], Place(Pos(w) + 1)),
         \A s \in receive_requests' : s[1] = w =>
           (s \in receive_requests /\ ~ReceivesEnd(s[3], Here(w))) \/ Receiving(s[3], Place(Pos(w) + 1))
  PROVE  Requests(w)'
<1>1. Here(w)' = Place(Pos(w) + 1) /\ Follows(Here(w), Place(Pos(w) + 1))
  BY Path DEF Here
<1>2. ASSUME NEW s \in send_requests', s[1] = w PROVE Sending(s[3], Here(w)')
  <2>1. s[3] \in CommTypes
    BY DEF CommTypeOK, Slots
  <2>2. s \in send_requests => Sending(s[3], Here(w))
    BY <1>2 DEF Requests
  <2> QED BY <1>1, <1>2, <2>1, <2>2, ActiveOn
<1>3. ASSUME NEW s \in receive_requests', s[1] = w PROVE Receiving(s[3], Here(w)')
  <2>1. s[3] \in CommTypes
    BY DEF CommTypeOK, Slots
  <2>2. s \in receive_requests => Receiving(s[3], Here(w))
    BY <1>3 DEF Requests
  <2> QED BY <1>1, <1>3, <2>1, <2>2, ActiveOn
<1> QED BY <1>2, <1>3 DEF Requests

(* The send buffer holds the owner's numbers from finalize on.             *)
LEMMA BufferedOn ==
  ASSUME NEW w \in Unit, Buffered(w), Pos(w) \in 1 .. Done - 1, Pos(w)' = Pos(w) + 1,
         IF Here(w) = <<"master", "finalize">> /\ OwnedEdges(w) # {}
         THEN send_buffer'[w]["dc_global_dof_indx"] = Pos(w)
         ELSE send_buffer'[w]["dc_global_dof_indx"] = send_buffer[w]["dc_global_dof_indx"]
  PROVE  Buffered(w)'
<1> DEFINE e == Here(w)
           f == Place(Pos(w) + 1)
           b == send_buffer[w]["dc_global_dof_indx"]
           d == send_buffer'[w]["dc_global_dof_indx"]
<1>1. Here(w)' = f /\ Follows(e, f) /\ Done \in Nat /\ Pos(w) + 1 \in 1 .. Done
  BY Path DEF Here
<1>2. ASSUME f \in BeforeFinal PROVE d = -1
  <2>1. e \in BeforeFinal /\ e # <<"master", "finalize">>
    BY <1>1, <1>2 DEF Follows, BeforeFinal, WithWork, WithoutWork
  <2> QED BY <2>1 DEF Buffered
<1>3. ASSUME f = <<"master", "receive_all">> PROVE d = Stamp(w, Pos(w)' + 1)
  <2>1. e = <<"master", "finalize">>
    BY <1>1, <1>3 DEF Follows, WithWork, WithoutWork
  <2>2. b = -1
    BY <2>1 DEF Buffered, BeforeFinal
  <2>3. Pos(w) + 1 # Done
    BY <1>3, Path
  <2>4. Follows(f, Place((Pos(w) + 1) + 1))
    BY <1>1, <2>3, Path
  <2>5. Place((Pos(w) + 1) + 1) = SendAllHere
    BY <1>3, <2>4 DEF Follows, SendAllHere, WithWork, WithoutWork
  <2>6. ((Pos(w) + 1) + 1) - 2 = Pos(w)
    BY <1>1
  <2>7. Stamp(w, Pos(w)' + 1) = IF OwnedEdges(w) = {} THEN -1 ELSE Pos(w)
    BY <2>5, <2>6 DEF Stamp
  <2> QED BY <2>1, <2>2, <2>7
<1>4. ASSUME f = SendAllHere PROVE d = Stamp(w, Pos(w)')
  <2>1. e = <<"master", "receive_all">>
    BY <1>1, <1>4 DEF Follows, SendAllHere, WithWork, WithoutWork
  <2> QED BY <2>1 DEF Buffered
<1> QED BY <1>1, <1>2, <1>3, <1>4 DEF Buffered

(* The largest of a set.                                                   *)
LEMMA MaxIs ==
  ASSUME NEW S, NEW m \in S, \A s \in S : s \in Int, \A s \in S : s <= m
  PROVE  Max(S) = m
<1>1. \A s \in S : m >= s
  OBVIOUS
<1>2. \A x \in S : (\A s \in S : x >= s) => x = m
  OBVIOUS
<1> QED BY <1>1, <1>2 DEF Max

LEMMA PlacesAre ==
  ASSUME NEW e
  PROVE  Places(e) = {p \in 1 .. Done - 1 : Place(p) = e}
BY Path DEF Places

(* A receive place and the exchange place before it.                       *)
LEMMA ReceiveAfter ==
  ASSUME NEW c \in CommTypes, NEW p \in 1 .. Done - 1, Place(p) = <<c, "receive">>
  PROVE  \E x \in SendPlaces :
           /\ TypeAt(x) = c /\ \A v : Stamp(v, x) = x
           /\ Rounds(x) + 1 = AskedAt(p)
           /\ LastBefore(p, ExchangePlaces[c]) = x
<1>0. Done \in Nat /\ p \in 1 .. Done /\ p # 1
  BY Path
<1>1. p - 1 \in 1 .. Done - 1 /\ (p - 1) + 1 = p
  BY <1>0
<1>2. Follows(Place(p - 1), <<c, "receive">>)
  BY <1>1, Path
<1>3. \/ c \in WithWork /\ Place(p - 1) = <<c, "work">>
      \/ c \in WithoutWork /\ Place(p - 1) = <<c, "exchange">>
  BY <1>2 DEF Follows, WithWork, WithoutWork
<1>4. ASSUME NEW x \in 1 .. Done - 1, Place(x) = <<c, "exchange">>, x < p,
             \A i \in 1 .. Done - 1 : x < i /\ i < p => Place(i) = <<c, "work">>,
             Rounds(p) = Rounds(x) + 1
      PROVE  /\ x \in SendPlaces /\ TypeAt(x) = c /\ (\A v : Stamp(v, x) = x)
             /\ Rounds(x) + 1 = AskedAt(p)
             /\ LastBefore(p, ExchangePlaces[c]) = x
  <2>1. x \in SendPlaces /\ TypeAt(x) = c /\ \A v : Stamp(v, x) = x
    BY <1>4 DEF SendPlaces, TypeAt, Stamp, SendAllHere
  <2>2. AskedAt(p) = Rounds(p)
    BY DEF AskedAt, SendAllHere
  <2>3. ExchangePlaces[c] = {i \in 1 .. Done - 1 : Place(i) = <<c, "exchange">>}
    BY PlacesAre DEF ExchangePlaces
  <2> DEFINE S == {i \in ExchangePlaces[c] : i < p}
  <2>4. x \in S /\ \A i \in S : i \in Int
    BY <1>0, <1>4, <2>3
  <2>5. \A i \in S : i <= x
    BY <1>0, <1>4, <2>3
  <2> HIDE DEF S
  <2>6. Max(S) = x
    BY <2>4, <2>5, MaxIs
  <2> QED BY <1>4, <2>1, <2>2, <2>6 DEF LastBefore, S
<1>5. CASE c \in WithoutWork /\ Place(p - 1) = <<c, "exchange">>
  <2>1. p - 1 \in SendPlaces /\ p - 1 \in 1 .. Done
    BY <1>0, <1>1, <1>5 DEF SendPlaces
  <2>2. Rounds(p) = Rounds(p - 1) + 1
    BY <1>1, <2>1, RoundStep
  <2>3. p - 1 < p /\ \A i \in 1 .. Done - 1 : ~(p - 1 < i /\ i < p)
    BY <1>0
  <2> QED BY <1>1, <1>4, <1>5, <2>2, <2>3
<1>6. CASE c \in WithWork /\ Place(p - 1) = <<c, "work">>
  <2>1. p - 1 # 1
    BY <1>6, Path
  <2>2. p - 2 \in 1 .. Done - 1 /\ (p - 2) + 1 = p - 1
    BY <1>0, <1>1, <2>1
  <2>3. Follows(Place(p - 2), <<c, "work">>)
    BY <1>6, <2>2, Path
  <2>4. Place(p - 2) = <<c, "exchange">>
    BY <1>6, <2>3 DEF Follows, WithWork, WithoutWork
  <2>5. p - 2 \in SendPlaces /\ p - 1 \notin SendPlaces
    BY <1>6, <2>2, <2>4 DEF SendPlaces, SendAllHere
  <2>6. Rounds(p - 1) = Rounds(p - 2) + 1
    BY <2>2, <2>5, RoundStep
  <2>7. Rounds(p) = Rounds(p - 1)
    BY <1>1, <2>5, RoundStep
  <2>8. p - 2 < p /\ \A i \in 1 .. Done - 1 : p - 2 < i /\ i < p => i = p - 1
    BY <1>0
  <2>9. \A i \in 1 .. Done - 1 : p - 2 < i /\ i < p => Place(i) = <<c, "work">>
    BY <1>6, <2>8
  <2>10. Rounds(p) = Rounds(p - 2) + 1
    BY <2>6, <2>7
  <2> QED BY <1>4, <2>2, <2>4, <2>8, <2>9, <2>10
<1> QED BY <1>3, <1>5, <1>6

(* Going on to the next place passes this one.                             *)
LEMMA PassedOn ==
  ASSUME NEW w \in Unit, NEW S \in SUBSET (1 .. Done), Pos(w) \in 1 .. Done - 1, Pos(w)' = Pos(w) + 1
  PROVE  PassedBy(w, S)' = IF Pos(w) \in S THEN PassedBy(w, S) \cup {Pos(w)} ELSE PassedBy(w, S)
<1>0. Pos(w) \in Int /\ \A p \in S : p \in Int
  <2> DEFINE v == Pos(w)
  <2>1. Done \in Int /\ v \in 1 .. Done - 1 /\ \A p \in S : p \in 1 .. Done
    BY Path
  <2> HIDE DEF v
  <2>2. v \in Int /\ \A p \in S : p \in Int
    BY <2>1
  <2> QED BY <2>2 DEF v
<1>1. \A p \in S : p < Pos(w) + 1 <=> (p < Pos(w) \/ p = Pos(w))
  BY <1>0
<1>2. PassedBy(w, S)' = {p \in S : p < Pos(w) + 1} /\ PassedBy(w, S) = {p \in S : p < Pos(w)}
  BY DEF PassedBy
<1> QED BY <1>1, <1>2

LEMMA ReceivePlacesAre ==
  ASSUME NEW c \in CommTypes
  PROVE  /\ ReceivePlaces[c] \in SUBSET (1 .. Done)
         /\ \A p \in 1 .. Done - 1 : p \in ReceivePlaces[c] <=> Place(p) = <<c, "receive">>
<1>1. ReceivePlaces[c] = {p \in 1 .. Done - 1 : Place(p) = <<c, "receive">>}
  BY PlacesAre DEF ReceivePlaces
<1> QED BY <1>1, Path

LEMMA StoredOn ==
  ASSUME NEW w \in Unit, StoredOK(w), Pos(w) \in 1 .. Done - 1, Pos(w)' = Pos(w) + 1,
         Here(w)[2] # "receive",
         \A v \in Neigh[w] : \A c \in CommTypes : stored'[<<w, v, c>>] = stored[<<w, v, c>>]
  PROVE  StoredOK(w)'
<1>1. ASSUME NEW c \in CommTypes PROVE PassedBy(w, ReceivePlaces[c])' = PassedBy(w, ReceivePlaces[c])
  <2>1. Pos(w) \notin ReceivePlaces[c]
    BY ReceivePlacesAre DEF Here
  <2>2. ReceivePlaces[c] \in SUBSET (1 .. Done)
    BY ReceivePlacesAre
  <2> DEFINE S == ReceivePlaces[c]
  <2> HIDE DEF S
  <2>3. S \in SUBSET (1 .. Done) /\ Pos(w) \notin S
    BY <2>1, <2>2 DEF S
  <2>4. PassedBy(w, S)' = PassedBy(w, S)
    BY <2>3, PassedOn
  <2> QED BY <2>4 DEF S
<1> QED BY <1>1 DEF StoredOK

(* What is taken from the receive buffer is of the loop just before.       *)
LEMMA StoredReceived ==
  ASSUME Linked, NEW w \in Unit, StoredOK(w), Pos(w) \in 1 .. Done - 1, Pos(w)' = Pos(w) + 1,
         NEW c \in CommTypes, Here(w) = <<c, "receive">>, UnitSlots(w, c) \cap unreceived = {},
         \A v \in Neigh[w] : \A d \in CommTypes :
           stored'[<<w, v, d>>] = IF d = c THEN receive_buffer[<<w, v, d>>] ELSE stored[<<w, v, d>>]
  PROVE  StoredOK(w)'
<1> DEFINE p == Pos(w)
<1>1. ASSUME NEW d \in CommTypes, d # c PROVE PassedBy(w, ReceivePlaces[d])' = PassedBy(w, ReceivePlaces[d])
  <2>1. Pos(w) \notin ReceivePlaces[d]
    BY <1>1, ReceivePlacesAre DEF Here
  <2>2. ReceivePlaces[d] \in SUBSET (1 .. Done)
    BY ReceivePlacesAre
  <2> QED BY <2>1, <2>2, PassedOn
<1>2. Max(PassedBy(w, ReceivePlaces[c])') = p
  <2> DEFINE S == ReceivePlaces[c]
             T == PassedBy(w, S)'
  <2>1. p \in S /\ S \in SUBSET (1 .. Done)
    BY ReceivePlacesAre DEF Here
  <2>2. T = {q \in S : q < p + 1}
    BY DEF PassedBy
  <2>3. p \in T /\ (\A q \in T : q \in Int) /\ \A q \in T : q <= p
    BY <2>1, <2>2, Path
  <2> HIDE DEF T
  <2>4. Max(T) = p
    BY <2>3, MaxIs
  <2> QED BY <2>4 DEF T
<1>3. ASSUME NEW v \in Neigh[w]
      PROVE  receive_buffer[<<w, v, c>>] = Written(v, w, c, LastBefore(p, ExchangePlaces[c]))
  <2>1. Place(p) = <<c, "receive">>
    BY DEF Here
  <2>2. PICK x \in SendPlaces :
          /\ TypeAt(x) = c /\ (\A a : Stamp(a, x) = x)
          /\ Rounds(x) + 1 = AskedAt(p)
          /\ LastBefore(p, ExchangePlaces[c]) = x
    BY <2>1, ReceiveAfter
  <2>3. v \in Unit /\ Arrived(v, w)
    BY EnvelopeOf DEF Linked, Link
  <2>4. <<w, v, c>> \in UnitSlots(w, c)
    BY <2>3 DEF UnitSlots, Slots
  <2>5. <<w, v, TypeAt(x)>> \notin unreceived /\ Rounds(x) + 1 = Asked(w)
    BY <2>2, <2>4 DEF Asked
  <2>6. receive_buffer[<<w, v, TypeAt(x)>>] = Written(v, w, TypeAt(x), Stamp(v, x))
    BY <2>3, <2>5 DEF Arrived
  <2> QED BY <2>2, <2>6
<1> QED BY <1>1, <1>2, <1>3 DEF StoredOK

(* A submesh that stays where it is.                                       *)
LEMMA UnitStays ==
  ASSUME NEW a \in Unit, UnitOK(a), Pos(a)' = Pos(a),
         \A s \in send_requests' : s[1] = a => s \in send_requests,
         \A s \in receive_requests' : s[1] = a => s \in receive_requests,
         send_buffer'[a] = send_buffer[a],
         \A v \in Neigh[a] : \A c \in CommTypes : stored'[<<a, v, c>>] = stored[<<a, v, c>>]
  PROVE  UnitOK(a)'
<1>1. Here(a)' = Here(a)
  BY DEF Here
<1>2. Requests(a)'
  BY <1>1 DEF UnitOK, Requests
<1>3. Buffered(a)'
  BY <1>1 DEF UnitOK, Buffered
<1>4. StoredOK(a)'
  BY DEF UnitOK, StoredOK, PassedBy
<1> QED BY <1>2, <1>3, <1>4 DEF UnitOK

(* A step that does not concern the communicator, of the submeshes in S.   *)
IdleEntry(e) ==
  /\ QuietEntry(e) /\ e[2] \notin {"receive", "wait"}
  /\ e \notin {<<"master", "finalize">>, <<"master", "post_receive">>, <<"master", "wait_all">>}

LEMMA IdleCInv ==
  ASSUME TInv, CInv, NEW S \in SUBSET Unit, Moved(S),
         \A u \in S : Pos(u) \in 1 .. Done - 1 /\ IdleEntry(Here(u)),
         UNCHANGED <<commVars, stored>>
  PROVE  CInv'
<1>1. \A u \in Unit : Sent(u)' = Sent(u) /\ Asked(u)' = Asked(u)
  BY QuietRounds DEF TInv, IdleEntry
<1>2. Linked' /\ CommTypeOK /\ CommTypeOK'
  <2>1. CommTypeOK
    BY DEF CInv, Linked
  <2>2. send_requests \subseteq Slots /\ receive_requests \subseteq Slots
        /\ unsent \subseteq send_requests /\ unreceived \subseteq receive_requests
    BY <2>1 DEF CommTypeOK
  <2>3. Linked'
    BY <1>1, <2>2, QuietLinks DEF CInv, commVars
  <2> QED BY <2>1, <2>3 DEF Linked
<1>3. ASSUME NEW a \in Unit PROVE UnitOK(a)'
  <2>0. UnitOK(a)
    BY DEF CInv
  <2>1. CASE a \notin S
    <3>1. Pos(a)' = Pos(a)
      BY <2>1 DEF Moved
    <3> QED BY <2>0, <3>1, UnitStays DEF commVars
  <2>2. CASE a \in S
    <3>1. Pos(a)' = Pos(a) + 1 /\ Pos(a) \in 1 .. Done - 1 /\ IdleEntry(Here(a))
      BY <2>2 DEF Moved
    <3>2. Requests(a)'
      <4>1. \A c : ~SendsEnd(c, Here(a)) /\ ~ReceivesEnd(c, Here(a))
        BY <3>1 DEF SendsEnd, ReceivesEnd, IdleEntry
      <4> QED BY <1>2, <2>0, <3>1, <4>1, RequestsOn DEF UnitOK, commVars
    <3>3. Buffered(a)'
      <4>1. Here(a) # <<"master", "finalize">>
        BY <3>1 DEF IdleEntry
      <4> QED BY <2>0, <3>1, <4>1, BufferedOn DEF UnitOK, commVars
    <3>4. StoredOK(a)'
      <4>1. Here(a)[2] # "receive"
        BY <3>1 DEF IdleEntry
      <4> QED BY <2>0, <3>1, <4>1, StoredOn DEF UnitOK
    <3> QED BY <3>2, <3>3, <3>4 DEF UnitOK
  <2> QED BY <2>1, <2>2
<1> QED BY <1>2, <1>3 DEF CInv

(* The step of one submesh.                                                *)
OthersKept(w) ==
  /\ \A s \in send_requests' : s[1] # w => s \in send_requests
  /\ \A s \in receive_requests' : s[1] # w => s \in receive_requests
  /\ \A a \in Unit \ {w} : send_buffer'[a] = send_buffer[a]
  /\ \A a \in Unit \ {w} : \A v \in Neigh[a] : \A c \in CommTypes :
       stored'[<<a, v, c>>] = stored[<<a, v, c>>]

LEMMA OneMoves ==
  ASSUME CInv, NEW w \in Unit, Moved({w}), Linked', UnitOK(w)', OthersKept(w)
  PROVE  CInv'
<1>1. ASSUME NEW a \in Unit, a # w PROVE UnitOK(a)'
  <2>1. UnitOK(a) /\ Pos(a)' = Pos(a)
    BY <1>1 DEF CInv, Moved
  <2>2. /\ \A s \in send_requests' : s[1] = a => s \in send_requests
        /\ \A s \in receive_requests' : s[1] = a => s \in receive_requests
    BY <1>1 DEF OthersKept
  <2>3. /\ send_buffer'[a] = send_buffer[a]
        /\ \A v \in Neigh[a] : \A c \in CommTypes : stored'[<<a, v, c>>] = stored[<<a, v, c>>]
    BY <1>1 DEF OthersKept
  <2> QED BY <2>1, <2>2, <2>3, UnitStays
<1> QED BY <1>1 DEF CInv

LEMMA ExchangeCInv ==
  ASSUME FewSubmeshes, TInv, CInv, NEW th \in Threads, NEW w \in Unit, ExchangeLoop(th, w)
  PROVE  CInv'
<1> DEFINE c == Type(th)
<1>1. Linked /\ UnitOK(w) /\ Requests(w)
  BY DEF CInv, UnitOK
<1>2. /\ Linked' /\ Moved({w}) /\ Pos(w) \in 1 .. Done - 1 /\ Here(w) = <<c, "exchange">>
      /\ c \in CommTypes /\ c # "dc_global_dof_indx"
  BY <1>1, ExchangeLinks
<1>3. Pos(w)' = Pos(w) + 1 /\ CommTypeOK /\ CommTypeOK'
  BY <1>1, <1>2 DEF Moved, Linked
<1>4. /\ send_requests' = send_requests \cup UnitSlots(w, c)
      /\ receive_requests' = receive_requests \cup UnitSlots(w, c)
      /\ SetToSendBuffer(w, c, pc[th]) /\ stored' = stored
  BY DEF ExchangeLoop, ExchangeBody, SendAll, ReceiveAll
<1>5. Follows(Here(w), Place(Pos(w) + 1))
  BY <1>2, Path DEF Here
<1>6. Sending(c, Place(Pos(w) + 1)) /\ Receiving(c, Place(Pos(w) + 1))
  BY <1>2, <1>5, ActiveOn
<1> HIDE DEF c
<1>7. Requests(w)'
  <2>1. \A d : ~SendsEnd(d, Here(w)) /\ ~ReceivesEnd(d, Here(w))
    BY <1>2 DEF SendsEnd, ReceivesEnd
  <2>2. \A s \in UnitSlots(w, c) : s[3] = c
    BY DEF UnitSlots
  <2>3. \A s \in send_requests' : s[1] = w =>
          (s \in send_requests /\ ~SendsEnd(s[3], Here(w))) \/ Sending(s[3], Place(Pos(w) + 1))
    BY <1>4, <1>6, <2>1, <2>2
  <2>4. \A s \in receive_requests' : s[1] = w =>
          (s \in receive_requests /\ ~ReceivesEnd(s[3], Here(w))) \/ Receiving(s[3], Place(Pos(w) + 1))
    BY <1>4, <1>6, <2>1, <2>2
  <2> QED BY <1>1, <1>2, <1>3, <2>3, <2>4, RequestsOn
<1>8. /\ send_buffer'[w]["dc_global_dof_indx"] = send_buffer[w]["dc_global_dof_indx"]
      /\ \A a \in Unit \ {w} : send_buffer'[a] = send_buffer[a]
  BY <1>2, <1>3, <1>4, GnOmpiAssumption DEF SetToSendBuffer, CommTypeOK
<1>9. Buffered(w)'
  <2>1. Here(w) # <<"master", "finalize">>
    BY <1>2
  <2> QED BY <1>1, <1>2, <1>3, <1>8, <2>1, BufferedOn DEF UnitOK
<1>10. StoredOK(w)'
  <2>1. Here(w)[2] # "receive"
    BY <1>2
  <2> QED BY <1>1, <1>2, <1>3, <1>4, <2>1, StoredOn DEF UnitOK
<1>11. OthersKept(w)
  <2>1. \A s \in UnitSlots(w, c) : s[1] = w
    BY DEF UnitSlots
  <2> QED BY <1>4, <1>8, <2>1 DEF OthersKept
<1> QED BY <1>2, <1>7, <1>9, <1>10, <1>11, OneMoves DEF UnitOK

(* Waiting for the requests of a type.                                     *)
LEMMA WaitCInv ==
  ASSUME TInv, CInv, NEW w \in Unit, NEW c, NEW e, Here(w) = e, QuietEntry(e),
         e # <<"master", "finalize">>, Moved({w}), Pos(w) \in 1 .. Done - 1,
         \/ WaitReceivesBody(w, c) /\ (\A d : ~SendsEnd(d, e)) /\ \A d : ReceivesEnd(d, e) => d = c
         \/ WaitSendsBody(w, c) /\ (\A d : ~ReceivesEnd(d, e)) /\ \A d : SendsEnd(d, e) => d = c,
         StoredOK(w)',
         \A a \in Unit \ {w} : \A v \in Neigh[a] : \A d \in CommTypes :
           stored'[<<a, v, d>>] = stored[<<a, v, d>>]
  PROVE  CInv'
<1>1. \A u \in Unit : Sent(u)' = Sent(u) /\ Asked(u)' = Asked(u)
  <2>1. \A u \in {w} : Pos(u) \in 1 .. Done - 1 /\ QuietEntry(Here(u))
    OBVIOUS
  <2> QED BY <2>1, QuietRounds DEF TInv
<1>2. Linked' /\ CommTypeOK /\ CommTypeOK' /\ UnitOK(w)
  <2>1. Linked'
    BY <1>1, WaitLinks DEF CInv
  <2> QED BY <2>1 DEF CInv, Linked
<1>3. /\ send_requests' \subseteq send_requests /\ receive_requests' \subseteq receive_requests
      /\ send_buffer' = send_buffer
  BY DEF WaitReceivesBody, WaitSendsBody, WaitAllReceives, WaitAllSends
<1>4. /\ \A s \in send_requests' : s[1] = w => ~SendsEnd(s[3], e)
      /\ \A s \in receive_requests' : s[1] = w => ~ReceivesEnd(s[3], e)
  <2>1. CASE WaitReceivesBody(w, c) /\ (\A d : ~SendsEnd(d, e)) /\ \A d : ReceivesEnd(d, e) => d = c
    <3>1. receive_requests' = receive_requests \ UnitSlots(w, c)
      BY <2>1 DEF WaitReceivesBody, WaitAllReceives
    <3>2. \A s \in receive_requests' : s[1] = w => s[3] # c
      BY <1>2, <3>1 DEF UnitSlots, CommTypeOK
    <3> QED BY <2>1, <3>2
  <2>2. CASE WaitSendsBody(w, c) /\ (\A d : ~ReceivesEnd(d, e)) /\ \A d : SendsEnd(d, e) => d = c
    <3>1. send_requests' = send_requests \ UnitSlots(w, c)
      BY <2>2 DEF WaitSendsBody, WaitAllSends
    <3>2. \A s \in send_requests' : s[1] = w => s[3] # c
      BY <1>2, <3>1 DEF UnitSlots, CommTypeOK
    <3> QED BY <2>2, <3>2
  <2> QED BY <2>1, <2>2
<1>5. Pos(w)' = Pos(w) + 1
  BY DEF Moved
<1>6. Requests(w)'
  <2>1. Requests(w)
    BY <1>2 DEF UnitOK
  <2>2. \A s \in send_requests' : s[1] = w => s \in send_requests /\ ~SendsEnd(s[3], Here(w))
    BY <1>3, <1>4
  <2>3. \A s \in receive_requests' : s[1] = w => s \in receive_requests /\ ~ReceivesEnd(s[3], Here(w))
    BY <1>3, <1>4
  <2> QED BY <1>2, <1>5, <2>1, <2>2, <2>3, RequestsOn
<1>7. Buffered(w)'
  BY <1>2, <1>3, <1>5, BufferedOn DEF UnitOK
<1>8. OthersKept(w)
  BY <1>3 DEF OthersKept
<1> QED BY <1>2, <1>6, <1>7, <1>8, OneMoves DEF UnitOK

LEMMA ReceiveCInv ==
  ASSUME TInv, CInv, NEW th \in Threads, NEW w \in Unit, ReceiveLoop(th, w)
  PROVE  CInv' /\ TInv' /\ Moved({w})
<1> DEFINE c == Type(th)
<1>1. /\ Body(th, w) /\ At(th)[2] = "receive" /\ WaitReceivesBody(w, c)
      /\ stored' = [s \in Slots |-> IF s[1] = w /\ s[3] = c THEN receive_buffer[s] ELSE stored[s]]
  BY DEF ReceiveLoop, Part
<1>2. ~Unlooped(At(th)) /\ At(th) = <<c, "receive">> /\ c \in CommTypes /\ c # "master"
  BY <1>1, LoopEntry DEF TInv, Type
<1>3. TInv' /\ Moved({w}) /\ Here(w) = At(th) /\ Pos(w) \in 1 .. Done - 1
  BY <1>1, <1>2, BodyMoves
<1> HIDE DEF c
<1>4. Here(w) = <<c, "receive">> /\ Linked /\ StoredOK(w) /\ Pos(w)' = Pos(w) + 1
  BY <1>2, <1>3 DEF CInv, UnitOK, Moved
<1>5. UnitSlots(w, c) \cap unreceived = {}
  BY <1>1 DEF WaitReceivesBody, WaitAllReceives
<1>6. ASSUME NEW a \in Unit, NEW v \in Neigh[a], NEW d \in CommTypes
      PROVE  stored'[<<a, v, d>>] = IF a = w /\ d = c THEN receive_buffer[<<a, v, d>>] ELSE stored[<<a, v, d>>]
  <2>1. <<a, v, d>> \in Slots
    BY EnvelopeOf DEF Slots
  <2> QED BY <1>1, <2>1
<1>7. StoredOK(w)'
  BY <1>2, <1>3, <1>4, <1>5, <1>6, StoredReceived
<1>8. QuietEntry(<<c, "receive">>) /\ <<c, "receive">> # <<"master", "finalize">>
  BY DEF QuietEntry, SendAllHere, ReceiveAllHere
<1>9. (\A d : ~SendsEnd(d, <<c, "receive">>)) /\ \A d : ReceivesEnd(d, <<c, "receive">>) => d = c
  BY DEF SendsEnd, ReceivesEnd
<1>10. \A a \in Unit \ {w} : \A v \in Neigh[a] : \A d \in CommTypes :
         stored'[<<a, v, d>>] = stored[<<a, v, d>>]
  BY <1>6
<1> QED BY <1>1, <1>3, <1>4, <1>7, <1>8, <1>9, <1>10, WaitCInv

LEMMA WaitLoopCInv ==
  ASSUME TInv, CInv, NEW th \in Threads, NEW w \in Unit, WaitLoop(th, w)
  PROVE  CInv' /\ TInv' /\ Moved({w})
<1> DEFINE c == Type(th)
<1>1. Body(th, w) /\ At(th)[2] = "wait" /\ WaitSendsBody(w, c) /\ stored' = stored
  BY DEF WaitLoop, Part
<1>2. ~Unlooped(At(th)) /\ At(th) = <<c, "wait">>
  BY <1>1, LoopEntry DEF TInv, Type
<1>3. TInv' /\ Moved({w}) /\ Here(w) = At(th) /\ Pos(w) \in 1 .. Done - 1
  BY <1>1, <1>2, BodyMoves
<1> HIDE DEF c
<1>4. Here(w) = <<c, "wait">> /\ StoredOK(w) /\ Pos(w)' = Pos(w) + 1
  BY <1>2, <1>3 DEF CInv, UnitOK, Moved
<1>5. StoredOK(w)'
  <2>1. Here(w)[2] # "receive"
    BY <1>4
  <2> QED BY <1>1, <1>3, <1>4, <2>1, StoredOn
<1>6. QuietEntry(<<c, "wait">>) /\ <<c, "wait">> # <<"master", "finalize">>
  BY DEF QuietEntry, SendAllHere, ReceiveAllHere
<1>7. (\A d : ~ReceivesEnd(d, <<c, "wait">>)) /\ \A d : SendsEnd(d, <<c, "wait">>) => d = c
  BY DEF SendsEnd, ReceivesEnd
<1> QED BY <1>1, <1>3, <1>4, <1>5, <1>6, <1>7, WaitCInv

LEMMA MasterWaitCInv ==
  ASSUME TInv, CInv, NEW th \in Threads, NEW w \in Unit, PostReceive(th, w) \/ MasterWait(th, w)
  PROVE  CInv' /\ TInv' /\ Moved({w})
<1> DEFINE c == "dc_global_dof_indx"
           e == At(th)
<1>1. /\ Body(th, w) /\ stored' = stored
      /\ \/ e = <<"master", "post_receive">> /\ WaitReceivesBody(w, c)
         \/ e = <<"master", "wait_all">> /\ WaitSendsBody(w, c)
  BY DEF PostReceive, MasterWait
<1>2. ~Unlooped(At(th))
  BY <1>1 DEF Unlooped
<1>3. TInv' /\ Moved({w}) /\ Here(w) = e /\ Pos(w) \in 1 .. Done - 1
  BY <1>1, <1>2, BodyMoves
<1>4. StoredOK(w) /\ Pos(w)' = Pos(w) + 1
  BY <1>3 DEF CInv, UnitOK, Moved
<1>5. StoredOK(w)'
  <2>1. Here(w)[2] # "receive"
    BY <1>1, <1>3
  <2> QED BY <1>1, <1>3, <1>4, <2>1, StoredOn
<1>6. QuietEntry(e) /\ e # <<"master", "finalize">>
  BY <1>1 DEF QuietEntry, SendAllHere, ReceiveAllHere
<1>7. \/ WaitReceivesBody(w, c) /\ (\A d : ~SendsEnd(d, e)) /\ \A d : ReceivesEnd(d, e) => d = c
      \/ WaitSendsBody(w, c) /\ (\A d : ~ReceivesEnd(d, e)) /\ \A d : SendsEnd(d, e) => d = c
  BY <1>1 DEF SendsEnd, ReceivesEnd
<1> HIDE DEF c, e
<1> QED BY <1>1, <1>3, <1>5, <1>6, <1>7, WaitCInv

LEMMA FinalizeCInv ==
  ASSUME FewSubmeshes, TInv, CInv, NEW th \in Threads, NEW w \in Unit, Finalize(th, w)
  PROVE  CInv' /\ TInv' /\ Moved({w})
<1>1. Linked /\ UnitOK(w) /\ Requests(w)
  BY DEF CInv, UnitOK
<1>2. /\ Linked' /\ TInv' /\ Moved({w}) /\ Here(w) = At(th) /\ Pos(w) \in 1 .. Done - 1
      /\ send_buffer'[w]["dc_global_dof_indx"] =
           IF OwnedEdges(w) = {} THEN send_buffer[w]["dc_global_dof_indx"] ELSE Pos(w)
      /\ \A a \in Unit \ {w} : send_buffer'[a] = send_buffer[a]
  BY <1>1, FinalizeLinks
<1>3. /\ Here(w) = <<"master", "finalize">> /\ UNCHANGED <<send_requests, receive_requests, stored>>
      /\ Pos(w)' = Pos(w) + 1 /\ CommTypeOK /\ CommTypeOK'
  BY <1>1, <1>2 DEF Finalize, Moved, Linked
<1>4. Requests(w)'
  <2>1. \A d : ~SendsEnd(d, Here(w)) /\ ~ReceivesEnd(d, Here(w))
    BY <1>3 DEF SendsEnd, ReceivesEnd
  <2> QED BY <1>1, <1>2, <1>3, <2>1, RequestsOn
<1>5. Buffered(w)'
  BY <1>1, <1>2, <1>3, BufferedOn DEF UnitOK
<1>6. StoredOK(w)'
  <2>1. Here(w)[2] # "receive"
    BY <1>3
  <2> QED BY <1>1, <1>2, <1>3, <2>1, StoredOn DEF UnitOK
<1>7. OthersKept(w)
  BY <1>2, <1>3 DEF OthersKept
<1> QED BY <1>2, <1>4, <1>5, <1>6, <1>7, OneMoves DEF UnitOK

LEMMA StartCInv ==
  ASSUME FewSubmeshes, TInv, CInv, NEW th \in Threads, NEW w \in Unit,
         MasterReceiveAll(th, w) \/ MasterSendAll(th, w)
  PROVE  CInv' /\ TInv' /\ Moved({w})
<1> DEFINE c == "dc_global_dof_indx"
<1>1. Linked /\ UnitOK(w) /\ Requests(w) /\ Buffered(w)
  BY DEF CInv, UnitOK
<1>2. Linked' /\ TInv' /\ Moved({w}) /\ Here(w) = At(th) /\ Pos(w) \in 1 .. Done - 1
  BY <1>1, AllReceivesLinks, AllSendsLinks
<1>3. /\ Pos(w)' = Pos(w) + 1 /\ CommTypeOK /\ CommTypeOK'
      /\ send_buffer' = send_buffer /\ stored' = stored
  BY <1>1, <1>2 DEF MasterReceiveAll, MasterSendAll, Moved, Linked
<1>4. /\ Here(w) \in {ReceiveAllHere, SendAllHere}
      /\ send_requests' = IF Here(w) = SendAllHere THEN send_requests \cup UnitSlots(w, c) ELSE send_requests
      /\ receive_requests' = IF Here(w) = ReceiveAllHere THEN receive_requests \cup UnitSlots(w, c)
                             ELSE receive_requests
  BY <1>2 DEF MasterReceiveAll, MasterSendAll, ReceiveAll, SendAll, ReceiveAllHere, SendAllHere
<1>5. Follows(Here(w), Place(Pos(w) + 1)) /\ c \in CommTypes
  BY <1>2, Path, GnOmpiAssumption DEF Here
<1>6. /\ Here(w) = SendAllHere => Sending(c, Place(Pos(w) + 1))
      /\ Here(w) = ReceiveAllHere => Receiving(c, Place(Pos(w) + 1))
  BY <1>5, ActiveOn
<1>7. Requests(w)'
  <2>1. \A d : ~SendsEnd(d, Here(w)) /\ ~ReceivesEnd(d, Here(w))
    BY <1>4 DEF SendsEnd, ReceivesEnd, ReceiveAllHere, SendAllHere
  <2>2. \A s \in UnitSlots(w, c) : s[3] = c
    BY DEF UnitSlots
  <2> HIDE DEF c
  <2>3. \A s \in send_requests' : s[1] = w =>
          (s \in send_requests /\ ~SendsEnd(s[3], Here(w))) \/ Sending(s[3], Place(Pos(w) + 1))
    BY <1>4, <1>6, <2>1, <2>2
  <2>4. \A s \in receive_requests' : s[1] = w =>
          (s \in receive_requests /\ ~ReceivesEnd(s[3], Here(w))) \/ Receiving(s[3], Place(Pos(w) + 1))
    BY <1>4, <1>6, <2>1, <2>2
  <2> QED BY <1>1, <1>2, <1>3, <2>3, <2>4, RequestsOn
<1>8. Buffered(w)'
  <2>1. Here(w) # <<"master", "finalize">>
    BY <1>4 DEF ReceiveAllHere, SendAllHere
  <2> QED BY <1>1, <1>2, <1>3, <2>1, BufferedOn
<1>9. StoredOK(w)'
  <2>1. Here(w)[2] # "receive"
    BY <1>4 DEF ReceiveAllHere, SendAllHere
  <2> QED BY <1>1, <1>2, <1>3, <2>1, StoredOn DEF UnitOK
<1>10. OthersKept(w)
  <2>1. \A s \in UnitSlots(w, c) : s[1] = w
    BY DEF UnitSlots
  <2> QED BY <1>3, <1>4, <2>1 DEF OthersKept
<1> QED BY <1>2, <1>7, <1>8, <1>9, <1>10, OneMoves DEF UnitOK

(* The steps that do not concern the communicator.                         *)
LEMMA WorkCInv ==
  ASSUME TInv, CInv, NEW th \in Threads, NEW w \in Unit,
         \/ Local(th, w) \/ Scrutinize(th, w)
         \/ Condense(th, w) \/ Assemble(th, w) \/ Update(th, w)
  PROVE  CInv' /\ TInv' /\ Moved({w})
<1>1. /\ Body(th, w) /\ UNCHANGED <<commVars, stored>>
      /\ \/ At(th)[2] = "work"
         \/ At(th) \in {<<"dc", "condense">>, <<"master", "assemble">>, <<"dc", "update">>}
  BY DEF Local, Scrutinize, Condense, Assemble, Update, Part
<1>2. ~Unlooped(At(th)) /\ IdleEntry(At(th))
  <2>1. CASE At(th)[2] = "work"
    BY <2>1, LoopEntry DEF TInv, IdleEntry, QuietEntry, SendAllHere, ReceiveAllHere
  <2>2. CASE At(th) \in {<<"dc", "condense">>, <<"master", "assemble">>, <<"dc", "update">>}
    BY <2>2 DEF Unlooped, IdleEntry, QuietEntry, SendAllHere, ReceiveAllHere
  <2> QED BY <1>1, <2>1, <2>2
<1>3. TInv' /\ Moved({w}) /\ Here(w) = At(th) /\ Pos(w) \in 1 .. Done - 1
  BY <1>1, <1>2, BodyMoves
<1>4. \A u \in {w} : Pos(u) \in 1 .. Done - 1 /\ IdleEntry(Here(u))
  BY <1>2, <1>3
<1> QED BY <1>1, <1>3, <1>4, IdleCInv

LEMMA SectionCInv ==
  ASSUME TInv, CInv, NEW th \in Threads, Gather(th) \/ Scatter(th)
  PROVE  CInv' /\ TInv' /\ Moved(UnitsOn(th[1]))
<1>1. /\ At(th) \in {<<"master", "gather">>, <<"master", "scatter">>} /\ GoOn(th)
      /\ UNCHANGED <<commVars, stored>>
  BY DEF Gather, Scatter
<1>2. /\ TInv' /\ Moved(UnitsOn(th[1])) /\ pc[th] \in 1 .. Done - 1
      /\ \A u \in UnitsOn(th[1]) : Pos(u) = pc[th] /\ Here(u) = At(th)
  BY <1>1, SectionMoves
<1>3. IdleEntry(At(th))
  BY <1>1 DEF IdleEntry, QuietEntry, SendAllHere, ReceiveAllHere
<1>4. \A u \in UnitsOn(th[1]) : Pos(u) \in 1 .. Done - 1 /\ IdleEntry(Here(u))
  BY <1>2, <1>3
<1>5. UnitsOn(th[1]) \in SUBSET Unit
  BY DEF UnitsOn
<1> QED BY <1>1, <1>2, <1>4, <1>5, IdleCInv

LEMMA BarrierCInv ==
  ASSUME TInv, CInv, NEW l \in Ranks, Barrier(l)
  PROVE  CInv' /\ TInv' /\ Moved(UnitsOn(l))
<1>1. /\ TInv' /\ Moved(UnitsOn(l)) /\ pc[<<l, 0>>] \in 1 .. Done - 1
      /\ Place(pc[<<l, 0>>])[1] = "omp" /\ \A u \in UnitsOn(l) : Pos(u) = pc[<<l, 0>>]
  BY BarrierMoves
<1>2. IdleEntry(Place(pc[<<l, 0>>]))
  <2>1. Follows(Place(pc[<<l, 0>>]), Place(pc[<<l, 0>>] + 1))
    BY <1>1, Path
  <2>2. Place(pc[<<l, 0>>]) \in {<<"omp", "number">>, <<"omp", "numbered">>, <<"omp", "solve">>, <<"omp", "solved">>}
    BY <1>1, <2>1 DEF Follows, WithWork, WithoutWork
  <2> QED BY <2>2 DEF IdleEntry, QuietEntry, SendAllHere, ReceiveAllHere
<1>3. \A u \in UnitsOn(l) : Pos(u) \in 1 .. Done - 1 /\ IdleEntry(Here(u))
  BY <1>1, <1>2 DEF Here
<1>4. UnitsOn(l) \in SUBSET Unit /\ UNCHANGED <<commVars, stored>>
  BY DEF UnitsOn, Barrier
<1> QED BY <1>1, <1>3, <1>4, IdleCInv

LEMMA SolveCInv ==
  ASSUME TInv, CInv, Solve
  PROVE  CInv' /\ TInv' /\ Moved(Unit)
<1>1. TInv' /\ Moved(Unit) /\ \A u \in Unit : Here(u) = <<"master", "solve">> /\ Pos(u) \in 1 .. Done - 1
  BY SolveMoves
<1>2. IdleEntry(<<"master", "solve">>)
  BY DEF IdleEntry, QuietEntry, SendAllHere, ReceiveAllHere
<1>3. \A u \in Unit : Pos(u) \in 1 .. Done - 1 /\ IdleEntry(Here(u))
  BY <1>1, <1>2
<1>4. Unit \in SUBSET Unit /\ UNCHANGED <<commVars, stored>>
  BY DEF Solve
<1> QED BY <1>1, <1>3, <1>4, IdleCInv

(* A step that moves no thread and changes the communicator only.          *)
LEMMA MpiCInv ==
  ASSUME FewSubmeshes, TInv, CInv, Mpi
  PROVE  CInv' /\ TInv' /\ Moved({})
<1>1. MpiProgress /\ pc' = pc /\ su_id' = su_id /\ stored' = stored
  BY DEF Mpi, threadVars
<1>2. TInv' /\ Linked'
  BY <1>1, NoThreadMoves, MpiLinks DEF TInv, CInv
<1>3. UNCHANGED <<send_buffer, send_requests, receive_requests>>
  BY <1>1 DEF MpiProgress, Deliver, Buffer
<1>4. \A a \in Unit : Pos(a)' = Pos(a)
  BY <1>1, StandStill
<1>5. ASSUME NEW a \in Unit PROVE UnitOK(a)'
  BY <1>1, <1>3, <1>4, UnitStays DEF CInv
<1> QED BY <1>2, <1>4, <1>5 DEF CInv, Moved

LEMMA IdleStep ==
  ASSUME TInv, CInv, UNCHANGED vars
  PROVE  CInv' /\ TInv' /\ Moved({})
<1>1. pc' = pc /\ su_id' = su_id /\ UNCHANGED <<commVars, stored>>
  BY DEF vars, threadVars
<1>2. TInv'
  BY <1>1, NoThreadMoves
<1>3. Moved({})
  BY <1>1, StandStill DEF Moved
<1> QED BY <1>1, <1>2, <1>3, IdleCInv

LEMMA NextCInv ==
  ASSUME FewSubmeshes, TInv, CInv, [Next]_vars
  PROVE  CInv' /\ TInv'
<1>1. ASSUME NEW th \in Threads, ThreadStep(th) PROVE CInv' /\ TInv'
  <2>1. CASE Gather(th) \/ Scatter(th)
    BY <2>1, SectionCInv
  <2>2. ASSUME NEW u \in Unit, ExchangeLoop(th, u) PROVE CInv' /\ TInv'
    <3>1. Linked /\ Requests(u)
      BY DEF CInv, UnitOK
    <3> QED BY <2>2, <3>1, ExchangeCInv, ExchangeLinks
  <2>3. ASSUME NEW u \in Unit, ReceiveLoop(th, u) \/ WaitLoop(th, u) PROVE CInv' /\ TInv'
    BY <2>3, ReceiveCInv, WaitLoopCInv
  <2>4. ASSUME NEW u \in Unit, \/ Local(th, u) \/ Scrutinize(th, u) \/ Condense(th, u)
                               \/ Assemble(th, u) \/ Update(th, u)
        PROVE  CInv' /\ TInv'
    BY <2>4, WorkCInv
  <2>5. ASSUME NEW u \in Unit, Finalize(th, u) PROVE CInv' /\ TInv'
    BY <2>5, FinalizeCInv
  <2>6. ASSUME NEW u \in Unit, MasterReceiveAll(th, u) \/ MasterSendAll(th, u) PROVE CInv' /\ TInv'
    BY <2>6, StartCInv
  <2>7. ASSUME NEW u \in Unit, PostReceive(th, u) \/ MasterWait(th, u) PROVE CInv' /\ TInv'
    BY <2>7, MasterWaitCInv
  <2> QED BY <1>1, <2>1, <2>2, <2>3, <2>4, <2>5, <2>6, <2>7 DEF ThreadStep
<1>2. ASSUME NEW l \in Ranks, Barrier(l) PROVE CInv' /\ TInv'
  BY <1>2, BarrierCInv
<1>3. CASE Solve
  BY <1>3, SolveCInv
<1>4. CASE Mpi
  BY <1>4, MpiCInv
<1>5. CASE UNCHANGED vars
  BY <1>5, IdleStep
<1> QED BY <1>1, <1>2, <1>3, <1>4, <1>5 DEF Next, Progress, Terminated

LEMMA InitialData ==
  [s \in Slots |-> Written(s[2], s[1], s[3], -1)] \in [Slots -> Data]
<1>1. ASSUME NEW s \in Slots PROVE Written(s[2], s[1], s[3], -1) \in Data
  <2>1. s[2] \in Unit /\ s[1] \in Unit /\ s[3] \in CommTypes
    BY DEF Slots
  <2> QED BY <2>1 DEF Written, Data
<1> QED BY <1>1

LEMMA InitCInv ==
  ASSUME Init
  PROVE  TInv /\ CInv
<1>1. TInv /\ \A u \in Unit : Pos(u) = 1
  BY InitTInv
<1>2. /\ Done \in Nat /\ Done > 1 /\ Place(1) = <<"baryctr_coord", "exchange">>
      /\ CommInit /\ stored = [s \in Slots |-> Written(s[2], s[1], s[3], -1)]
  BY Path DEF Init
<1>3. Rounds(1) = 0 /\ AskedAt(1) = 0
  <2>1. \A x \in SendPlaces : x \in Nat /\ x >= 1
    BY <1>2 DEF SendPlaces
  <2>2. {x \in SendPlaces : x < 1} = {}
    BY <2>1
  <2>3. Rounds(1) = 0
    BY <2>2, FS_EmptySet DEF Rounds
  <2> QED BY <1>2, <2>3 DEF AskedAt, SendAllHere
<1>4. CommTypeOK
  <2>3. receive_buffer \in [Slots -> Data]
    BY <1>2, InitialData DEF CommInit
  <2>4. send_buffer \in [Unit -> [CommTypes -> Nat \cup {-1}]]
    BY <1>2 DEF CommInit
  <2>5. network \in [Envelopes -> Seq(Message)] /\ posted \in [Envelopes -> Seq(Slots)]
    BY <1>2 DEF CommInit
  <2> QED BY <1>2, <2>3, <2>4, <2>5 DEF CommInit, CommTypeOK
<1>5. \A u \in Unit : Sent(u) = 0 /\ Asked(u) = 0 /\ Here(u) = <<"baryctr_coord", "exchange">>
  BY <1>1, <1>2, <1>3 DEF Sent, Asked, Here
<1>6. ASSUME NEW v \in Unit, NEW u \in Neigh[v] PROVE Link(u, v)
  <2>1. u \in Unit /\ SendEnvelope(u, v) \in Envelopes
    BY EnvelopeOf
  <2> DEFINE e == SendEnvelope(u, v)
  <2>2. network[e] = <<>> /\ posted[e] = <<>>
    BY <1>2, <2>1 DEF CommInit
  <2>3. Delivered(u, v) = 0
    BY <1>5, <2>2 DEF Delivered
  <2>4. InOrder(u, v)
    <3>1. Len(network[e]) = 0 /\ DOMAIN network[e] = {}
      BY <2>2
    <3> QED BY <1>5, <2>1, <2>3, <3>1 DEF InOrder
  <2>5. OneReceive(u, v)
    BY <2>2 DEF OneReceive
  <2>6. ASSUME NEW x \in SendPlaces PROVE Rounds(x) + 1 # Asked(v)
    <3>1. x \in 1 .. Done
      BY Path DEF SendPlaces
    <3>2. Rounds(x) \in Nat
      BY <3>1, RoundsFinite
    <3> QED BY <1>5, <3>2
  <2> QED BY <2>4, <2>5, <2>6 DEF Link, Arrived
<1>7. ASSUME NEW u \in Unit PROVE UnitOK(u)
  <2>1. Requests(u)
    BY <1>2 DEF CommInit, Requests
  <2>2. Buffered(u)
    BY <1>2, <1>5, GnOmpiAssumption DEF CommInit, Buffered, SendAllHere
  <2>3. \A c \in CommTypes : PassedBy(u, ReceivePlaces[c]) = {}
    <3>1. ASSUME NEW c \in CommTypes PROVE \A p \in ReceivePlaces[c] : ~(p < 1)
      BY <1>2, ReceivePlacesAre
    <3> QED BY <1>1, <3>1 DEF PassedBy
  <2> QED BY <2>1, <2>2, <2>3 DEF UnitOK, StoredOK
<1> QED BY <1>1, <1>2, <1>4, <1>6, <1>7 DEF CInv, Linked, CommInit

(* Every use of received data is of the neighbour's matching loop, although*)
(* one type serves several exchanges and MPI may read a buffer late.       *)
THEOREM Freshness ==
  ASSUME FewSubmeshes
  PROVE  Spec => []FreshData
<1>1. TInv /\ CInv => FreshData
  <2> SUFFICES ASSUME TInv, CInv, NEW th \in Threads, NEW s \in Slots, Runs(th, s[1])
               PROVE  LET received == Passed(th, s[1], ReceivePlaces[s[3]])
                      IN  received # {} =>
                            stored[s] = Written(s[2], s[1], s[3], LastBefore(Max(received), ExchangePlaces[s[3]]))
    BY DEF FreshData
  <2>1. s = <<s[1], s[2], s[3]>> /\ s[1] \in Unit /\ s[2] \in Neigh[s[1]] /\ s[3] \in CommTypes
    BY DEF Slots
  <2>2. \A p \in ReceivePlaces[s[3]] : Place(p)[1] \notin {"master", "omp"}
    <3>1. ReceivePlaces[s[3]] = {p \in 1 .. Done - 1 : Place(p) = <<s[3], "receive">>}
      BY <2>1, PlacesAre DEF ReceivePlaces
    <3> QED BY <2>1, <3>1, GnOmpiAssumption
  <2>3. ReceivePlaces[s[3]] \in SUBSET (1 .. Done)
    BY <2>1, ReceivePlacesAre
  <2>4. Passed(th, s[1], ReceivePlaces[s[3]]) = PassedBy(s[1], ReceivePlaces[s[3]])
    BY <2>1, <2>2, <2>3, PassedPlaces DEF PassedBy
  <2>5. StoredOK(s[1])
    BY <2>1 DEF CInv, UnitOK
  <2> QED BY <2>1, <2>4, <2>5 DEF StoredOK
<1>2. TInv /\ CInv /\ [Next]_vars => (TInv /\ CInv)'
  BY NextCInv
<1> QED BY <1>1, <1>2, InitCInv, PTL DEF Spec

(* MPI is used correctly, also where the master sends for submeshes of     *)
(* other threads, and MPI_Finalize finds nothing in flight.                *)
THEOREM MpiUse ==
  ASSUME FewSubmeshes
  PROVE  Spec => []MpiCorrect
<1>1. TInv /\ CInv => MpiCorrect
  <2> SUFFICES ASSUME TInv, CInv, AllDone
               PROVE  /\ send_requests = {} /\ receive_requests = {}
                      /\ \A e \in Envelopes : network[e] = <<>> /\ posted[e] = <<>>
    BY DEF MpiCorrect, CInv, Linked
  <2>0. CommTypeOK /\ Done \in Nat /\ Place(Done) = <<"done", "done">> /\ Done \in 1 .. Done
    BY Path DEF CInv, Linked
  <2>1. ASSUME NEW u \in Unit
        PROVE  Pos(u) = Done /\ Here(u) = <<"done", "done">> /\ Asked(u) = Sent(u) /\ Sent(u) = Rounds(Done)
    BY <2>0, DonePos DEF Here, Asked, AskedAt, Sent, SendAllHere
  <2>2. \A c \in CommTypes : ~Sending(c, <<"done", "done">>) /\ ~Receiving(c, <<"done", "done">>)
    BY GnOmpiAssumption DEF Sending, Receiving, SendAllHere
  <2>3. \A s \in send_requests \cup receive_requests : s[1] \in Unit /\ s[3] \in CommTypes
    <3>1. send_requests \cup receive_requests \subseteq Slots
      BY <2>0 DEF CommTypeOK
    <3> QED BY <3>1 DEF Slots
  <2>4. send_requests = {} /\ receive_requests = {}
    BY <2>1, <2>2, <2>3 DEF CInv, UnitOK, Requests
  <2>5. unreceived = {}
    BY <2>0, <2>4 DEF CommTypeOK
  <2>6. ASSUME NEW e \in Envelopes PROVE network[e] = <<>> /\ posted[e] = <<>>
    <3>1. PICK v \in Unit : \E u \in Neigh[v] : e = SendEnvelope(u, v)
      BY EveryEnvelope
    <3>2. PICK u \in Neigh[v] : e = SendEnvelope(u, v)
      BY <3>1
    <3>3. u \in Unit /\ Link(u, v)
      BY EnvelopeOf DEF CInv, Linked
    <3>4. posted[e] = <<>>
      BY <2>5, <3>2, <3>3 DEF Link, OneReceive
    <3>5. Rounds(Done) \in Nat
      BY <2>0, RoundsFinite
    <3>6. Delivered(u, v) = Sent(u)
      BY <2>1, <3>2, <3>3, <3>4, <3>5 DEF Delivered
    <3>7. Len(network[e]) = 0
      BY <2>1, <3>2, <3>3, <3>5, <3>6 DEF Link, InOrder
    <3>8. network[e] \in Seq(Message)
      BY <2>0 DEF CommTypeOK
    <3> QED BY <3>4, <3>7, <3>8
  <2> QED BY <2>4, <2>6
<1>2. TInv /\ CInv /\ [Next]_vars => (TInv /\ CInv)'
  BY NextCInv
<1> QED BY <1>1, <1>2, InitCInv, PTL DEF Spec

-----------------------------------------------------------------------------
(* The systems of the dispersive correction.                               *)
SolveHere == <<"master", "solve">>

SolveTypes ==
  /\ condensed \in [Unit -> Int]
  /\ system \in [Ranks -> SUBSET (Unit \X Int)]
  /\ dc_solution \in [Ranks -> SUBSET (Unit \X Int)]
  /\ w1 \in [Unit -> SUBSET (Unit \X Int)]

(* No solve is between two submeshes.                                      *)
SolveTogether ==
  \A u, w \in Unit : \A s \in 1 .. Done :
    Place(s) = SolveHere /\ Pos(u) <= s => Pos(w) <= s

(* The contributions to a system are from five places before they are used.*)
Contributed(u) ==
  /\ Here(u) = <<"omp", "solve">> => condensed[u] = Pos(u) - 1
  /\ Here(u) = <<"master", "assemble">> => condensed[u] = Pos(u) - 2
  /\ Here(u) = <<"omp", "solved">> => dc_solution[Locality[u]] = Unit \X {Pos(u) - 4}
  /\ Here(u) = <<"dc", "update">> => dc_solution[Locality[u]] = Unit \X {Pos(u) - 5}

Assembled(l) == {u \in UnitsOn(l) : Here(u) = SolveHere}
Systems == \A l \in Ranks : system[l] = {<<u, Pos(u) - 3>> : u \in Assembled(l)}

Corrected(u) ==
  PassedBy(u, UpdatePlaces) # {} =>
    w1[u] = Unit \X {LastBefore(Max(PassedBy(u, UpdatePlaces)), CondensePlaces)}

SInv == SolveTypes /\ SolveTogether /\ Systems /\ \A u \in Unit : Contributed(u) /\ Corrected(u)

(* The loop bodies, and the places they are at.                            *)
CalmBody(th, u) ==
  \/ ExchangeLoop(th, u) \/ ReceiveLoop(th, u) \/ WaitLoop(th, u)
  \/ Local(th, u) \/ Scrutinize(th, u)
  \/ Finalize(th, u) \/ MasterReceiveAll(th, u) \/ MasterSendAll(th, u)
  \/ PostReceive(th, u) \/ MasterWait(th, u)

CalmEntry(e) ==
  e \notin {<<"dc", "condense">>, <<"master", "assemble">>, SolveHere, <<"dc", "update">>}

LEMMA CalmBodies ==
  ASSUME ThreadsOK, NEW th \in Threads, NEW w \in Unit, CalmBody(th, w)
  PROVE  /\ Body(th, w) /\ ~Unlooped(At(th)) /\ CalmEntry(At(th)) /\ UNCHANGED solveVars
<1>1. /\ Body(th, w) /\ UNCHANGED solveVars
      /\ \/ At(th)[2] \in {"exchange", "receive", "wait", "work"}
         \/ At(th) \in {<<"master", "finalize">>, <<"master", "receive_all">>, <<"master", "send_all">>,
                        <<"master", "post_receive">>, <<"master", "wait_all">>}
  BY DEF CalmBody, ExchangeLoop, ReceiveLoop, WaitLoop, Local, Scrutinize, Finalize,
         MasterReceiveAll, MasterSendAll, PostReceive, MasterWait, Part
<1>2. CASE At(th)[2] \in {"exchange", "receive", "wait", "work"}
  BY <1>1, <1>2, LoopEntry DEF CalmEntry, SolveHere
<1>3. CASE At(th) \in {<<"master", "finalize">>, <<"master", "receive_all">>, <<"master", "send_all">>,
                       <<"master", "post_receive">>, <<"master", "wait_all">>}
  BY <1>1, <1>3 DEF CalmEntry, SolveHere, Unlooped
<1> QED BY <1>1, <1>2, <1>3

LEMMA NotSolved ==
  ASSUME ThreadsOK, SolveTogether, NEW S \in SUBSET Unit, Moved(S), \A u \in S : Here(u) # SolveHere
  PROVE  SolveTogether'
<1> SUFFICES ASSUME NEW u \in Unit, NEW w \in Unit, NEW s \in 1 .. Done,
                    Place(s) = SolveHere, Pos(u)' <= s
             PROVE  Pos(w)' <= s
  BY DEF SolveTogether
<1>1. Done \in Nat /\ Pos(u) \in 1 .. Done /\ Pos(w) \in 1 .. Done
  BY PosType, Path
<1>2. Pos(u) <= s
  BY <1>1 DEF Moved
<1>3. Pos(w) <= s
  BY <1>2 DEF SolveTogether
<1>4. w \in S => Pos(w) # s
  BY DEF Here
<1> QED BY <1>1, <1>3, <1>4 DEF Moved

(* The entry before an entry of the solve section.                         *)
LEMMA SolveBefore ==
  ASSUME NEW p \in 1 .. Done - 1
  PROVE  /\ Place(p + 1) = <<"omp", "solve">> => Place(p) = <<"dc", "condense">>
         /\ Place(p + 1) = <<"master", "assemble">> => Place(p) = <<"omp", "solve">>
         /\ Place(p + 1) = SolveHere => Place(p) = <<"master", "assemble">>
         /\ Place(p + 1) = <<"omp", "solved">> => Place(p) = SolveHere
         /\ Place(p + 1) = <<"dc", "update">> => Place(p) = <<"omp", "solved">>
<1>1. Follows(Place(p), Place(p + 1))
  BY Path
<1> QED BY <1>1 DEF Follows, SolveHere, WithWork, WithoutWork

LEMMA ContributedOn ==
  ASSUME NEW u \in Unit, Contributed(u), Pos(u) \in 1 .. Done - 1, Pos(u)' = Pos(u) + 1,
         Here(u) \notin {<<"dc", "condense">>, SolveHere},
         condensed'[u] = condensed[u], dc_solution'[Locality[u]] = dc_solution[Locality[u]]
  PROVE  Contributed(u)'
<1> DEFINE p == Pos(u)
<1>1. Here(u)' = Place(p + 1) /\ Here(u) = Place(p) /\ Pos(u)' = p + 1 /\ p \in Int
  BY DEF Here
<1>2. /\ (p + 1) - 2 = p - 1 /\ (p + 1) - 5 = p - 4
  BY <1>1
<1>3. Place(p + 1) # <<"omp", "solve">> /\ Place(p + 1) # <<"omp", "solved">>
  BY <1>1, SolveBefore
<1>4. Place(p + 1) = <<"master", "assemble">> => condensed[u] = p - 1
  BY <1>1, SolveBefore DEF Contributed
<1>5. Place(p + 1) = <<"dc", "update">> => dc_solution[Locality[u]] = Unit \X {p - 4}
  BY <1>1, SolveBefore DEF Contributed
<1> QED BY <1>1, <1>2, <1>3, <1>4, <1>5 DEF Contributed

LEMMA ContributedStays ==
  ASSUME NEW u \in Unit, Contributed(u), Pos(u)' = Pos(u),
         condensed'[u] = condensed[u], dc_solution'[Locality[u]] = dc_solution[Locality[u]]
  PROVE  Contributed(u)'
BY DEF Contributed, Here

(* A submesh that has no correction to apply.                              *)
LEMMA UpdatePlacesAre ==
  /\ UpdatePlaces \in SUBSET (1 .. Done)
  /\ \A p \in 1 .. Done - 1 : p \in UpdatePlaces <=> Place(p) = <<"dc", "update">>
<1>1. UpdatePlaces = {p \in 1 .. Done - 1 : Place(p) = <<"dc", "update">>}
  BY PlacesAre DEF UpdatePlaces
<1> QED BY <1>1, Path

LEMMA CorrectedOn ==
  ASSUME NEW u \in Unit, Corrected(u), w1'[u] = w1[u],
         \/ Pos(u)' = Pos(u)
         \/ Pos(u) \in 1 .. Done - 1 /\ Pos(u)' = Pos(u) + 1 /\ Here(u) # <<"dc", "update">>
  PROVE  Corrected(u)'
<1>1. PassedBy(u, UpdatePlaces)' = PassedBy(u, UpdatePlaces)
  <2>1. CASE Pos(u)' = Pos(u)
    BY <2>1 DEF PassedBy
  <2>2. CASE Pos(u) \in 1 .. Done - 1 /\ Pos(u)' = Pos(u) + 1 /\ Here(u) # <<"dc", "update">>
    <3>1. Pos(u) \notin UpdatePlaces /\ UpdatePlaces \in SUBSET (1 .. Done)
      BY <2>2, UpdatePlacesAre DEF Here
    <3> QED BY <2>2, <3>1, PassedOn
  <2> QED BY <2>1, <2>2
<1> QED BY <1>1 DEF Corrected

(* The submeshes whose contributions are in the system stay there.         *)
LEMMA SystemsStay ==
  ASSUME ThreadsOK, Systems, system' = system, NEW S \in SUBSET Unit, Moved(S),
         \A u \in S : Pos(u) \in 1 .. Done - 1 /\ Here(u) \notin {<<"master", "assemble">>, SolveHere}
  PROVE  Systems'
<1>1. ASSUME NEW u \in Unit
      PROVE  Here(u)' = SolveHere <=> Here(u) = SolveHere
  <2>1. CASE u \notin S
    BY <2>1 DEF Moved, Here
  <2>2. CASE u \in S
    <3>1. Here(u)' = Place(Pos(u) + 1) /\ Pos(u) \in 1 .. Done - 1
      BY <2>2 DEF Moved, Here
    <3> QED BY <2>2, <3>1, SolveBefore DEF Here
  <2> QED BY <2>1, <2>2
<1>2. \A u \in Unit : Here(u) = SolveHere => Pos(u)' = Pos(u)
  BY DEF Moved
<1>3. ASSUME NEW l \in Ranks
      PROVE  {<<u, Pos(u) - 3>> : u \in Assembled(l)}' = {<<u, Pos(u) - 3>> : u \in Assembled(l)}
  <2>1. UnitsOn(l)' = UnitsOn(l) /\ UnitsOn(l) \subseteq Unit
    BY DEF UnitsOn
  <2>2. Assembled(l)' = Assembled(l)
    BY <1>1, <2>1 DEF Assembled
  <2>3. \A u \in Assembled(l) : Pos(u)' = Pos(u)
    BY <1>2, <2>1 DEF Assembled
  <2> QED BY <2>2, <2>3
<1> QED BY <1>3 DEF Systems

LEMMA CalmSInv ==
  ASSUME TInv, SInv, NEW S \in SUBSET Unit, Moved(S),
         \A u \in S : Pos(u) \in 1 .. Done - 1 /\ CalmEntry(Here(u)), UNCHANGED solveVars
  PROVE  SInv'
<1>1. UNCHANGED <<condensed, system, dc_solution, w1>> /\ ThreadsOK
  BY DEF solveVars, TInv
<1>2. SolveTypes'
  BY <1>1 DEF SInv, SolveTypes
<1>3. SolveTogether'
  BY <1>1, NotSolved DEF SInv, CalmEntry
<1>4. Systems'
  BY <1>1, SystemsStay DEF SInv, CalmEntry
<1>5. ASSUME NEW u \in Unit PROVE Contributed(u)' /\ Corrected(u)'
  <2>1. CASE u \in S
    <3>1. Pos(u) \in 1 .. Done - 1 /\ Pos(u)' = Pos(u) + 1 /\ CalmEntry(Here(u))
      BY <2>1 DEF Moved
    <3> QED BY <1>1, <3>1, ContributedOn, CorrectedOn DEF SInv, CalmEntry
  <2>2. CASE u \notin S
    <3>1. Pos(u)' = Pos(u)
      BY <2>2 DEF Moved
    <3> QED BY <1>1, <3>1, ContributedStays, CorrectedOn DEF SInv
  <2> QED BY <2>1, <2>2
<1> QED BY <1>2, <1>3, <1>4, <1>5 DEF SInv

LEMMA CondenseSInv ==
  ASSUME TInv, SInv, NEW th \in Threads, NEW w \in Unit, Condense(th, w)
  PROVE  SInv'
<1>1. /\ At(th) = <<"dc", "condense">> /\ Body(th, w)
      /\ condensed' = [condensed EXCEPT ![w] = pc[th]]
      /\ UNCHANGED <<system, dc_solution, w1>>
  BY DEF Condense
<1>2. ~Unlooped(At(th))
  BY <1>1 DEF Unlooped
<1>3. TInv' /\ Moved({w}) /\ Pos(w) = pc[th] /\ Here(w) = At(th) /\ Pos(w) \in 1 .. Done - 1
  BY <1>1, <1>2, BodyMoves
<1>4. SolveTypes /\ Pos(w) \in Int /\ ThreadsOK
  BY <1>3 DEF SInv, TInv
<1>5. condensed'[w] = Pos(w) /\ \A u \in Unit \ {w} : condensed'[u] = condensed[u]
  BY <1>1, <1>3, <1>4 DEF SolveTypes
<1>6. SolveTypes'
  <2>1. condensed' \in [Unit -> Int]
    BY <1>1, <1>3, <1>4 DEF SolveTypes
  <2> QED BY <1>1, <1>4, <2>1 DEF SolveTypes
<1>7. \A u \in {w} : Pos(u) \in 1 .. Done - 1 /\ Here(u) \notin {<<"master", "assemble">>, SolveHere}
  BY <1>1, <1>3 DEF SolveHere
<1>8. SolveTogether' /\ Systems'
  BY <1>1, <1>3, <1>4, <1>7, NotSolved, SystemsStay DEF SInv
<1>9. Pos(w)' = Pos(w) + 1 /\ Here(w)' = <<"omp", "solve">>
  <2>1. Pos(w)' = Pos(w) + 1 /\ Follows(Here(w), Place(Pos(w) + 1))
    BY <1>3, Path DEF Moved, Here
  <2>2. Place(Pos(w) + 1) = <<"omp", "solve">>
    BY <1>1, <1>3, <2>1 DEF Follows, WithWork, WithoutWork
  <2> QED BY <2>1, <2>2 DEF Here
<1>10. Contributed(w)'
  <2>1. condensed'[w] = Pos(w)' - 1
    BY <1>4, <1>5, <1>9
  <2> QED BY <1>9, <2>1 DEF Contributed
<1>11. Corrected(w)'
  BY <1>1, <1>3, <1>9, CorrectedOn DEF SInv
<1>12. ASSUME NEW u \in Unit, u # w PROVE Contributed(u)' /\ Corrected(u)'
  <2>1. Pos(u)' = Pos(u)
    BY <1>3, <1>12 DEF Moved
  <2> QED BY <1>1, <1>5, <1>12, <2>1, ContributedStays, CorrectedOn DEF SInv
<1> QED BY <1>6, <1>8, <1>10, <1>11, <1>12 DEF SInv

LEMMA AssembleSInv ==
  ASSUME TInv, SInv, NEW th \in Threads, NEW w \in Unit, Assemble(th, w)
  PROVE  SInv'
<1> DEFINE l == th[1]
<1>1. /\ At(th) = <<"master", "assemble">> /\ Body(th, w)
      /\ system' = [system EXCEPT ![l] = @ \cup {<<w, condensed[w]>>}]
      /\ UNCHANGED <<condensed, dc_solution, w1>>
  BY DEF Assemble
<1>2. ~Unlooped(At(th)) /\ l = Locality[w] /\ l \in Ranks
  BY <1>1, ThreadShape DEF Unlooped, Body
<1>3. TInv' /\ Moved({w}) /\ Pos(w) = pc[th] /\ Here(w) = At(th) /\ Pos(w) \in 1 .. Done - 1
  BY <1>1, <1>2, BodyMoves
<1>4. SolveTypes /\ Pos(w) \in Int /\ ThreadsOK
  BY <1>3 DEF SInv, TInv
<1> HIDE DEF l
<1>5. SolveTypes'
  <2>1. <<w, condensed[w]>> \in Unit \X Int
    BY <1>4 DEF SolveTypes
  <2>2. system' \in [Ranks -> SUBSET (Unit \X Int)]
    BY <1>1, <1>2, <1>4, <2>1 DEF SolveTypes
  <2> QED BY <1>1, <1>4, <2>2 DEF SolveTypes
<1>6. \A u \in {w} : Here(u) # SolveHere
  BY <1>1, <1>3 DEF SolveHere
<1>7. SolveTogether'
  BY <1>3, <1>4, <1>6, NotSolved DEF SInv
<1>8. Pos(w)' = Pos(w) + 1 /\ Here(w)' = SolveHere
  <2>1. Pos(w)' = Pos(w) + 1 /\ Follows(Here(w), Place(Pos(w) + 1))
    BY <1>3, Path DEF Moved, Here
  <2>2. Place(Pos(w) + 1) = SolveHere
    BY <1>1, <1>3, <2>1 DEF Follows, SolveHere, WithWork, WithoutWork
  <2> QED BY <2>1, <2>2 DEF Here
<1>9. condensed[w] = Pos(w)' - 3
  <2>1. condensed[w] = Pos(w) - 2
    BY <1>1, <1>3 DEF SInv, Contributed
  <2> QED BY <1>4, <1>8, <2>1
<1>10. \A u \in Unit \ {w} : Pos(u)' = Pos(u) /\ Here(u)' = Here(u)
  BY <1>3 DEF Moved, Here
<1>11. ASSUME NEW r \in Ranks PROVE system'[r] = {<<u, Pos(u) - 3>> : u \in Assembled(r)}'
  <2>0. UnitsOn(r)' = UnitsOn(r) /\ \A u : u \in UnitsOn(r) <=> u \in Unit /\ Locality[u] = r
    BY DEF UnitsOn
  <2>1. CASE r = l
    <3>1. Assembled(r)' = Assembled(r) \cup {w} /\ w \notin Assembled(r)
      BY <1>2, <1>6, <1>8, <1>10, <2>0, <2>1 DEF Assembled
    <3>2. \A u \in Assembled(r) : Pos(u)' = Pos(u)
      BY <1>10, <2>0, <3>1 DEF Assembled
    <3>3. {<<u, Pos(u)'- 3>> : u \in Assembled(r) \cup {w}} =
            {<<u, Pos(u) - 3>> : u \in Assembled(r)} \cup {<<w, Pos(w)' - 3>>}
      BY <3>2
    <3>4. system'[r] = system[r] \cup {<<w, Pos(w)' - 3>>}
      BY <1>1, <1>4, <1>9, <2>1 DEF SolveTypes
    <3> QED BY <3>1, <3>3, <3>4 DEF SInv, Systems
  <2>2. CASE r # l
    <3>1. Assembled(r)' = Assembled(r)
      BY <1>2, <1>10, <2>0, <2>2 DEF Assembled
    <3>2. \A u \in Assembled(r) : Pos(u)' = Pos(u)
      BY <1>2, <1>10, <2>0, <2>2 DEF Assembled
    <3>3. system'[r] = system[r]
      BY <1>1, <1>4, <2>2 DEF SolveTypes
    <3> QED BY <3>1, <3>2, <3>3 DEF SInv, Systems
  <2> QED BY <2>1, <2>2
<1>12. Contributed(w)'
  BY <1>8 DEF Contributed, SolveHere
<1>13. Corrected(w)'
  BY <1>1, <1>3, <1>8, CorrectedOn DEF SInv
<1>14. ASSUME NEW u \in Unit, u # w PROVE Contributed(u)' /\ Corrected(u)'
  BY <1>1, <1>10, <1>14, ContributedStays, CorrectedOn DEF SInv
<1> QED BY <1>5, <1>7, <1>11, <1>12, <1>13, <1>14 DEF SInv, Systems

(* The collective solve: all submeshes have come to it, from the same place.*)
LEMMA SolveSInv ==
  ASSUME TInv, SInv, Solve
  PROVE  SInv'
<1>1. /\ TInv' /\ Moved(Unit) /\ \A u \in Unit : Here(u) = SolveHere /\ Pos(u) \in 1 .. Done - 1
  BY SolveMoves DEF SolveHere
<1>2. /\ dc_solution' = [r \in Ranks |-> UNION {system[q] : q \in Ranks}]
      /\ system' = [r \in Ranks |-> {}]
      /\ UNCHANGED <<condensed, w1>>
  BY DEF Solve
<1>3. SolveTypes /\ ThreadsOK /\ SolveTogether /\ Systems /\ Done \in Nat
  BY Path DEF SInv, TInv
<1>4. SolveTypes'
  BY <1>2, <1>3 DEF SolveTypes
<1>5. \A u \in Unit : \A w \in Unit : Pos(w) <= Pos(u)
  <2> SUFFICES ASSUME NEW u \in Unit, NEW w \in Unit PROVE Pos(w) <= Pos(u)
    OBVIOUS
  <2>1. Pos(u) \in 1 .. Done /\ Place(Pos(u)) = SolveHere
    BY <1>1, <1>3 DEF Here
  <2>2. Pos(u) <= Pos(u)
    BY <2>1
  <2> QED BY <1>3, <2>1, <2>2 DEF SolveTogether
<1>6. SolveTogether'
  <2> SUFFICES ASSUME NEW u \in Unit, NEW w \in Unit, NEW s \in 1 .. Done,
                      Place(s) = SolveHere, Pos(u)' <= s
               PROVE  Pos(w)' <= s
    BY DEF SolveTogether
  <2>1. Pos(u)' = Pos(u) + 1 /\ Pos(w)' = Pos(w) + 1
    BY <1>1 DEF Moved
  <2>2. Pos(w) <= Pos(u) /\ Pos(u) \in Int /\ Pos(w) \in Int
    BY <1>1, <1>5
  <2> QED BY <2>1, <2>2
<1>7. ASSUME NEW u \in Unit PROVE Here(u)' = <<"omp", "solved">> /\ Pos(u)' = Pos(u) + 1
  <2>1. Pos(u)' = Pos(u) + 1 /\ Follows(Here(u), Place(Pos(u) + 1))
    BY <1>1, Path DEF Moved, Here
  <2>2. Place(Pos(u) + 1) = <<"omp", "solved">>
    BY <1>1, <2>1 DEF Follows, SolveHere, WithWork, WithoutWork
  <2> QED BY <2>1, <2>2 DEF Here
<1>8. Systems'
  <2>1. \A r \in Ranks : Assembled(r)' = {}
    BY <1>7 DEF Assembled, SolveHere, UnitsOn
  <2> QED BY <1>2, <2>1 DEF Systems
<1>9. ASSUME NEW u \in Unit PROVE Contributed(u)'
  <2>0. Locality[u] \in Ranks /\ Pos(u) \in Int
    BY <1>1, RunnerRuns
  <2>1. \A w \in Unit : Pos(w) = Pos(u)
    BY <1>1, <1>5
  <2>2. \A r \in Ranks : system[r] = {<<w, Pos(u) - 3>> : w \in UnitsOn(r)}
    <3> SUFFICES ASSUME NEW r \in Ranks PROVE system[r] = {<<w, Pos(u) - 3>> : w \in UnitsOn(r)}
      OBVIOUS
    <3>1. Assembled(r) = UnitsOn(r) /\ UnitsOn(r) \subseteq Unit
      BY <1>1 DEF Assembled, UnitsOn
    <3>2. system[r] = {<<w, Pos(w) - 3>> : w \in UnitsOn(r)}
      BY <1>3, <3>1 DEF Systems
    <3>3. \A w \in UnitsOn(r) : <<w, Pos(w) - 3>> = <<w, Pos(u) - 3>>
      BY <2>1, <3>1
    <3> QED BY <3>2, <3>3
  <2>3. UNION {system[q] : q \in Ranks} = Unit \X {Pos(u) - 3}
    <3> DEFINE k == Pos(u) - 3
    <3>1. \A q \in Ranks : system[q] = {<<w, k>> : w \in UnitsOn(q)}
      BY <2>2
    <3>2. \A w \in Unit : Locality[w] \in Ranks /\ w \in UnitsOn(Locality[w])
      BY RunnerRuns DEF UnitsOn
    <3>3. \A q \in Ranks : UnitsOn(q) \subseteq Unit
      BY DEF UnitsOn
    <3> HIDE DEF k
    <3>4. ASSUME NEW z \in Unit \X {k} PROVE z \in UNION {system[q] : q \in Ranks}
      <4>1. PICK w \in Unit : z = <<w, k>>
        OBVIOUS
      <4>2. z \in system[Locality[w]]
        BY <3>1, <3>2, <4>1
      <4> QED BY <3>2, <4>2
    <3>5. ASSUME NEW z \in UNION {system[q] : q \in Ranks} PROVE z \in Unit \X {k}
      <4>1. PICK q \in Ranks : z \in system[q]
        BY <3>5
      <4> QED BY <3>1, <3>3, <4>1
    <3>6. UNION {system[q] : q \in Ranks} = Unit \X {k}
      BY <3>4, <3>5
    <3> QED BY <3>6 DEF k
  <2>4. dc_solution'[Locality[u]] = Unit \X {Pos(u) - 3}
    BY <1>2, <2>0, <2>3
  <2>5. Pos(u)' - 4 = Pos(u) - 3
    BY <1>7, <2>0
  <2> QED BY <1>7, <2>4, <2>5 DEF Contributed
<1>10. ASSUME NEW u \in Unit PROVE Corrected(u)'
  BY <1>1, <1>2, <1>7, CorrectedOn DEF SInv, SolveHere
<1> QED BY <1>4, <1>6, <1>8, <1>9, <1>10 DEF SInv

(* The correction applied is of the system condensed five places before.   *)
LEMMA CondensedBefore ==
  ASSUME NEW p \in 1 .. Done - 1, Place(p) = <<"dc", "update">>
  PROVE  LastBefore(p, CondensePlaces) = p - 5
<1>0. Done \in Nat /\ p \in Int
  BY Path
<1>1. ASSUME NEW i \in 1 .. Done - 1,
             Place(i) \in {<<"omp", "solve">>, <<"master", "assemble">>, SolveHere,
                           <<"omp", "solved">>, <<"dc", "update">>}
      PROVE  i - 1 \in 1 .. Done - 1 /\ (i - 1) + 1 = i
  <2>1. i # 1
    BY <1>1, Path DEF SolveHere
  <2> QED BY <1>0, <2>1
<1>2. p - 1 \in 1 .. Done - 1 /\ Place(p - 1) = <<"omp", "solved">>
  <2>1. p - 1 \in 1 .. Done - 1 /\ (p - 1) + 1 = p
    BY <1>1
  <2> QED BY <2>1, SolveBefore
<1>3. p - 2 \in 1 .. Done - 1 /\ Place(p - 2) = SolveHere
  <2>1. (p - 1) - 1 \in 1 .. Done - 1 /\ ((p - 1) - 1) + 1 = p - 1 /\ (p - 1) - 1 = p - 2
    BY <1>0, <1>1, <1>2
  <2> QED BY <1>2, <2>1, SolveBefore
<1>4. p - 3 \in 1 .. Done - 1 /\ Place(p - 3) = <<"master", "assemble">>
  <2>1. (p - 2) - 1 \in 1 .. Done - 1 /\ ((p - 2) - 1) + 1 = p - 2 /\ (p - 2) - 1 = p - 3
    BY <1>0, <1>1, <1>3
  <2> QED BY <1>3, <2>1, SolveBefore
<1>5. p - 4 \in 1 .. Done - 1 /\ Place(p - 4) = <<"omp", "solve">>
  <2>1. (p - 3) - 1 \in 1 .. Done - 1 /\ ((p - 3) - 1) + 1 = p - 3 /\ (p - 3) - 1 = p - 4
    BY <1>0, <1>1, <1>4
  <2> QED BY <1>4, <2>1, SolveBefore
<1>6. p - 5 \in 1 .. Done - 1 /\ Place(p - 5) = <<"dc", "condense">>
  <2>1. (p - 4) - 1 \in 1 .. Done - 1 /\ ((p - 4) - 1) + 1 = p - 4 /\ (p - 4) - 1 = p - 5
    BY <1>0, <1>1, <1>5
  <2> QED BY <1>5, <2>1, SolveBefore
<1>7. CondensePlaces = {i \in 1 .. Done - 1 : Place(i) = <<"dc", "condense">>}
  BY PlacesAre DEF CondensePlaces
<1> DEFINE T == {i \in CondensePlaces : i < p}
<1>8. p - 5 \in T /\ \A i \in T : i \in Int
  BY <1>0, <1>6, <1>7
<1>9. ASSUME NEW i \in T PROVE i <= p - 5
  <2>1. i \in 1 .. Done - 1 /\ i < p /\ Place(i) = <<"dc", "condense">>
    BY <1>7
  <2>2. i # p - 1 /\ i # p - 2 /\ i # p - 3 /\ i # p - 4
    BY <1>2, <1>3, <1>4, <1>5, <2>1 DEF SolveHere
  <2> QED BY <1>0, <2>1, <2>2
<1> HIDE DEF T
<1>10. Max(T) = p - 5
  BY <1>8, <1>9, MaxIs
<1> QED BY <1>10 DEF LastBefore, T

LEMMA UpdateSInv ==
  ASSUME TInv, SInv, NEW th \in Threads, NEW w \in Unit, Update(th, w)
  PROVE  SInv'
<1>1. /\ At(th) = <<"dc", "update">> /\ Body(th, w)
      /\ w1' = [w1 EXCEPT ![w] = dc_solution[th[1]]]
      /\ UNCHANGED <<condensed, system, dc_solution>>
  BY DEF Update
<1>2. ~Unlooped(At(th)) /\ th[1] = Locality[w] /\ th[1] \in Ranks
  BY <1>1, ThreadShape DEF Unlooped, Body
<1>3. TInv' /\ Moved({w}) /\ Pos(w) = pc[th] /\ Here(w) = At(th) /\ Pos(w) \in 1 .. Done - 1
  BY <1>1, <1>2, BodyMoves
<1>4. SolveTypes /\ Pos(w) \in Int /\ ThreadsOK /\ Pos(w)' = Pos(w) + 1
  BY <1>3 DEF SInv, TInv, Moved
<1>5. SolveTypes'
  <2>1. w1' \in [Unit -> SUBSET (Unit \X Int)]
    BY <1>1, <1>2, <1>4 DEF SolveTypes
  <2> QED BY <1>1, <1>4, <2>1 DEF SolveTypes
<1>6. \A u \in {w} : Pos(u) \in 1 .. Done - 1 /\ Here(u) \notin {<<"master", "assemble">>, SolveHere}
  BY <1>1, <1>3 DEF SolveHere
<1>7. SolveTogether' /\ Systems'
  BY <1>1, <1>3, <1>4, <1>6, NotSolved, SystemsStay DEF SInv
<1>8. Contributed(w)'
  BY <1>1, <1>3, <1>4, ContributedOn DEF SInv, SolveHere
<1>9. Corrected(w)'
  <2> DEFINE p == Pos(w)
             T == PassedBy(w, UpdatePlaces)'
  <2>1. p \in UpdatePlaces /\ UpdatePlaces \in SUBSET (1 .. Done)
    BY <1>1, <1>3, UpdatePlacesAre DEF Here
  <2>2. T = {q \in UpdatePlaces : q < p + 1}
    BY <1>4 DEF PassedBy
  <2>3. p \in T /\ (\A q \in T : q \in Int) /\ \A q \in T : q <= p
    <3>1. p \in Int /\ p < p + 1 /\ \A q \in UpdatePlaces : q \in Int
      BY <1>4, <2>1, Path
    <3>2. \A q \in UpdatePlaces : q < p + 1 => q <= p
      BY <3>1
    <3> HIDE DEF p
    <3> QED BY <2>1, <2>2, <3>1, <3>2
  <2> HIDE DEF T
  <2>4. Max(T) = p
    BY <2>3, MaxIs
  <2>5. LastBefore(p, CondensePlaces) = p - 5
    BY <1>1, <1>3, CondensedBefore DEF Here
  <2>6. w1'[w] = Unit \X {p - 5}
    <3>1. dc_solution[Locality[w]] = Unit \X {p - 5}
      BY <1>1, <1>3 DEF SInv, Contributed
    <3> QED BY <1>1, <1>2, <1>4, <3>1 DEF SolveTypes
  <2>7. w1'[w] = Unit \X {LastBefore(Max(T), CondensePlaces)}
    BY <2>4, <2>5, <2>6
  <2> QED BY <2>7 DEF Corrected, T
<1>10. ASSUME NEW u \in Unit, u # w PROVE Contributed(u)' /\ Corrected(u)'
  <2>1. Pos(u)' = Pos(u) /\ w1'[u] = w1[u]
    BY <1>1, <1>3, <1>4, <1>10 DEF Moved, SolveTypes
  <2> QED BY <1>1, <2>1, ContributedStays, CorrectedOn DEF SInv
<1> QED BY <1>5, <1>7, <1>8, <1>9, <1>10 DEF SInv

LEMMA InitSInv ==
  ASSUME Init
  PROVE  SInv
<1>1. ThreadsOK /\ \A u \in Unit : Pos(u) = 1
  BY InitTInv DEF TInv
<1>2. /\ Done \in Nat /\ Done > 1 /\ Place(1) = <<"baryctr_coord", "exchange">>
      /\ condensed = [u \in Unit |-> 0] /\ system = [l \in Ranks |-> {}]
      /\ dc_solution = [l \in Ranks |-> {}] /\ w1 = [u \in Unit |-> {}]
  BY Path DEF Init
<1>3. SolveTypes
  BY <1>2 DEF SolveTypes
<1>4. SolveTogether
  BY <1>1 DEF SolveTogether
<1>5. \A u \in Unit : Here(u) = <<"baryctr_coord", "exchange">>
  BY <1>1, <1>2 DEF Here
<1>6. Systems
  <2>1. \A l \in Ranks : Assembled(l) = {}
    BY <1>5 DEF Assembled, UnitsOn, SolveHere
  <2> QED BY <1>2, <2>1 DEF Systems
<1>7. ASSUME NEW u \in Unit PROVE Contributed(u) /\ Corrected(u)
  <2>1. PassedBy(u, UpdatePlaces) = {}
    <3>1. \A p \in UpdatePlaces : ~(p < 1)
      BY <1>2, UpdatePlacesAre
    <3> QED BY <1>1, <3>1 DEF PassedBy
  <2> QED BY <1>5, <2>1 DEF Contributed, Corrected
<1> QED BY <1>3, <1>4, <1>6, <1>7 DEF SInv

LEMMA NextSInv ==
  ASSUME TInv, SInv, [Next]_vars
  PROVE  SInv'
<1>1. ASSUME NEW th \in Threads, NEW w \in Unit, CalmBody(th, w) PROVE SInv'
  <2>1. /\ Body(th, w) /\ ~Unlooped(At(th)) /\ CalmEntry(At(th)) /\ UNCHANGED solveVars
    BY <1>1, CalmBodies DEF TInv
  <2>2. Moved({w}) /\ Here(w) = At(th) /\ Pos(w) \in 1 .. Done - 1
    BY <2>1, BodyMoves
  <2>3. \A u \in {w} : Pos(u) \in 1 .. Done - 1 /\ CalmEntry(Here(u))
    BY <2>1, <2>2
  <2> QED BY <2>1, <2>2, <2>3, CalmSInv
<1>2. ASSUME NEW th \in Threads, Gather(th) \/ Scatter(th) PROVE SInv'
  <2>1. At(th) \in {<<"master", "gather">>, <<"master", "scatter">>} /\ GoOn(th) /\ UNCHANGED solveVars
    BY <1>2 DEF Gather, Scatter
  <2>2. /\ Moved(UnitsOn(th[1])) /\ pc[th] \in 1 .. Done - 1
        /\ \A u \in UnitsOn(th[1]) : Pos(u) = pc[th] /\ Here(u) = At(th)
    BY <2>1, SectionMoves
  <2>3. CalmEntry(At(th)) /\ UnitsOn(th[1]) \in SUBSET Unit
    BY <2>1 DEF CalmEntry, SolveHere, UnitsOn
  <2>4. \A u \in UnitsOn(th[1]) : Pos(u) \in 1 .. Done - 1 /\ CalmEntry(Here(u))
    BY <2>2, <2>3
  <2> QED BY <2>1, <2>2, <2>3, <2>4, CalmSInv
<1>3. ASSUME NEW l \in Ranks, Barrier(l) PROVE SInv'
  <2>1. /\ Moved(UnitsOn(l)) /\ pc[<<l, 0>>] \in 1 .. Done - 1
        /\ Place(pc[<<l, 0>>])[1] = "omp" /\ \A u \in UnitsOn(l) : Pos(u) = pc[<<l, 0>>]
    BY <1>3, BarrierMoves
  <2>2. CalmEntry(Place(pc[<<l, 0>>])) /\ UnitsOn(l) \in SUBSET Unit /\ UNCHANGED solveVars
    BY <1>3, <2>1 DEF CalmEntry, SolveHere, UnitsOn, Barrier
  <2>3. \A u \in UnitsOn(l) : Pos(u) \in 1 .. Done - 1 /\ CalmEntry(Here(u))
    BY <2>1, <2>2 DEF Here
  <2> QED BY <2>1, <2>2, <2>3, CalmSInv
<1>4. CASE Mpi \/ UNCHANGED vars
  <2>1. pc' = pc /\ su_id' = su_id /\ UNCHANGED solveVars
    BY <1>4 DEF Mpi, vars, threadVars
  <2>2. Moved({})
    BY <2>1, StandStill DEF Moved
  <2> QED BY <2>1, <2>2, CalmSInv
<1>5. CASE Solve
  BY <1>5, SolveSInv
<1>6. ASSUME NEW th \in Threads, NEW w \in Unit, Condense(th, w) \/ Assemble(th, w) \/ Update(th, w)
      PROVE  SInv'
  BY <1>6, CondenseSInv, AssembleSInv, UpdateSInv
<1>7. ASSUME NEW th \in Threads, ThreadStep(th) PROVE SInv'
  BY <1>1, <1>2, <1>6, <1>7 DEF ThreadStep, CalmBody
<1> QED BY <1>3, <1>4, <1>5, <1>7 DEF Next, Progress, Terminated

-----------------------------------------------------------------------------
(* The numbers of the edges.                                               *)
BeforeGather == BeforeFinal \ {<<"master", "scatter">>, <<"master", "finalize">>}
BeforeReceived ==
  BeforeFinal \cup {<<"master", "receive_all">>, SendAllHere, <<"master", "post_receive">>}

NumberTypes ==
  /\ dc_global_dof_indx \in [Edges -> Int]
  /\ dc_global_dof_offsets \in [Unit -> Int]
  /\ total_dc_global_dof_offsets \in [Ranks -> Int]
  /\ total_dc_global_dof_offset \in [Ranks -> Int]

Counts ==
  \A l \in Ranks : total_dc_global_dof_offsets[l] \in {-1, RankCount(l)}

NumbersOK(u) ==
  /\ Here(u) \in {<<"master", "scatter">>, <<"master", "finalize">>} =>
       /\ dc_global_dof_offsets[u] = OffsetInRank(u)
       /\ dc_global_dof_indx[<<u, u>>] = 0
       /\ \A v \in OwnedEdges(u) : dc_global_dof_indx[<<u, v>>] = LocalIndex(<<u, v>>)
  /\ Here(u) = <<"master", "finalize">> =>
       OffsetInRank(u) + total_dc_global_dof_offset[Locality[u]] = FirstNumber(u)
  /\ Here(u) \notin BeforeFinal =>
       /\ dc_global_dof_indx[<<u, u>>] = FirstNumber(u)
       /\ \A v \in OwnedEdges(u) : dc_global_dof_indx[<<u, v>>] = FirstNumber(u) + LocalIndex(<<u, v>>)
  /\ Here(u) \notin BeforeReceived =>
       \A v \in Neigh[u] : Owns(v, u) =>
         dc_global_dof_indx[<<u, v>>] = FirstNumber(v) + LocalIndex(<<v, u>>)

NInv == NumberTypes /\ Counts /\ \A u \in Unit : NumbersOK(u)

(* The numbers of u's edges are not touched.                               *)
SameNumbers(u) ==
  /\ dc_global_dof_offsets'[u] = dc_global_dof_offsets[u]
  /\ total_dc_global_dof_offset'[Locality[u]] = total_dc_global_dof_offset[Locality[u]]
  /\ dc_global_dof_indx'[<<u, u>>] = dc_global_dof_indx[<<u, u>>]
  /\ \A v \in Neigh[u] : dc_global_dof_indx'[<<u, v>>] = dc_global_dof_indx[<<u, v>>]

NumberPlaces ==
  {<<"master", "gather">>, <<"master", "scatter">>, <<"master", "finalize">>, <<"master", "post_receive">>}

(* What is before the entries of the numbering section.                    *)
LEMMA NumberedBefore ==
  ASSUME NEW p \in 1 .. Done - 1
  PROVE  /\ Place(p + 1) = <<"master", "scatter">> => Place(p) = <<"master", "gather">>
         /\ Place(p + 1) = <<"master", "finalize">> => Place(p) = <<"master", "scatter">>
         /\ Place(p) \in BeforeFinal /\ Place(p) # <<"master", "finalize">> => Place(p + 1) \in BeforeFinal
         /\ Place(p) \in BeforeReceived /\ Place(p) # <<"master", "post_receive">> =>
              Place(p + 1) \in BeforeReceived
<1>1. Follows(Place(p), Place(p + 1))
  BY Path
<1>2. ASSUME NEW e, NEW f, Follows(e, f)
      PROVE  /\ f = <<"master", "scatter">> => e = <<"master", "gather">>
             /\ f = <<"master", "finalize">> => e = <<"master", "scatter">>
  BY <1>2 DEF Follows, WithWork, WithoutWork
<1>3. ASSUME NEW e, NEW f, Follows(e, f), e \in BeforeFinal, e # <<"master", "finalize">>
      PROVE  f \in BeforeFinal
  BY <1>3 DEF Follows, WithWork, WithoutWork, BeforeFinal
<1>4. ASSUME NEW e, NEW f, Follows(e, f), e \in BeforeReceived, e # <<"master", "post_receive">>
      PROVE  f \in BeforeReceived
  <2>1. CASE e \in BeforeFinal /\ e # <<"master", "finalize">>
    BY <1>3, <1>4, <2>1 DEF BeforeReceived
  <2>2. CASE e \in {<<"master", "finalize">>, <<"master", "receive_all">>, SendAllHere}
    BY <1>4, <2>2 DEF Follows, WithWork, WithoutWork, BeforeReceived, SendAllHere
  <2> QED BY <1>4, <2>1, <2>2 DEF BeforeReceived
<1> QED BY <1>1, <1>2, <1>3, <1>4

LEMMA NumbersStay ==
  ASSUME NEW u \in Unit, NumbersOK(u), SameNumbers(u), Here(u)' = Here(u)
  PROVE  NumbersOK(u)'
<1>1. \A v \in OwnedEdges(u) : v \in Neigh[u]
  BY EdgeTypes
<1> QED BY <1>1 DEF NumbersOK, SameNumbers

LEMMA NumbersOn ==
  ASSUME NEW u \in Unit, NumbersOK(u), SameNumbers(u),
         Pos(u) \in 1 .. Done - 1, Pos(u)' = Pos(u) + 1, Here(u) \notin NumberPlaces
  PROVE  NumbersOK(u)'
<1>1. \A v \in OwnedEdges(u) : v \in Neigh[u]
  BY EdgeTypes
<1>2. Here(u)' = Place(Pos(u) + 1)
  BY DEF Here
<1>3. /\ Here(u)' \notin {<<"master", "scatter">>, <<"master", "finalize">>}
      /\ Here(u) \in BeforeFinal => Here(u)' \in BeforeFinal
      /\ Here(u) \in BeforeReceived => Here(u)' \in BeforeReceived
  BY <1>2, NumberedBefore DEF Here, NumberPlaces
<1> QED BY <1>1, <1>3 DEF NumbersOK, SameNumbers

(* A step of submeshes that do not number.                                 *)
LEMMA NumbersKept ==
  ASSUME NInv, NEW S \in SUBSET Unit, Moved(S),
         \A u \in S : Pos(u) \in 1 .. Done - 1 /\ Here(u) \notin NumberPlaces, UNCHANGED numberVars
  PROVE  NInv'
<1>1. UNCHANGED <<dc_global_dof_offsets, total_dc_global_dof_offsets, total_dc_global_dof_offset,
                  dc_global_dof_indx>>
  BY DEF numberVars
<1>2. NumberTypes' /\ Counts'
  BY <1>1 DEF NInv, NumberTypes, Counts
<1>3. ASSUME NEW u \in Unit PROVE NumbersOK(u)'
  <2>1. NumbersOK(u) /\ SameNumbers(u)
    BY <1>1 DEF NInv, SameNumbers
  <2>2. CASE u \in S
    <3>1. Pos(u) \in 1 .. Done - 1 /\ Pos(u)' = Pos(u) + 1 /\ Here(u) \notin NumberPlaces
      BY <2>2 DEF Moved
    <3> QED BY <2>1, <3>1, NumbersOn
  <2>3. CASE u \notin S
    <3>1. Here(u)' = Here(u)
      BY <2>3 DEF Moved, Here
    <3> QED BY <2>1, <3>1, NumbersStay
  <2> QED BY <2>2, <2>3
<1> QED BY <1>2, <1>3 DEF NInv

(* The rank is numbered locally, each submesh with its edges from 0.       *)
LEMMA GatherNInv ==
  ASSUME TInv, NInv, NEW th \in Threads, Gather(th)
  PROVE  NInv'
<1> DEFINE l == th[1]
<1>1. /\ dc_global_dof_indx' = [e \in Edges |->
           IF Locality[e[1]] = l THEN LocalIndex(e) ELSE dc_global_dof_indx[e]]
      /\ dc_global_dof_offsets' = [u \in Unit |->
           IF Locality[u] = l THEN OffsetInRank(u) ELSE dc_global_dof_offsets[u]]
      /\ total_dc_global_dof_offsets' = [total_dc_global_dof_offsets EXCEPT ![l] = RankCount(l)]
      /\ total_dc_global_dof_offset' = total_dc_global_dof_offset
  BY DEF Gather, NumberLocally
<1>2. At(th) = <<"master", "gather">> /\ GoOn(th) /\ l \in Ranks
  BY ThreadShape DEF Gather
<1>3. /\ Moved(UnitsOn(l)) /\ pc[th] \in 1 .. Done - 1
      /\ \A u \in UnitsOn(l) : Pos(u) = pc[th] /\ Here(u) = <<"master", "gather">>
  BY <1>2, SectionMoves
<1>4. NumberTypes'
  <2>1. dc_global_dof_indx' \in [Edges -> Int] /\ dc_global_dof_offsets' \in [Unit -> Int]
    BY <1>1, EdgeTypes, LocalIndexType DEF NInv, NumberTypes
  <2>2. RankCount(l) \in Int
    BY <1>2, RankCountType
  <2>3. total_dc_global_dof_offsets' \in [Ranks -> Int]
    BY <1>1, <1>2, <2>2 DEF NInv, NumberTypes
  <2> QED BY <1>1, <2>1, <2>3 DEF NInv, NumberTypes
<1>5. Counts'
  BY <1>1 DEF NInv, NumberTypes, Counts
<1>6. ASSUME NEW u \in Unit PROVE NumbersOK(u)'
  <2>1. /\ NumbersOK(u) /\ <<u, u>> \in Edges /\ \A v \in Neigh[u] : <<u, v>> \in Edges
        /\ \A v \in OwnedEdges(u) : v \in Neigh[u]
    BY EdgeTypes DEF NInv
  <2>2. CASE Locality[u] # l
    <3>1. /\ dc_global_dof_offsets'[u] = dc_global_dof_offsets[u]
          /\ dc_global_dof_indx'[<<u, u>>] = dc_global_dof_indx[<<u, u>>]
          /\ \A v \in Neigh[u] : dc_global_dof_indx'[<<u, v>>] = dc_global_dof_indx[<<u, v>>]
      BY <1>1, <2>1, <2>2
    <3>2. SameNumbers(u)
      BY <1>1, <3>1 DEF SameNumbers
    <3>3. Here(u)' = Here(u)
      BY <1>3, <2>2 DEF Moved, Here, UnitsOn
    <3> QED BY <2>1, <3>2, <3>3, NumbersStay
  <2>3. CASE Locality[u] = l
    <3>1. /\ dc_global_dof_offsets'[u] = OffsetInRank(u)
          /\ dc_global_dof_indx'[<<u, u>>] = LocalIndex(<<u, u>>)
          /\ \A v \in Neigh[u] : dc_global_dof_indx'[<<u, v>>] = LocalIndex(<<u, v>>)
      BY <1>1, <2>1, <2>3
    <3>2. LocalIndex(<<u, u>>) = 0
      BY DEF LocalIndex
    <3>3. Here(u)' = <<"master", "scatter">>
      <4>1. u \in UnitsOn(l)
        BY <2>3 DEF UnitsOn
      <4>2. Here(u)' = Place(pc[th] + 1) /\ Place(pc[th]) = <<"master", "gather">>
        BY <1>3, <4>1 DEF Moved, Here
      <4>3. Follows(Place(pc[th]), Place(pc[th] + 1))
        BY <1>3, Path
      <4> QED BY <4>2, <4>3 DEF Follows, WithWork, WithoutWork
    <3>4. /\ <<"master", "scatter">> \in BeforeFinal /\ <<"master", "scatter">> \in BeforeReceived
          /\ <<"master", "scatter">> # <<"master", "finalize">>
      BY DEF BeforeFinal, BeforeReceived
    <3> QED BY <2>1, <3>1, <3>2, <3>3, <3>4 DEF NumbersOK
  <2> QED BY <2>2, <2>3
<1> QED BY <1>4, <1>5, <1>6 DEF NInv

(* The scatter gives the rank its offset: all ranks are counted.           *)
LEMMA ScatterNInv ==
  ASSUME TInv, NInv, NEW th \in Threads, Scatter(th)
  PROVE  NInv'
<1> DEFINE l == th[1]
<1>1. /\ UNCHANGED <<dc_global_dof_offsets, total_dc_global_dof_offsets, dc_global_dof_indx>>
      /\ total_dc_global_dof_offset' = [total_dc_global_dof_offset EXCEPT
           ![l] = OffsetOfRank(total_dc_global_dof_offsets, l)]
      /\ \A r \in Ranks : total_dc_global_dof_offsets[r] # -1
  BY DEF Scatter
<1>2. At(th) = <<"master", "scatter">> /\ GoOn(th) /\ l \in Ranks
  BY ThreadShape DEF Scatter
<1>3. /\ Moved(UnitsOn(l)) /\ pc[th] \in 1 .. Done - 1
      /\ \A u \in UnitsOn(l) : Pos(u) = pc[th] /\ Here(u) = <<"master", "scatter">>
  BY <1>2, SectionMoves
<1>4. \A r \in Ranks : total_dc_global_dof_offsets[r] = RankCount(r)
  BY <1>1 DEF NInv, Counts
<1>5. NumberTypes'
  <2>1. OffsetOfRank(total_dc_global_dof_offsets, l) \in Int
    BY <1>2, <1>4, OffsetOfRankType
  <2>2. total_dc_global_dof_offset' \in [Ranks -> Int]
    BY <1>1, <2>1 DEF NInv, NumberTypes
  <2> QED BY <1>1, <2>2 DEF NInv, NumberTypes
<1>6. Counts'
  BY <1>1 DEF NInv, Counts
<1>7. ASSUME NEW u \in Unit PROVE NumbersOK(u)'
  <2>1. NumbersOK(u) /\ Locality[u] \in Ranks /\ total_dc_global_dof_offset \in [Ranks -> Int]
    BY RunnerRuns DEF NInv, NumberTypes
  <2>2. CASE Locality[u] # l
    <3>1. SameNumbers(u)
      BY <1>1, <2>1, <2>2 DEF SameNumbers
    <3>2. Here(u)' = Here(u)
      BY <1>3, <2>2 DEF Moved, Here, UnitsOn
    <3> QED BY <2>1, <3>1, <3>2, NumbersStay
  <2>3. CASE Locality[u] = l
    <3>1. OffsetInRank(u) + OffsetOfRank(total_dc_global_dof_offsets, Locality[u]) = FirstNumber(u)
      BY <1>4, OffsetsAddUp
    <3>2. total_dc_global_dof_offset'[l] = OffsetOfRank(total_dc_global_dof_offsets, l)
      BY <1>1, <2>1, <2>3
    <3>3. Here(u)' = <<"master", "finalize">> /\ Here(u) = <<"master", "scatter">>
      <4>1. u \in UnitsOn(l)
        BY <2>3 DEF UnitsOn
      <4>2. Here(u)' = Place(pc[th] + 1) /\ Place(pc[th]) = <<"master", "scatter">>
        BY <1>3, <4>1 DEF Moved, Here
      <4>3. Follows(Place(pc[th]), Place(pc[th] + 1))
        BY <1>3, Path
      <4> QED BY <1>3, <4>1, <4>2, <4>3 DEF Follows, WithWork, WithoutWork
    <3>4. <<"master", "finalize">> \in BeforeFinal /\ <<"master", "finalize">> \in BeforeReceived
      BY DEF BeforeFinal, BeforeReceived
    <3>5. OffsetInRank(u) + total_dc_global_dof_offset'[Locality[u]] = FirstNumber(u)
      BY <2>3, <3>1, <3>2
    <3> QED BY <1>1, <2>1, <3>3, <3>4, <3>5 DEF NumbersOK
  <2> QED BY <2>2, <2>3
<1> QED BY <1>5, <1>6, <1>7 DEF NInv

(* The numbers that u owns become final.                                   *)
LEMMA FinalizeNInv ==
  ASSUME TInv, NInv, NEW th \in Threads, NEW u \in Unit, Finalize(th, u)
  PROVE  NInv'
<1>1. At(th) = <<"master", "finalize">> /\ Body(th, u) /\ th[1] = Locality[u]
  BY DEF Finalize, Body
<1>2. Moved({u}) /\ Here(u) = <<"master", "finalize">> /\ Pos(u) \in 1 .. Done - 1
  <2>1. ~Unlooped(At(th))
    BY <1>1 DEF Unlooped
  <2> QED BY <1>1, <2>1, BodyMoves
<1>3. /\ dc_global_dof_offsets' =
           [dc_global_dof_offsets EXCEPT ![u] = @ + total_dc_global_dof_offset[Locality[u]]]
      /\ dc_global_dof_indx' = [e \in Edges |->
           IF e[1] = u /\ (e[2] = u \/ Owns(u, e[2]))
           THEN dc_global_dof_indx[e] + dc_global_dof_offsets'[u] ELSE dc_global_dof_indx[e]]
      /\ UNCHANGED <<total_dc_global_dof_offsets, total_dc_global_dof_offset>>
  BY <1>1 DEF Finalize
<1>4. NumberTypes /\ NumbersOK(u) /\ Locality[u] \in Ranks
  BY RunnerRuns DEF NInv
<1>5. dc_global_dof_offsets'[u] = FirstNumber(u) /\ dc_global_dof_offsets'[u] \in Int
  <2>1. dc_global_dof_offsets'[u] = dc_global_dof_offsets[u] + total_dc_global_dof_offset[Locality[u]]
    BY <1>3, <1>4 DEF NumberTypes
  <2>2. /\ OffsetInRank(u) + total_dc_global_dof_offset[Locality[u]] = FirstNumber(u)
        /\ dc_global_dof_offsets[u] = OffsetInRank(u)
    BY <1>2, <1>4 DEF NumbersOK
  <2> QED BY <2>1, <2>2, EdgeTypes
<1>6. NumbersOK(u)'
  <2>1. dc_global_dof_indx'[<<u, u>>] = FirstNumber(u)
    <3>1. dc_global_dof_indx'[<<u, u>>] = dc_global_dof_indx[<<u, u>>] + dc_global_dof_offsets'[u]
      BY <1>3, EdgeTypes
    <3> QED BY <1>2, <1>4, <1>5, <3>1, EdgeTypes DEF NumbersOK
  <2>2. ASSUME NEW v \in OwnedEdges(u)
        PROVE  dc_global_dof_indx'[<<u, v>>] = FirstNumber(u) + LocalIndex(<<u, v>>)
    <3>1. <<u, v>> \in Edges /\ Owns(u, v) /\ LocalIndex(<<u, v>>) \in Int /\ FirstNumber(u) \in Int
      BY EdgeTypes
    <3>2. dc_global_dof_indx'[<<u, v>>] = dc_global_dof_indx[<<u, v>>] + dc_global_dof_offsets'[u]
      BY <1>3, <3>1
    <3>3. dc_global_dof_indx[<<u, v>>] = LocalIndex(<<u, v>>)
      BY <1>2, <1>4 DEF NumbersOK
    <3> QED BY <1>5, <3>1, <3>2, <3>3
  <2>3. Here(u)' = <<"master", "receive_all">>
    <3>1. Here(u)' = Place(Pos(u) + 1) /\ Follows(Place(Pos(u)), Place(Pos(u) + 1))
      BY <1>2, Path DEF Moved, Here
    <3> QED BY <1>2, <3>1 DEF Follows, WithWork, WithoutWork, Here
  <2>4. /\ <<"master", "receive_all">> \in BeforeReceived
        /\ <<"master", "receive_all">> \notin {<<"master", "scatter">>, <<"master", "finalize">>}
    BY DEF BeforeReceived
  <2> QED BY <2>1, <2>2, <2>3, <2>4 DEF NumbersOK
<1>7. ASSUME NEW w \in Unit, w # u PROVE NumbersOK(w)'
  <2>1. <<w, w>> \in Edges /\ \A v \in Neigh[w] : <<w, v>> \in Edges
    BY EdgeTypes
  <2>2. /\ dc_global_dof_offsets'[w] = dc_global_dof_offsets[w]
        /\ dc_global_dof_indx'[<<w, w>>] = dc_global_dof_indx[<<w, w>>]
        /\ \A v \in Neigh[w] : dc_global_dof_indx'[<<w, v>>] = dc_global_dof_indx[<<w, v>>]
    BY <1>3, <1>4, <1>7, <2>1 DEF NumberTypes
  <2>3. SameNumbers(w)
    BY <1>3, <2>2 DEF SameNumbers
  <2>4. Here(w)' = Here(w) /\ NumbersOK(w)
    BY <1>2, <1>7 DEF Moved, Here, NInv
  <2> QED BY <2>3, <2>4, NumbersStay
<1>8. NumberTypes' /\ Counts'
  <2>1. dc_global_dof_offsets' \in [Unit -> Int] /\ dc_global_dof_indx' \in [Edges -> Int]
    BY <1>3, <1>4, <1>5 DEF NumberTypes
  <2> QED BY <1>3, <2>1 DEF NInv, NumberTypes, Counts
<1> QED BY <1>6, <1>7, <1>8 DEF NInv

(* The rounds do not go down.                                              *)
LEMMA RoundsOrder ==
  ASSUME NEW a \in 1 .. Done, NEW b \in 1 .. Done, a <= b
  PROVE  Rounds(a) <= Rounds(b)
<1> DEFINE S == {x \in SendPlaces : x < a}
           T == {x \in SendPlaces : x < b}
<1>1. S \subseteq T
  <2>1. \A x \in SendPlaces : x < a => x < b
    BY Path DEF SendPlaces
  <2> QED BY <2>1
<1>2. IsFiniteSet(T)
  BY RoundsFinite
<1> HIDE DEF S, T
<1>3. Cardinality(S) <= Cardinality(T)
  BY <1>1, <1>2, FS_Subset
<1> QED BY <1>3 DEF Rounds, S, T

(* Who has the message with the numbers has it from a submesh whose numbers*)
(* are final, and which has written to it if it owns edges.                *)
LEMMA SenderNumbered ==
  ASSUME TInv, CInv, NEW u \in Unit, Here(u) = <<"master", "post_receive">>, NEW v \in Neigh[u],
         <<u, v, "dc_global_dof_indx">> \notin unreceived
  PROVE  /\ Here(v) \notin BeforeFinal
         /\ OwnedEdges(v) # {} => receive_buffer[<<u, v, "dc_global_dof_indx">>].ts # -1
<1>1. /\ v \in Unit /\ Link(v, u) /\ CommTypeOK /\ ThreadsOK
      /\ SendEnvelope(v, u) \in Envelopes /\ Done \in Nat
  BY EnvelopeOf, EdgeTypes, Path DEF CInv, Linked, TInv
<1> DEFINE x == Pos(u) - 1
<1>2. /\ Pos(u) \in 1 .. Done /\ Pos(v) \in 1 .. Done
  BY <1>1, PosType
<1>3. x \in 1 .. Done - 1 /\ x + 1 = Pos(u)
  <2>1. Pos(u) # 1
    BY Path DEF Here
  <2> QED BY <1>1, <1>2, <2>1
<1>4. Place(x) = SendAllHere
  <2>1. Follows(Place(x), Place(x + 1))
    BY <1>3, Path
  <2> QED BY <1>3, <2>1 DEF Here, Follows, WithWork, WithoutWork, SendAllHere
<1>5. x \in SendPlaces /\ TypeAt(x) = "dc_global_dof_indx" /\ Rounds(x) \in Nat /\ x # 1
  <2>1. x \in 1 .. Done
    BY <1>1, <1>3
  <2>2. x # 1
    BY <1>4, Path DEF SendAllHere
  <2> QED BY <1>3, <1>4, <2>1, <2>2, RoundsFinite DEF SendPlaces, TypeAt
<1> HIDE DEF x
<1>6. Asked(u) = Rounds(x) + 1
  <2>1. Rounds(Pos(u)) = Rounds(x) + 1
    BY <1>3, <1>5, RoundStep
  <2>2. Place(Pos(u)) # SendAllHere
    BY DEF Here, SendAllHere
  <2> QED BY <2>1, <2>2 DEF Asked, AskedAt
<1>7. posted[SendEnvelope(v, u)] = <<>>
  <2> SUFFICES ASSUME NEW y \in SendPlaces, Rounds(y) + 1 = Asked(u), <<u, v, TypeAt(y)>> \in unreceived
               PROVE  FALSE
    BY <1>1 DEF Link, OneReceive
  <2>1. y \in 1 .. Done
    BY <1>1 DEF SendPlaces
  <2>2. Rounds(y) \in Nat
    BY <2>1, RoundsFinite
  <2>3. Rounds(y) = Rounds(x)
    BY <1>5, <1>6, <2>2
  <2>4. y = x
    BY <1>5, <2>3, RoundsApart
  <2> QED BY <1>5, <2>4
<1>8. Delivered(v, u) = Rounds(x) + 1
  <2>1. Len(posted[SendEnvelope(v, u)]) = 0
    BY <1>7
  <2> QED BY <1>5, <1>6, <2>1 DEF Delivered
<1>9. Sent(v) >= Rounds(x) + 1
  <2>1. Len(network[SendEnvelope(v, u)]) \in Nat
    BY <1>1 DEF CommTypeOK
  <2>2. Sent(v) \in Nat
    BY <1>1, AskedType
  <2>3. Len(network[SendEnvelope(v, u)]) = Sent(v) - (Rounds(x) + 1)
    BY <1>1, <1>8 DEF Link, InOrder
  <2> QED BY <1>5, <2>1, <2>2, <2>3
<1>10. x < Pos(v)
  <2>1. x \in 1 .. Done
    BY <1>1, <1>3
  <2>2. Pos(v) <= x => Sent(v) <= Rounds(x)
    BY <1>2, <2>1, RoundsOrder DEF Sent
  <2>3. Sent(v) \in Nat
    BY <1>1, AskedType
  <2> QED BY <1>2, <1>5, <1>9, <2>1, <2>2, <2>3
<1>11. Here(v) \notin BeforeFinal
  <2>1. Here(v) \in AfterSendAll
    <3>1. x \in 1 .. Done
      BY <1>1, <1>3
    <3> QED BY <1>2, <1>4, <1>10, <3>1, SentBefore DEF Here
  <2> QED BY <2>1 DEF AfterSendAll, BeforeFinal
<1>12. ASSUME OwnedEdges(v) # {} PROVE receive_buffer[<<u, v, "dc_global_dof_indx">>].ts # -1
  <2>1. Stamp(v, x) = x - 2
    BY <1>4, <1>12 DEF Stamp
  <2>2. x - 2 # -1
    BY <1>1, <1>3, <1>5
  <2>3. receive_buffer[<<u, v, "dc_global_dof_indx">>] = Written(v, u, "dc_global_dof_indx", x - 2)
    BY <1>1, <1>5, <1>6, <2>1 DEF Link, Arrived
  <2> QED BY <2>2, <2>3 DEF Written
<1> QED BY <1>11, <1>12

(* The numbers of the edges that its neighbours own reach u.               *)
LEMMA PostReceiveNInv ==
  ASSUME TInv, CInv, NInv, NEW th \in Threads, NEW u \in Unit, PostReceive(th, u)
  PROVE  NInv'
<1>1. At(th) = <<"master", "post_receive">> /\ Body(th, u)
  BY DEF PostReceive
<1>2. Moved({u}) /\ Here(u) = <<"master", "post_receive">> /\ Pos(u) \in 1 .. Done - 1
  <2>1. ~Unlooped(At(th))
    BY <1>1 DEF Unlooped
  <2> QED BY <1>1, <2>1, BodyMoves
<1>3. /\ dc_global_dof_indx' = [e \in Edges |->
           IF e[1] = u /\ e[2] # u /\ Owns(e[2], u)
           THEN IF receive_buffer[<<u, e[2], "dc_global_dof_indx">>].ts = -1 THEN 0
                ELSE dc_global_dof_indx[<<e[2], u>>]
           ELSE dc_global_dof_indx[e]]
      /\ UNCHANGED <<dc_global_dof_offsets, total_dc_global_dof_offsets, total_dc_global_dof_offset>>
  BY DEF PostReceive
<1>4. ASSUME NEW v \in Neigh[u], Owns(v, u)
      PROVE  dc_global_dof_indx'[<<u, v>>] = FirstNumber(v) + LocalIndex(<<v, u>>)
  <2>1. <<u, v>> \in Edges /\ v # u /\ v \in Unit /\ u \in OwnedEdges(v)
    BY <1>4, EdgeTypes DEF OwnedEdges
  <2>2. <<u, v, "dc_global_dof_indx">> \notin unreceived
    <3>1. <<u, v, "dc_global_dof_indx">> \in UnitSlots(u, "dc_global_dof_indx")
      BY GnOmpiAssumption, EnvelopeOf DEF UnitSlots, Slots
    <3> QED BY <3>1 DEF PostReceive, WaitReceivesBody, WaitAllReceives
  <2>3. /\ Here(v) \notin BeforeFinal
        /\ receive_buffer[<<u, v, "dc_global_dof_indx">>].ts # -1
    BY <1>2, <2>1, <2>2, SenderNumbered
  <2>4. dc_global_dof_indx'[<<u, v>>] = dc_global_dof_indx[<<v, u>>]
    BY <1>3, <1>4, <2>1, <2>3
  <2>5. dc_global_dof_indx[<<v, u>>] = FirstNumber(v) + LocalIndex(<<v, u>>)
    BY <2>1, <2>3 DEF NInv, NumbersOK
  <2> QED BY <2>4, <2>5
<1>5. ASSUME NEW w \in Unit, NEW v, v = w \/ v \in Neigh[w], w # u \/ v = u \/ ~Owns(v, u)
      PROVE  dc_global_dof_indx'[<<w, v>>] = dc_global_dof_indx[<<w, v>>]
  <2>1. <<w, v>> \in Edges
    BY <1>5, EdgeTypes
  <2> QED BY <1>3, <1>5, <2>1
<1>6. NumbersOK(u)'
  <2>1. \A v \in OwnedEdges(u) : v \in Neigh[u] /\ ~Owns(v, u)
    BY EdgeTypes, OwnsOrder
  <2>2. /\ dc_global_dof_indx'[<<u, u>>] = dc_global_dof_indx[<<u, u>>]
        /\ \A v \in OwnedEdges(u) : dc_global_dof_indx'[<<u, v>>] = dc_global_dof_indx[<<u, v>>]
    BY <1>5, <2>1
  <2>3. NumbersOK(u) /\ Here(u) \notin BeforeFinal
    BY <1>2 DEF NInv, BeforeFinal
  <2>4. /\ dc_global_dof_indx'[<<u, u>>] = FirstNumber(u)
        /\ \A v \in OwnedEdges(u) : dc_global_dof_indx'[<<u, v>>] = FirstNumber(u) + LocalIndex(<<u, v>>)
    BY <2>2, <2>3 DEF NumbersOK
  <2>5. Here(u)' = <<"master", "wait_all">>
    <3>1. Here(u)' = Place(Pos(u) + 1) /\ Follows(Place(Pos(u)), Place(Pos(u) + 1))
      BY <1>2, Path DEF Moved, Here
    <3> QED BY <1>2, <3>1 DEF Follows, WithWork, WithoutWork, Here
  <2>6. <<"master", "wait_all">> \notin {<<"master", "scatter">>, <<"master", "finalize">>}
    OBVIOUS
  <2>7. \A v \in Neigh[u] : Owns(v, u) =>
          dc_global_dof_indx'[<<u, v>>] = FirstNumber(v) + LocalIndex(<<v, u>>)
    BY <1>4
  <2> QED BY <2>4, <2>5, <2>6, <2>7 DEF NumbersOK
<1>7. ASSUME NEW w \in Unit, w # u PROVE NumbersOK(w)'
  <2>1. /\ dc_global_dof_indx'[<<w, w>>] = dc_global_dof_indx[<<w, w>>]
        /\ \A v \in Neigh[w] : dc_global_dof_indx'[<<w, v>>] = dc_global_dof_indx[<<w, v>>]
    BY <1>5, <1>7
  <2>2. SameNumbers(w)
    BY <1>3, <2>1 DEF SameNumbers
  <2>3. Here(w)' = Here(w) /\ NumbersOK(w)
    BY <1>2, <1>7 DEF Moved, Here, NInv
  <2> QED BY <2>2, <2>3, NumbersStay
<1>8. dc_global_dof_indx' \in [Edges -> Int]
  <2> SUFFICES ASSUME NEW e \in Edges PROVE dc_global_dof_indx'[e] \in Int
    BY <1>3
  <2>1. CASE e[1] = u /\ e[2] # u /\ Owns(e[2], u)
    <3>1. e \in RankBoundaries
      BY <2>1 DEF Edges
    <3>2. <<e[2], u>> \in Edges
      BY <2>1, <3>1, NeighAssumption DEF Edges, RankBoundaries
    <3> QED BY <1>3, <2>1, <3>2 DEF NInv, NumberTypes
  <2>2. CASE ~(e[1] = u /\ e[2] # u /\ Owns(e[2], u))
    BY <1>3, <2>2 DEF NInv, NumberTypes
  <2> QED BY <2>1, <2>2
<1>9. NumberTypes' /\ Counts'
  BY <1>3, <1>8 DEF NInv, NumberTypes, Counts
<1> QED BY <1>6, <1>7, <1>9 DEF NInv

(* The loop bodies that do not number.                                     *)
OtherBody(th, u) ==
  \/ ExchangeLoop(th, u) \/ ReceiveLoop(th, u) \/ WaitLoop(th, u)
  \/ Local(th, u) \/ Scrutinize(th, u)
  \/ MasterReceiveAll(th, u) \/ MasterSendAll(th, u) \/ MasterWait(th, u)
  \/ Condense(th, u) \/ Assemble(th, u) \/ Update(th, u)

LEMMA OtherBodies ==
  ASSUME ThreadsOK, NEW th \in Threads, NEW w \in Unit, OtherBody(th, w)
  PROVE  /\ Body(th, w) /\ ~Unlooped(At(th)) /\ At(th) \notin NumberPlaces /\ UNCHANGED numberVars
<1>1. /\ Body(th, w) /\ UNCHANGED numberVars
      /\ \/ At(th)[2] \in {"exchange", "receive", "wait", "work"}
         \/ At(th) \in {<<"master", "receive_all">>, <<"master", "send_all">>, <<"master", "wait_all">>,
                        <<"dc", "condense">>, <<"master", "assemble">>, <<"dc", "update">>}
  BY DEF OtherBody, ExchangeLoop, ReceiveLoop, WaitLoop, Local, Scrutinize,
         MasterReceiveAll, MasterSendAll, MasterWait, Condense, Assemble, Update, Part
<1>2. CASE At(th)[2] \in {"exchange", "receive", "wait", "work"}
  BY <1>1, <1>2, LoopEntry DEF NumberPlaces
<1>3. CASE At(th) \in {<<"master", "receive_all">>, <<"master", "send_all">>, <<"master", "wait_all">>,
                       <<"dc", "condense">>, <<"master", "assemble">>, <<"dc", "update">>}
  BY <1>1, <1>3 DEF NumberPlaces, Unlooped
<1> QED BY <1>1, <1>2, <1>3

LEMMA NextNInv ==
  ASSUME TInv, CInv, NInv, [Next]_vars
  PROVE  NInv'
<1>1. ASSUME NEW th \in Threads, NEW w \in Unit, OtherBody(th, w) PROVE NInv'
  <2>1. /\ Body(th, w) /\ ~Unlooped(At(th)) /\ At(th) \notin NumberPlaces /\ UNCHANGED numberVars
    BY <1>1, OtherBodies DEF TInv
  <2>2. Moved({w}) /\ Here(w) = At(th) /\ Pos(w) \in 1 .. Done - 1
    BY <2>1, BodyMoves
  <2>3. \A u \in {w} : Pos(u) \in 1 .. Done - 1 /\ Here(u) \notin NumberPlaces
    BY <2>1, <2>2
  <2> QED BY <2>1, <2>2, <2>3, NumbersKept
<1>2. ASSUME NEW l \in Ranks, Barrier(l) PROVE NInv'
  <2>1. /\ Moved(UnitsOn(l)) /\ pc[<<l, 0>>] \in 1 .. Done - 1
        /\ Place(pc[<<l, 0>>])[1] = "omp" /\ \A u \in UnitsOn(l) : Pos(u) = pc[<<l, 0>>]
    BY <1>2, BarrierMoves
  <2>2. Place(pc[<<l, 0>>]) \notin NumberPlaces /\ UnitsOn(l) \in SUBSET Unit /\ UNCHANGED numberVars
    BY <1>2, <2>1 DEF NumberPlaces, UnitsOn, Barrier
  <2>3. \A u \in UnitsOn(l) : Pos(u) \in 1 .. Done - 1 /\ Here(u) \notin NumberPlaces
    BY <2>1, <2>2 DEF Here
  <2> QED BY <2>1, <2>2, <2>3, NumbersKept
<1>3. CASE Solve
  <2>1. /\ Moved(Unit) /\ \A u \in Unit : Here(u) = <<"master", "solve">> /\ Pos(u) \in 1 .. Done - 1
    BY <1>3, SolveMoves
  <2>2. /\ UNCHANGED numberVars
        /\ \A u \in Unit : Pos(u) \in 1 .. Done - 1 /\ Here(u) \notin NumberPlaces
    BY <1>3, <2>1 DEF Solve, NumberPlaces
  <2> QED BY <2>1, <2>2, NumbersKept
<1>4. CASE Mpi \/ UNCHANGED vars
  <2>1. pc' = pc /\ su_id' = su_id /\ UNCHANGED numberVars
    BY <1>4 DEF Mpi, vars, threadVars
  <2>2. Moved({})
    BY <2>1, StandStill DEF Moved
  <2> QED BY <2>1, <2>2, NumbersKept
<1>5. ASSUME NEW th \in Threads, ThreadStep(th) PROVE NInv'
  <2>1. ASSUME NEW u \in Unit, Finalize(th, u) \/ PostReceive(th, u) PROVE NInv'
    BY <2>1, FinalizeNInv, PostReceiveNInv
  <2>2. CASE Gather(th) \/ Scatter(th)
    BY <2>2, GatherNInv, ScatterNInv
  <2> QED BY <1>1, <1>5, <2>1, <2>2 DEF ThreadStep, OtherBody
<1> QED BY <1>2, <1>3, <1>4, <1>5 DEF Next, Progress, Terminated

LEMMA InitNInv ==
  ASSUME Init
  PROVE  NInv
<1>1. /\ dc_global_dof_indx = [e \in Edges |-> -1] /\ dc_global_dof_offsets = [u \in Unit |-> 0]
      /\ total_dc_global_dof_offsets = [l \in Ranks |-> -1]
      /\ total_dc_global_dof_offset = [l \in Ranks |-> 0]
  BY DEF Init
<1>2. NumberTypes /\ Counts
  BY <1>1 DEF NumberTypes, Counts
<1>3. ASSUME NEW u \in Unit PROVE NumbersOK(u)
  <2>1. Here(u) = <<"baryctr_coord", "exchange">>
    BY InitTInv, Path DEF Here
  <2>2. /\ <<"baryctr_coord", "exchange">> \in BeforeFinal
        /\ <<"baryctr_coord", "exchange">> \in BeforeReceived
        /\ <<"baryctr_coord", "exchange">> \notin {<<"master", "scatter">>, <<"master", "finalize">>}
    BY DEF BeforeFinal, BeforeReceived
  <2> QED BY <2>1, <2>2 DEF NumbersOK
<1> QED BY <1>2, <1>3 DEF NInv

(* Once one submesh has applied a correction, all of them have their edges *)
(* numbered.                                                               *)
LEMMA AllNumbered ==
  ASSUME TInv, SolveTogether, NEW u \in Unit, PassedBy(u, UpdatePlaces) # {}, NEW w \in Unit
  PROVE  Here(w) \notin BeforeReceived
<1>1. PICK p \in UpdatePlaces : p < Pos(u)
  BY DEF PassedBy
<1>2. Done \in Nat /\ Pos(u) \in 1 .. Done /\ Pos(w) \in 1 .. Done
  BY PosType, Path DEF TInv
<1>3. p \in 1 .. Done - 1 /\ Place(p) = <<"dc", "update">>
  BY <1>1, <1>2, UpdatePlacesAre
<1>4. p - 1 \in 1 .. Done - 1 /\ Place(p - 1) = <<"omp", "solved">>
  <2>1. p # 1
    BY <1>3, Path
  <2>2. p - 1 \in 1 .. Done - 1 /\ (p - 1) + 1 = p
    BY <1>2, <1>3, <2>1
  <2> QED BY <1>3, <2>2, SolveBefore
<1>5. p - 2 \in 1 .. Done - 1 /\ Place(p - 2) = SolveHere
  <2>1. p - 1 # 1
    BY <1>4, Path
  <2>2. p - 2 \in 1 .. Done - 1 /\ (p - 2) + 1 = p - 1
    BY <1>2, <1>3, <1>4, <2>1
  <2> QED BY <1>4, <2>2, SolveBefore
<1>6. p - 2 <= Pos(w)
  <2>1. p - 2 \in 1 .. Done /\ ~(Pos(u) <= p - 2)
    BY <1>1, <1>2, <1>3, <1>5
  <2>2. ~(Pos(w) <= p - 2)
    BY <1>5, <2>1 DEF SolveTogether
  <2> QED BY <1>2, <1>3, <2>2
<1> DEFINE E == {f \in Entry \cup {<<"done", "done">>} : f \notin BeforeReceived}
<1>7. ASSUME NEW e \in E, NEW f, Follows(e, f) PROVE f \in E
  <2>1. f \in Entry \cup {<<"done", "done">>}
    BY <1>7, FollowsEntry
  <2>2. e \notin BeforeReceived
    OBVIOUS
  <2> HIDE DEF E
  <2>3. f \in BeforeReceived => e \in BeforeReceived
    BY <1>7 DEF Follows, WithWork, WithoutWork, BeforeReceived, BeforeFinal, SendAllHere
  <2> QED BY <2>1, <2>2, <2>3 DEF E
<1>8. SolveHere \in E
  <2>1. SolveHere \in Entry
    BY DEF SolveHere, Entry, Names, Doings
  <2>2. SolveHere \notin BeforeReceived
    BY DEF SolveHere, BeforeReceived, BeforeFinal, SendAllHere
  <2> QED BY <2>1, <2>2
<1>9. Here(w) \in E
  <2>1. p - 2 \in 1 .. Done
    BY <1>2, <1>3, <1>5
  <2> HIDE DEF E
  <2> QED BY <1>2, <1>5, <1>6, <1>7, <1>8, <2>1, Onward DEF Here
<1> QED BY <1>9

(* A correction solves the contributions of all submeshes to it and nothing*)
(* else, in unknowns numbered alike on both sides of every rank boundary.  *)
THEOREM Corrections ==
  ASSUME FewSubmeshes
  PROVE  Spec => []OneSystem
<1>1. TInv /\ SInv /\ NInv => OneSystem
  <2> SUFFICES ASSUME TInv, SInv, NInv, NEW th \in Threads, NEW u \in Unit, Runs(th, u),
                      Passed(th, u, UpdatePlaces) # {}
               PROVE  /\ w1[u] = Unit \X {LastBefore(Max(Passed(th, u, UpdatePlaces)), CondensePlaces)}
                      /\ Numbering(dc_global_dof_indx)
    BY DEF OneSystem
  <2>1. Passed(th, u, UpdatePlaces) = PassedBy(u, UpdatePlaces)
    <3>1. UpdatePlaces \in SUBSET (1 .. Done)
      BY UpdatePlacesAre
    <3>2. \A p \in UpdatePlaces : Place(p)[1] \notin {"master", "omp"}
      BY PlacesAre DEF UpdatePlaces
    <3> QED BY <3>1, <3>2, PassedPlaces DEF PassedBy
  <2>2. w1[u] = Unit \X {LastBefore(Max(Passed(th, u, UpdatePlaces)), CondensePlaces)}
    BY <2>1 DEF SInv, Corrected
  <2>3. ASSUME NEW w \in Unit
        PROVE  NumbersOK(w) /\ Here(w) \notin BeforeReceived /\ Here(w) \notin BeforeFinal
    BY <2>1, AllNumbered DEF SInv, NInv, BeforeReceived
  <2>4. \A w \in Unit : /\ dc_global_dof_indx[<<w, w>>] = FirstNumber(w)
                        /\ \A v \in OwnedEdges(w) :
                             dc_global_dof_indx[<<w, v>>] = FirstNumber(w) + LocalIndex(<<w, v>>)
                        /\ \A v \in Neigh[w] : Owns(v, w) =>
                             dc_global_dof_indx[<<w, v>>] = FirstNumber(v) + LocalIndex(<<v, w>>)
    BY <2>3 DEF NumbersOK
  <2>5. ASSUME NEW e \in RankBoundaries, Owns(e[2], e[1])
        PROVE  dc_global_dof_indx[e] = dc_global_dof_indx[<<e[2], e[1]>>]
    <3>1. /\ e = <<e[1], e[2]>> /\ e[1] \in Unit /\ e[2] \in Neigh[e[1]]
          /\ e[2] \in Unit /\ e[1] \in OwnedEdges(e[2])
      BY <2>5, NeighAssumption DEF RankBoundaries, OwnedEdges
    <3> QED BY <2>4, <2>5, <3>1
  <2>6. Numbering(dc_global_dof_indx)
    BY <2>4, <2>5, NumberingFromOffsets
  <2> QED BY <2>2, <2>6
<1>2. Init => TInv /\ CInv /\ SInv /\ NInv
  BY InitCInv, InitSInv, InitNInv
<1>3. TInv /\ CInv /\ SInv /\ NInv /\ [Next]_vars => TInv' /\ CInv' /\ SInv' /\ NInv'
  BY NextCInv, NextSInv, NextNInv
<1> QED BY <1>1, <1>2, <1>3, PTL DEF Spec
=============================================================================
