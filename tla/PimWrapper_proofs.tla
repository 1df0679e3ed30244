------------------------- MODULE PimWrapper_proofs --------------------------
(***************************************************************************)
(* Proofs about the PIM wrapper for every set of requests, both memory     *)
(* structures and both timing modes.                                       *)
(***************************************************************************)
EXTENDS PimClient, Subsequences_proofs, FiniteSetTheorems, SequenceTheorems, TLAPS

-----------------------------------------------------------------------------
(* Counting the entries of one class in a queue                            *)

Positions(c, s) == {i \in 1..Len(s) : ClassOf(s[i]) = c}

\* The positions counted by CountOf form a finite set, so the count is a
\* natural number.
LEMMA CountFinite ==
  ASSUME NEW c, NEW s \in Seq(Requests)
  PROVE  IsFiniteSet(Positions(c, s)) /\ CountOf(c, s) \in Nat
<1>1. IsFiniteSet(1..Len(s))
  BY FS_Interval
<1>2. Positions(c, s) \in SUBSET (1..Len(s))
  BY DEF Positions
<1>3. IsFiniteSet(Positions(c, s))
  BY <1>1, <1>2, FS_Subset
<1> QED
  BY <1>3, FS_CardinalityType DEF Positions, CountOf

\* An empty queue holds no entry of any class.
LEMMA CountEmpty == \A c : CountOf(c, <<>>) = 0
<1>1. SUFFICES ASSUME NEW c PROVE CountOf(c, <<>>) = 0
  OBVIOUS
<1>2. {i \in 1..Len(<<>>) : ClassOf(<<>>[i]) = c} = {}
  OBVIOUS
<1> QED
  BY <1>2, FS_EmptySet DEF CountOf

\* push_back adds one to the count of the entry's class and to no other.
LEMMA CountAppend ==
  ASSUME NEW c, NEW s \in Seq(Requests), NEW r \in Requests
  PROVE  CountOf(c, Append(s, r))
           = CountOf(c, s) + (IF ClassOf(r) = c THEN 1 ELSE 0)
<1> DEFINE P == Positions(c, s)  n == Len(s) + 1
<1>1. IsFiniteSet(P) /\ Cardinality(P) \in Nat /\ CountOf(c, s) = Cardinality(P)
  BY CountFinite DEF CountOf, Positions
<1>2. n \notin P
  BY DEF Positions
<1>3. CASE ClassOf(r) = c
  <2>1. Positions(c, Append(s, r)) = P \cup {n}
    BY <1>3 DEF Positions
  <2> QED
    BY <2>1, <1>1, <1>2, <1>3, FS_AddElement DEF CountOf, Positions
<1>4. CASE ClassOf(r) # c
  <2>1. Positions(c, Append(s, r)) = P
    BY <1>4 DEF Positions
  <2>2. CountOf(c, Append(s, r)) = Cardinality(Positions(c, Append(s, r)))
    BY DEF CountOf, Positions
  <2> QED
    BY <2>1, <2>2, <1>1, <1>4
<1> QED
  BY <1>3, <1>4

\* pop_front takes one from the count of the front's class.
LEMMA CountTail ==
  ASSUME NEW c, NEW s \in Seq(Requests), s # <<>>
  PROVE  CountOf(c, s)
           = CountOf(c, Tail(s)) + (IF ClassOf(Head(s)) = c THEN 1 ELSE 0)
<1> DEFINE T == Positions(c, Tail(s))
           U == {i + 1 : i \in T}
           f == [i \in T |-> i + 1]
<1>1. Tail(s) \in Seq(Requests) /\ Len(Tail(s)) = Len(s) - 1 /\ Len(s) >= 1
  OBVIOUS
<1>2. IsFiniteSet(T) /\ CountOf(c, Tail(s)) = Cardinality(T) /\ Cardinality(T) \in Nat
  BY <1>1, CountFinite DEF CountOf, Positions
<1>3. T \subseteq Nat
  BY DEF Positions
<1>4. IsFiniteSet(U) /\ Cardinality(U) = Cardinality(T)
  <2>1. f \in Bijection(T, U)
    BY <1>3 DEF Bijection, Injection, Surjection, IsInjective
  <2> QED
    BY <2>1, <1>2, FS_Bijection DEF ExistsBijection
<1>5. 1 \notin U
  BY <1>3 DEF Positions
<1>6. \A i \in 1..Len(Tail(s)) : Tail(s)[i] = s[i + 1]
  OBVIOUS
<1>7. U = Positions(c, s) \ {1}
  <2>1. ASSUME NEW j \in Positions(c, s), j # 1
        PROVE  j \in U
    <3>1. j - 1 \in 1..Len(Tail(s)) /\ ClassOf(Tail(s)[j - 1]) = c
      BY <2>1, <1>1, <1>6 DEF Positions
    <3>2. j - 1 \in T /\ (j - 1) + 1 = j
      BY <3>1, <2>1 DEF Positions
    <3> QED
      BY <3>2
  <2>2. ASSUME NEW i \in T
        PROVE  i + 1 \in Positions(c, s) /\ i + 1 # 1
    BY <1>1, <1>6 DEF Positions
  <2> QED
    BY <2>1, <2>2
<1>8. CASE ClassOf(Head(s)) = c
  <2>1. Positions(c, s) = U \cup {1}
    BY <1>7, <1>8, <1>1 DEF Positions
  <2> QED
    BY <2>1, <1>2, <1>4, <1>5, <1>8, FS_AddElement DEF CountOf, Positions
<1>9. CASE ClassOf(Head(s)) # c
  <2>1. Positions(c, s) = U
    BY <1>7, <1>9, <1>1 DEF Positions
  <2>2. CountOf(c, s) = Cardinality(Positions(c, s))
    BY DEF CountOf, Positions
  <2> QED
    BY <2>1, <2>2, <1>2, <1>4, <1>9
<1> QED
  BY <1>8, <1>9

-----------------------------------------------------------------------------
(* What one iteration collects                                             *)

\* The entries that stay in an analytical queue are requests of its class,
\* and exactly the due ones have left.
LEMMA UndueFacts ==
  ASSUME TypeOK, WellFormed, NEW c \in Class
  PROVE  /\ Undue(c) \in Seq(Requests)
         /\ Len(Undue(c)) = Len(fast[c]) - due[c]
         /\ \A i \in 1..Len(Undue(c)) : ClassOf(Undue(c)[i]) = c
<1> DEFINE n == Len(fast[c])  d == due[c]
<1>1. fast[c] \in Seq(Requests) /\ n \in Nat /\ d \in Nat /\ d <= n
  BY DEF TypeOK, WellFormed
<1>2. \A i \in (d + 1)..n : fast[c][i] \in Requests
  BY <1>1, ElementOfSeq
<1>3. /\ Undue(c) \in Seq(Requests)
      /\ Len(Undue(c)) = IF d + 1 <= n THEN n - (d + 1) + 1 ELSE 0
      /\ \A i \in 1..(n - (d + 1) + 1) : Undue(c)[i] = fast[c][d + 1 + i - 1]
  <2>1. d + 1 \in Int /\ n \in Int /\ Undue(c) = SubSeq(fast[c], d + 1, n)
    BY <1>1 DEF Undue
  <2> HIDE DEF d, n
  <2> QED
    BY <2>1, <1>2, SubSeqProperties
<1>4. Len(Undue(c)) = n - d
  BY <1>1, <1>3
<1>5. \A i \in 1..Len(Undue(c)) : ClassOf(Undue(c)[i]) = c
  <2> TAKE i \in 1..Len(Undue(c))
  <2>1. i \in 1..(n - (d + 1) + 1) /\ d + i \in 1..n /\ d + 1 + i - 1 = d + i
    BY <1>1, <1>4
  <2> QED
    BY <2>1, <1>3, SMTT(30) DEF WellFormed
<1> QED
  BY <1>3, <1>4, <1>5

\* Collecting moves requests to the completion queues and loses none: what
\* leaves the analytical queue and the bridge's list of class c arrives in
\* completed[c].
LEMMA CollectFacts ==
  ASSUME TypeOK, WellFormed, Collect
  PROVE  /\ completed' \in [Class -> Seq(Requests)]
         /\ bridge_done' \in Seq(Requests)
         /\ \A c \in Class :
              Len(Undue(c)) + CountOf(c, bridge_done') + Len(completed'[c])
                = Len(fast[c]) + CountOf(c, bridge_done) + Len(completed[c])
<1>1. ASSUME NEW c \in Class
      PROVE  /\ SubSeq(fast[c], 1, due[c]) \in Seq(Requests)
             /\ Len(SubSeq(fast[c], 1, due[c])) = due[c]
  <2>1. fast[c] \in Seq(Requests) /\ due[c] \in Nat /\ due[c] <= Len(fast[c])
    BY DEF TypeOK, WellFormed
  <2>2. \A i \in 1..due[c] : fast[c][i] \in Requests
    BY <2>1, ElementOfSeq
  <2> QED
    BY <2>1, <2>2, SubSeqProperties
<1> DEFINE One(c) == IF bridge_done # <<>> /\ ClassOf(Head(bridge_done)) = c
                       THEN <<Head(bridge_done)>> ELSE <<>>
<1>2. ASSUME NEW c \in Class
      PROVE  /\ One(c) \in Seq(Requests)
             /\ Len(One(c)) = IF bridge_done # <<>> /\ ClassOf(Head(bridge_done)) = c
                                THEN 1 ELSE 0
  BY DEF TypeOK
<1> HIDE DEF One
<1>3. ASSUME NEW c \in Class
      PROVE  /\ completed'[c] \in Seq(Requests)
             /\ Len(completed'[c]) = Len(completed[c]) + due[c] + Len(One(c))
  <2>1. completed'[c] = (completed[c] \o SubSeq(fast[c], 1, due[c])) \o One(c)
    BY DEF Collect, Collected, One
  <2>2. completed[c] \in Seq(Requests)
    BY DEF TypeOK
  <2>3. /\ completed[c] \o SubSeq(fast[c], 1, due[c]) \in Seq(Requests)
        /\ Len(completed[c] \o SubSeq(fast[c], 1, due[c])) = Len(completed[c]) + due[c]
    BY <2>2, <1>1, ConcatProperties
  <2> HIDE DEF One
  <2> QED
    BY <2>1, <2>3, <1>2, ConcatProperties
<1>4. completed' \in [Class -> Seq(Requests)]
  BY <1>3 DEF Collect
<1>5. bridge_done' \in Seq(Requests)
  BY DEF Collect, TypeOK
<1>6. ASSUME NEW c \in Class
      PROVE  CountOf(c, bridge_done) = CountOf(c, bridge_done') + Len(One(c))
  <2>1. CASE bridge_done = <<>>
    BY <2>1, <1>2, CountEmpty DEF Collect
  <2>2. CASE bridge_done # <<>>
    BY <2>2, <1>2, CountTail DEF Collect, TypeOK
  <2> QED
    BY <2>1, <2>2
<1>7. ASSUME NEW c \in Class
      PROVE  Len(Undue(c)) + CountOf(c, bridge_done') + Len(completed'[c])
               = Len(fast[c]) + CountOf(c, bridge_done) + Len(completed[c])
  <2>1. Len(Undue(c)) = Len(fast[c]) - due[c]
    BY UndueFacts
  <2>2. Len(fast[c]) \in Nat /\ due[c] \in Nat /\ Len(completed[c]) \in Nat
    BY DEF TypeOK
  <2>3. CountOf(c, bridge_done') \in Nat /\ Len(One(c)) \in Nat
    BY <1>5, <1>2, CountFinite
  <2>4. /\ Len(completed'[c]) = Len(completed[c]) + due[c] + Len(One(c))
        /\ CountOf(c, bridge_done) = CountOf(c, bridge_done') + Len(One(c))
    BY <1>3, <1>6
  <2> DEFINE u == Len(Undue(c))  f == Len(fast[c])  d == due[c]
             k == CountOf(c, bridge_done)  kp == CountOf(c, bridge_done')
             m == Len(completed[c])  mp == Len(completed'[c])  o == Len(One(c))
  <2>5. /\ u = f - d /\ f \in Nat /\ d \in Nat /\ m \in Nat /\ kp \in Nat
        /\ o \in Nat /\ mp = m + d + o /\ k = kp + o
    BY <2>1, <2>2, <2>3, <2>4
  <2>6. u + kp + mp = f + k + m
    <3> HIDE DEF u, f, d, k, kp, m, mp, o
    <3> QED
      BY <2>5
  <2> QED
    BY <2>6
<1> QED
  BY <1>4, <1>5, <1>7

-----------------------------------------------------------------------------
(* The analytical queues after collecting                                  *)

\* Both analytical queues without their due entries.
Rest == [c \in Class |-> Undue(c)]

\* The queues stay well formed when the due entries have left them.
LEMMA RestFacts ==
  ASSUME TypeOK, WellFormed
  PROVE  /\ Rest \in [Class -> Seq(Requests)]
         /\ \A c \in Class : \A i \in 1..Len(Rest[c]) : ClassOf(Rest[c][i]) = c
BY UndueFacts DEF Rest

\* A class has a defined class name, and there are two of them.
LEMMA ClassFacts ==
  /\ \A r : ClassOf(r) \in Class
  /\ \A c \in Class : Other(c) \in Class /\ Other(c) # c
  /\ \A c, d \in Class : d # c => d = Other(c)
BY DEF ClassOf, Class, Other

\* send_transaction keeps the queues typed and sorted by class: it appends
\* one request of class ClassOf(r) to one of them.
LEMMA SendFacts ==
  ASSUME NEW r \in Requests, NEW fastq \in [Class -> Seq(Requests)],
         \A c \in Class : \A i \in 1..Len(fastq[c]) : ClassOf(fastq[c][i]) = c,
         TypeOK, WellFormed, send_transaction(r, fastq)
  PROVE  /\ pim_mode' = ClassOf(r)
         /\ busy' \in [Class -> BOOLEAN] /\ busy_count' \in [Class -> Nat]
         /\ fast' \in [Class -> Seq(Requests)] /\ bridge' \in [Class -> Seq(Requests)]
         /\ \A c \in Class : \A i \in 1..Len(fast'[c]) : ClassOf(fast'[c][i]) = c
         /\ \A c \in Class : \A i \in 1..Len(bridge'[c]) : ClassOf(bridge'[c][i]) = c
         /\ \A c \in Class : Len(fast'[c]) >= Len(fastq[c])
         /\ \A c \in Class : Len(fast'[c]) + Len(bridge'[c])
              = Len(fastq[c]) + Len(bridge[c]) + (IF c = ClassOf(r) THEN 1 ELSE 0)
         /\ \A c \in Class : busy_count'[c]
              = busy_count[c] + (IF c = ClassOf(r) THEN 1 ELSE 0)
         /\ \A c \in Class : busy'[c] = (busy[c] \/ c = ClassOf(r))
<1> DEFINE k == ClassOf(r)
<1>0. k \in Class
  BY ClassFacts
<1> HIDE DEF k
<1>1. /\ pim_mode' = k
      /\ busy' = [busy EXCEPT ![k] = TRUE]
      /\ busy_count' = [busy_count EXCEPT ![k] = @ + 1]
      /\ fast' = IF Analytical(r) THEN [fastq EXCEPT ![k] = Append(@, r)] ELSE fastq
      /\ bridge' = IF Analytical(r) THEN bridge ELSE [bridge EXCEPT ![k] = Append(@, r)]
  BY DEF send_transaction, k
<1>2. /\ busy \in [Class -> BOOLEAN] /\ busy_count \in [Class -> Nat]
      /\ bridge \in [Class -> Seq(Requests)]
      /\ \A c \in Class : \A i \in 1..Len(bridge[c]) : ClassOf(bridge[c][i]) = c
  BY DEF TypeOK, WellFormed
<1>3. ASSUME NEW q \in [Class -> Seq(Requests)],
             \A c \in Class : \A i \in 1..Len(q[c]) : ClassOf(q[c][i]) = c
      PROVE  LET p == [q EXCEPT ![k] = Append(@, r)] IN
             /\ p \in [Class -> Seq(Requests)]
             /\ \A c \in Class : \A i \in 1..Len(p[c]) : ClassOf(p[c][i]) = c
             /\ \A c \in Class : Len(p[c]) = Len(q[c]) + (IF c = k THEN 1 ELSE 0)
  <2> DEFINE p == [q EXCEPT ![k] = Append(@, r)]
  <2>1. p \in [Class -> Seq(Requests)]
    BY <1>0, <1>3
  <2>2. \A c \in Class : Len(p[c]) = Len(q[c]) + (IF c = k THEN 1 ELSE 0)
    BY <1>0, <1>3
  <2>3. ASSUME NEW c \in Class, NEW i \in 1..Len(p[c])
        PROVE  ClassOf(p[c][i]) = c
    <3>1. CASE c = k /\ i = Len(q[c]) + 1
      BY <3>1, <1>0, <1>3 DEF k
    <3>2. CASE ~(c = k /\ i = Len(q[c]) + 1)
      <4>1. i \in 1..Len(q[c]) /\ p[c][i] = q[c][i]
        BY <3>2, <2>2, <1>0, <1>3
      <4> QED
        BY <4>1, <1>3
    <3> QED
      BY <3>1, <3>2
  <2> QED
    BY <2>1, <2>2, <2>3
<1>6. /\ busy' \in [Class -> BOOLEAN] /\ busy_count' \in [Class -> Nat]
      /\ \A c \in Class : busy_count'[c] = busy_count[c] + (IF c = k THEN 1 ELSE 0)
  BY <1>0, <1>1, <1>2
<1>7. \A c \in Class : busy'[c] = (busy[c] \/ c = k)
  BY <1>0, <1>1, <1>2
<1>8. /\ \A c \in Class : Len(fast'[c]) >= Len(fastq[c])
      /\ \A c \in Class : Len(fast'[c]) + Len(bridge'[c])
              = Len(fastq[c]) + Len(bridge[c]) + (IF c = k THEN 1 ELSE 0)
      /\ fast' \in [Class -> Seq(Requests)] /\ bridge' \in [Class -> Seq(Requests)]
      /\ \A c \in Class : \A i \in 1..Len(fast'[c]) : ClassOf(fast'[c][i]) = c
      /\ \A c \in Class : \A i \in 1..Len(bridge'[c]) : ClassOf(bridge'[c][i]) = c
  <2>4. CASE Analytical(r)
    <3>1. /\ fast' = [fastq EXCEPT ![k] = Append(@, r)] /\ bridge' = bridge
      BY <1>1, <2>4
    <3>2. /\ fast' \in [Class -> Seq(Requests)]
          /\ \A c \in Class : \A i \in 1..Len(fast'[c]) : ClassOf(fast'[c][i]) = c
          /\ \A c \in Class : Len(fast'[c]) = Len(fastq[c]) + (IF c = k THEN 1 ELSE 0)
      BY <1>3, <3>1
    <3>3. \A c \in Class : Len(fastq[c]) \in Nat /\ Len(bridge[c]) \in Nat
      BY <1>2
    <3>4. bridge' = bridge
      BY <3>1
    <3>5. ASSUME NEW c \in Class
          PROVE  /\ Len(fast'[c]) >= Len(fastq[c])
                 /\ Len(fast'[c]) + Len(bridge'[c])
                      = Len(fastq[c]) + Len(bridge[c]) + (IF c = k THEN 1 ELSE 0)
      <4> DEFINE f == Len(fast'[c])  b == Len(bridge'[c])  o == IF c = k THEN 1 ELSE 0
                 fq == Len(fastq[c])  bq == Len(bridge[c])
      <4>1. /\ f = fq + o /\ b = bq
            /\ fq \in Nat /\ bq \in Nat /\ o \in Nat
        BY <3>2, <3>3, <3>4
      <4>2. f >= fq /\ f + b = fq + bq + o
        <5> HIDE DEF f, b, o, fq, bq
        <5> QED
          BY <4>1
      <4> QED
        BY <4>2
    <3> QED
      BY <1>2, <3>4, <3>2, <3>5
  <2>5. CASE ~Analytical(r)
    <3>1. /\ bridge' = [bridge EXCEPT ![k] = Append(@, r)] /\ fast' = fastq
      BY <1>1, <2>5
    <3>2. /\ bridge' \in [Class -> Seq(Requests)]
          /\ \A c \in Class : \A i \in 1..Len(bridge'[c]) : ClassOf(bridge'[c][i]) = c
          /\ \A c \in Class : Len(bridge'[c]) = Len(bridge[c]) + (IF c = k THEN 1 ELSE 0)
      BY <1>2, <1>3, <3>1, ZenonT(30)
    <3>3. \A c \in Class : Len(fastq[c]) \in Nat /\ Len(bridge[c]) \in Nat
      BY <1>2
    <3>4. fast' = fastq
      BY <3>1
    <3>5. ASSUME NEW c \in Class
          PROVE  /\ Len(fast'[c]) >= Len(fastq[c])
                 /\ Len(fast'[c]) + Len(bridge'[c])
                      = Len(fastq[c]) + Len(bridge[c]) + (IF c = k THEN 1 ELSE 0)
      <4> DEFINE f == Len(fast'[c])  b == Len(bridge'[c])  o == IF c = k THEN 1 ELSE 0
                 fq == Len(fastq[c])  bq == Len(bridge[c])
      <4>1. /\ b = bq + o /\ f = fq
            /\ fq \in Nat /\ bq \in Nat /\ o \in Nat
        BY <3>2, <3>3, <3>4
      <4>2. f >= fq /\ f + b = fq + bq + o
        <5> HIDE DEF f, b, o, fq, bq
        <5> QED
          BY <4>1
      <4> QED
        BY <4>2
    <3> QED
      BY <1>2, <3>4, <3>2, <3>5
  <2> QED
    BY <2>4, <2>5
<1> QED
  BY <1>1, <1>6, <1>7, <1>8 DEF k

-----------------------------------------------------------------------------
(* How each kind of step changes the number of requests in flight          *)

\* The number of requests in flight is a natural number.
LEMMA FlightNat ==
  ASSUME TypeOK, NEW c \in Class
  PROVE  /\ Len(fast[c]) \in Nat /\ Len(bridge[c]) \in Nat
         /\ CountOf(c, bridge_done) \in Nat /\ Len(completed[c]) \in Nat
         /\ InFlight(c) \in Nat
<1>1. Len(fast[c]) \in Nat /\ Len(bridge[c]) \in Nat /\ Len(completed[c]) \in Nat
  BY DEF TypeOK
<1>2. CountOf(c, bridge_done) \in Nat
  BY CountFinite DEF TypeOK
<1> DEFINE f == Len(fast[c])  b == Len(bridge[c])
           k == CountOf(c, bridge_done)  m == Len(completed[c])
<1>3. f \in Nat /\ b \in Nat /\ k \in Nat /\ m \in Nat
  BY <1>1, <1>2
<1>4. f + b + k + m \in Nat
  <2> HIDE DEF f, b, k, m
  <2> QED
    BY <1>3
<1> QED
  BY <1>1, <1>2, <1>4 DEF InFlight

\* Collecting alone leaves the number in flight as it is.
LEMMA CollectFlight ==
  ASSUME TypeOK, WellFormed, Collect, fast' = Rest, bridge' = bridge
  PROVE  \A c \in Class : InFlight(c)' = InFlight(c)
<1> TAKE c \in Class
<1> DEFINE u == Len(Undue(c))  f == Len(fast[c])  b == Len(bridge[c])
           k == CountOf(c, bridge_done)  kp == CountOf(c, bridge_done')
           m == Len(completed[c])  mp == Len(completed'[c])
<1>1. u + kp + mp = f + k + m
  BY CollectFacts
<1>2. completed'[c] \in Seq(Requests) /\ bridge_done' \in Seq(Requests)
  BY CollectFacts
<1>3. f \in Nat /\ b \in Nat /\ k \in Nat /\ m \in Nat /\ u \in Nat
  BY FlightNat, UndueFacts
<1>4. kp \in Nat /\ mp \in Nat
  BY <1>2, CountFinite
<1>5. InFlight(c) = f + b + k + m
  BY DEF InFlight
<1>6. InFlight(c)' = u + b + kp + mp
  BY DEF InFlight, Rest
<1>7. u + b + kp + mp = f + b + k + m
  <2> HIDE DEF u, f, b, k, kp, m, mp
  <2> QED
    BY <1>1, <1>3, <1>4
<1> QED
  BY <1>5, <1>6, <1>7

\* Dispatching r adds one request to its class.
LEMMA SendFlight ==
  ASSUME TypeOK, WellFormed, NEW r \in Requests,
         NEW fastq \in [Class -> Seq(Requests)],
         \A c \in Class : \A i \in 1..Len(fastq[c]) : ClassOf(fastq[c][i]) = c,
         send_transaction(r, fastq),
         bridge_done' \in Seq(Requests),
         completed' \in [Class -> Seq(Requests)],
         \A c \in Class :
           Len(fastq[c]) + CountOf(c, bridge_done') + Len(completed'[c])
             = Len(fast[c]) + CountOf(c, bridge_done) + Len(completed[c])
  PROVE  \A c \in Class :
           InFlight(c)' = InFlight(c) + (IF c = ClassOf(r) THEN 1 ELSE 0)
<1> TAKE c \in Class
<1> DEFINE f == Len(fast[c])  fq == Len(fastq[c])  fp == Len(fast'[c])
           b == Len(bridge[c])  bp == Len(bridge'[c])
           k == CountOf(c, bridge_done)  kp == CountOf(c, bridge_done')
           m == Len(completed[c])  mp == Len(completed'[c])
           o == IF c = ClassOf(r) THEN 1 ELSE 0
<1>1. fq + kp + mp = f + k + m
  OBVIOUS
<1>2. fp + bp = fq + b + o /\ fast'[c] \in Seq(Requests) /\ bridge'[c] \in Seq(Requests)
  BY SendFacts
<1>3. f \in Nat /\ b \in Nat /\ k \in Nat /\ m \in Nat
  BY FlightNat
<1>4. kp \in Nat /\ mp \in Nat /\ fq \in Nat /\ o \in Nat
  BY CountFinite
<1>5. fp \in Nat /\ bp \in Nat
  BY <1>2
<1>6. InFlight(c) = f + b + k + m
  BY DEF InFlight
<1>7. InFlight(c)' = fp + bp + kp + mp
  BY DEF InFlight
<1>8. fp + bp + kp + mp = f + b + k + m + o
  <2> HIDE DEF f, fq, fp, b, bp, k, kp, m, mp, o
  <2> QED
    BY <1>1, <1>2, <1>3, <1>4, <1>5
<1> QED
  BY <1>6, <1>7, <1>8

\* Erasing the entry at position i shortens a queue by one and keeps the rest.
LEMMA RemoveFacts ==
  ASSUME NEW s \in Seq(Requests), NEW i \in 1..Len(s)
  PROVE  LET t == SubSeq(s, 1, i - 1) \o SubSeq(s, i + 1, Len(s)) IN
         /\ t \in Seq(Requests)
         /\ Len(t) = Len(s) - 1
         /\ \A j \in 1..Len(t) : \E k \in 1..Len(s) : t[j] = s[k]
<1> DEFINE n == Len(s)  a == SubSeq(s, 1, i - 1)  b == SubSeq(s, i + 1, n)  t == a \o b
<1>1. n \in Nat /\ i \in Nat /\ i >= 1 /\ i <= n /\ \A k \in 1..n : s[k] \in Requests
  BY ElementOfSeq
<1>2. /\ a \in Seq(Requests) /\ Len(a) = i - 1
      /\ \A j \in 1..(i - 1) : a[j] = s[j]
  <2>1. \A k \in 1..(i - 1) : s[k] \in Requests
    BY <1>1
  <2>2. /\ a \in Seq(Requests)
        /\ Len(a) = IF 1 <= i - 1 THEN (i - 1) - 1 + 1 ELSE 0
        /\ \A j \in 1..((i - 1) - 1 + 1) : a[j] = s[1 + j - 1]
    BY <1>1, <2>1, SubSeqProperties
  <2>3. Len(a) = i - 1
    BY <1>1, <2>2
  <2>4. ASSUME NEW j \in 1..(i - 1) PROVE a[j] = s[j]
    <3>1. j \in 1..((i - 1) - 1 + 1) /\ 1 + j - 1 = j
      BY <1>1
    <3> QED
      BY <3>1, <2>2
  <2> QED
    BY <2>2, <2>3, <2>4
<1>3. /\ b \in Seq(Requests) /\ Len(b) = n - i
      /\ \A j \in 1..(n - i) : b[j] = s[i + j]
  <2>1. \A k \in (i + 1)..n : s[k] \in Requests
    BY <1>1
  <2>2. /\ b \in Seq(Requests)
        /\ Len(b) = IF i + 1 <= n THEN n - (i + 1) + 1 ELSE 0
        /\ \A j \in 1..(n - (i + 1) + 1) : b[j] = s[(i + 1) + j - 1]
    BY <1>1, <2>1, SubSeqProperties
  <2>3. Len(b) = n - i
    BY <1>1, <2>2
  <2>4. ASSUME NEW j \in 1..(n - i) PROVE b[j] = s[i + j]
    <3>1. j \in 1..(n - (i + 1) + 1) /\ (i + 1) + j - 1 = i + j
      BY <1>1
    <3> QED
      BY <3>1, <2>2
  <2> QED
    BY <2>2, <2>3, <2>4
<1> HIDE DEF a, b
<1>4. /\ t \in Seq(Requests) /\ Len(t) = (i - 1) + (n - i)
      /\ \A j \in 1..((i - 1) + (n - i)) :
           t[j] = IF j <= i - 1 THEN a[j] ELSE b[j - (i - 1)]
  <2>1. /\ t \in Seq(Requests) /\ Len(t) = Len(a) + Len(b)
        /\ \A j \in 1..(Len(a) + Len(b)) :
             t[j] = IF j <= Len(a) THEN a[j] ELSE b[j - Len(a)]
    <3>1. a \in Seq(Requests) /\ b \in Seq(Requests)
      BY <1>2, <1>3
    <3> QED
      BY <3>1, ConcatProperties, Zenon
  <2>2. Len(a) = i - 1 /\ Len(b) = n - i
    BY <1>2, <1>3
  <2> QED
    BY <2>1, <2>2, Zenon
<1>5. Len(t) = n - 1
  BY <1>1, <1>4
<1>6. ASSUME NEW j \in 1..Len(t)
      PROVE  \E k \in 1..n : t[j] = s[k]
  <2>1. j \in 1..((i - 1) + (n - i))
    BY <1>4
  <2>2. CASE j <= i - 1
    <3>1. j \in 1..(i - 1) /\ j \in 1..n
      BY <2>1, <2>2, <1>1
    <3> QED
      BY <3>1, <2>1, <2>2, <1>2, <1>4
  <2>3. CASE ~(j <= i - 1)
    <3>1. j - (i - 1) \in 1..(n - i) /\ i + (j - (i - 1)) \in 1..n
      BY <2>1, <2>3, <1>1
    <3>2. t[j] = s[i + (j - (i - 1))]
      BY <3>1, <2>1, <2>3, <1>3, <1>4
    <3> QED
      BY <3>1, <3>2
  <2> QED
    BY <2>2, <2>3
<1> QED
  BY <1>4, <1>5, <1>6 DEF a, b

\* A request that DRAMsim3 returns moves to the bridge's completed list and
\* stays in flight.
LEMMA CallBackFacts ==
  ASSUME TypeOK, WellFormed, NEW i \in 1..Len(bridge["memory"]), BridgeCallBack(i)
  PROVE  /\ bridge' \in [Class -> Seq(Requests)] /\ bridge_done' \in Seq(Requests)
         /\ \A c \in Class : \A j \in 1..Len(bridge'[c]) : ClassOf(bridge'[c][j]) = c
         /\ \A c \in Class : InFlight(c)' = InFlight(c)
<1> DEFINE q == bridge["memory"]
           t == SubSeq(q, 1, i - 1) \o SubSeq(q, i + 1, Len(q))
<1>1. bridge \in [Class -> Seq(Requests)] /\ q \in Seq(Requests) /\ "memory" \in Class
  BY DEF TypeOK, Class
<1>2. bridge' = [bridge EXCEPT !["memory"] = t] /\ bridge_done' = Append(bridge_done, q[i])
  BY DEF BridgeCallBack
<1>3. /\ t \in Seq(Requests) /\ Len(t) = Len(q) - 1
      /\ \A j \in 1..Len(t) : \E k \in 1..Len(q) : t[j] = q[k]
  BY <1>1, RemoveFacts
<1>4. q[i] \in Requests /\ ClassOf(q[i]) = "memory"
  BY <1>1, ElementOfSeq DEF WellFormed
<1> HIDE DEF t
<1>5. bridge' \in [Class -> Seq(Requests)] /\ bridge_done' \in Seq(Requests)
  BY <1>1, <1>2, <1>3, <1>4, AppendProperties DEF TypeOK
<1>6. ASSUME NEW c \in Class, NEW j \in 1..Len(bridge'[c])
      PROVE  ClassOf(bridge'[c][j]) = c
  <2>1. CASE c = "memory"
    <3>1. bridge'[c] = t
      BY <2>1, <1>1, <1>2
    <3>2. PICK k \in 1..Len(q) : t[j] = q[k]
      BY <3>1, <1>3
    <3>3. ClassOf(q[k]) = "memory"
      BY <1>1 DEF WellFormed
    <3> QED
      BY <2>1, <3>1, <3>2, <3>3
  <2>2. CASE c # "memory"
    <3>1. bridge'[c] = bridge[c]
      BY <2>2, <1>1, <1>2
    <3> QED
      BY <3>1 DEF WellFormed
  <2> QED
    BY <2>1, <2>2
<1>7. ASSUME NEW c \in Class
      PROVE  InFlight(c)' = InFlight(c)
  <2> DEFINE f == Len(fast[c])  b == Len(bridge[c])  bp == Len(bridge'[c])
             k == CountOf(c, bridge_done)  kp == CountOf(c, bridge_done')
             m == Len(completed[c])  o == IF ClassOf(q[i]) = c THEN 1 ELSE 0
  <2>1. kp = k + o
    BY <1>2, <1>4, CountAppend DEF TypeOK
  <2>2. bp = b - o
    <3>1. CASE c = "memory"
      <4>1. bridge'[c] = t /\ bridge[c] = q /\ o = 1
        BY <3>1, <1>1, <1>2, <1>4
      <4> QED
        BY <4>1, <1>3
    <3>2. CASE c # "memory"
      <4>1. bridge'[c] = bridge[c] /\ o = 0 /\ b \in Nat
        BY <3>2, <1>1, <1>2, <1>4
      <4>2. bp = b
        BY <4>1
      <4> HIDE DEF o, b, bp
      <4> QED
        BY <4>1, <4>2
    <3> QED
      BY <3>1, <3>2
  <2>3. f \in Nat /\ b \in Nat /\ k \in Nat /\ m \in Nat /\ o \in Nat
    BY FlightNat
  <2>4. InFlight(c) = f + b + k + m /\ InFlight(c)' = f + bp + kp + m
    BY DEF InFlight, BridgeCallBack
  <2>5. f + bp + kp + m = f + b + k + m
    <3> HIDE DEF f, b, bp, k, kp, m, o
    <3> QED
      BY <2>1, <2>2, <2>3
  <2> QED
    BY <2>4, <2>5
<1> QED
  BY <1>5, <1>6, <1>7

\* A PIM command that the bridge's engine finishes also stays in flight.
LEMMA ComputeDoneFacts ==
  ASSUME TypeOK, WellFormed, BridgeComputeDone
  PROVE  /\ bridge' \in [Class -> Seq(Requests)] /\ bridge_done' \in Seq(Requests)
         /\ \A c \in Class : \A j \in 1..Len(bridge'[c]) : ClassOf(bridge'[c][j]) = c
         /\ \A c \in Class : InFlight(c)' = InFlight(c)
<1> DEFINE q == bridge["compute"]
<1>1. /\ bridge \in [Class -> Seq(Requests)] /\ q \in Seq(Requests)
      /\ "compute" \in Class /\ q # <<>>
  BY DEF TypeOK, Class, BridgeComputeDone
<1>2. bridge' = [bridge EXCEPT !["compute"] = Tail(q)] /\ bridge_done' = Append(bridge_done, Head(q))
  BY DEF BridgeComputeDone
<1>3. /\ Tail(q) \in Seq(Requests) /\ Len(Tail(q)) = Len(q) - 1 /\ Head(q) \in Requests
      /\ Head(q) = q[1] /\ 1 \in 1..Len(q)
      /\ \A j \in 1..Len(Tail(q)) : Tail(q)[j] = q[j + 1] /\ j + 1 \in 1..Len(q)
  BY <1>1
<1>4. ClassOf(Head(q)) = "compute"
  BY <1>1, <1>3 DEF WellFormed
<1>5. bridge' \in [Class -> Seq(Requests)] /\ bridge_done' \in Seq(Requests)
  BY <1>1, <1>2, <1>3, AppendProperties DEF TypeOK
<1>6. ASSUME NEW c \in Class, NEW j \in 1..Len(bridge'[c])
      PROVE  ClassOf(bridge'[c][j]) = c
  <2>1. CASE c = "compute"
    <3>1. bridge'[c] = Tail(q)
      BY <2>1, <1>1, <1>2
    <3>2. Tail(q)[j] = q[j + 1] /\ j + 1 \in 1..Len(q)
      BY <3>1, <1>3
    <3>3. ClassOf(q[j + 1]) = "compute"
      BY <3>2, <1>1 DEF WellFormed
    <3> QED
      BY <2>1, <3>1, <3>2, <3>3
  <2>2. CASE c # "compute"
    <3>1. bridge'[c] = bridge[c]
      BY <2>2, <1>1, <1>2
    <3> QED
      BY <3>1 DEF WellFormed
  <2> QED
    BY <2>1, <2>2
<1>7. ASSUME NEW c \in Class
      PROVE  InFlight(c)' = InFlight(c)
  <2> DEFINE f == Len(fast[c])  b == Len(bridge[c])  bp == Len(bridge'[c])
             k == CountOf(c, bridge_done)  kp == CountOf(c, bridge_done')
             m == Len(completed[c])  o == IF ClassOf(Head(q)) = c THEN 1 ELSE 0
  <2>1. kp = k + o
    BY <1>2, <1>3, CountAppend DEF TypeOK
  <2>2. bp = b - o
    <3>1. CASE c = "compute"
      <4>1. bridge'[c] = Tail(q) /\ bridge[c] = q /\ o = 1
        BY <3>1, <1>1, <1>2, <1>4
      <4> QED
        BY <4>1, <1>3
    <3>2. CASE c # "compute"
      <4>1. bridge'[c] = bridge[c] /\ o = 0 /\ b \in Nat
        BY <3>2, <1>1, <1>2, <1>4
      <4>2. bp = b
        BY <4>1
      <4> HIDE DEF o, b, bp
      <4> QED
        BY <4>1, <4>2
    <3> QED
      BY <3>1, <3>2
  <2>3. f \in Nat /\ b \in Nat /\ k \in Nat /\ m \in Nat /\ o \in Nat
    BY FlightNat
  <2>4. InFlight(c) = f + b + k + m /\ InFlight(c)' = f + bp + kp + m
    BY DEF InFlight, BridgeComputeDone
  <2>5. f + bp + kp + m = f + b + k + m
    <3> HIDE DEF f, b, bp, k, kp, m, o
    <3> QED
      BY <2>1, <2>2, <2>3
  <2> QED
    BY <2>4, <2>5
<1> QED
  BY <1>5, <1>6, <1>7

\* Retiring the front of completed[k] takes one request of class k out of
\* flight; the counter follows without wrapping and the busy flag falls
\* exactly with the last request.
LEMMA ReleaseFacts ==
  ASSUME TypeOK, BusyCountExact, NEW k \in Class, completed[k] # <<>>, Release(k),
         UNCHANGED <<fast, bridge, bridge_done>>
  PROVE  /\ completed' \in [Class -> Seq(Requests)]
         /\ busy' \in [Class -> BOOLEAN] /\ busy_count' \in [Class -> Nat]
         /\ \A c \in Class : InFlight(c)' = InFlight(c) - (IF c = k THEN 1 ELSE 0)
         /\ InFlight(k) > 0
         /\ \A c \in Class : busy_count'[c] = InFlight(c)'
         /\ \A c \in Class : busy'[c] <=> busy_count'[c] > 0
         /\ \A c \in Class : busy'[c] => busy[c]
         /\ busy' # busy => resource_event'
<1>1. /\ completed \in [Class -> Seq(Requests)] /\ completed[k] \in Seq(Requests)
      /\ busy \in [Class -> BOOLEAN] /\ busy_count \in [Class -> Nat]
  BY DEF TypeOK
<1>2. Tail(completed[k]) \in Seq(Requests) /\ Len(Tail(completed[k])) = Len(completed[k]) - 1
      /\ Len(completed[k]) > 0
  BY <1>1
<1>3. completed' \in [Class -> Seq(Requests)]
  BY <1>1, <1>2 DEF Release
<1>4. ASSUME NEW c \in Class
      PROVE  InFlight(c)' = InFlight(c) - (IF c = k THEN 1 ELSE 0)
  <2> DEFINE f == Len(fast[c])  b == Len(bridge[c])  n == CountOf(c, bridge_done)
             m == Len(completed[c])  mp == Len(completed'[c])
             o == IF c = k THEN 1 ELSE 0
  <2>1. mp = m - o
    <3>1. CASE c = k
      BY <3>1, <1>1, <1>2 DEF Release
    <3>2. CASE c # k
      <4>1. completed'[c] = completed[c] /\ o = 0 /\ m \in Nat
        BY <3>2, <1>1 DEF Release
      <4>2. mp = m
        BY <4>1
      <4> HIDE DEF o, m, mp
      <4> QED
        BY <4>1, <4>2
    <3> QED
      BY <3>1, <3>2
  <2>2. f \in Nat /\ b \in Nat /\ n \in Nat /\ m \in Nat /\ o \in Nat
    BY FlightNat
  <2>3. InFlight(c) = f + b + n + m /\ InFlight(c)' = f + b + n + mp
    BY DEF InFlight
  <2>4. f + b + n + mp = f + b + n + m - o
    <3> HIDE DEF f, b, n, m, mp, o
    <3> QED
      BY <2>1, <2>2
  <2>5. InFlight(c)' = InFlight(c) - o
    <3> HIDE DEF f, b, n, m, mp, o
    <3> QED
      BY <2>2, <2>3, <2>4
  <2> QED
    BY <2>5
<1>5. InFlight(k) > 0
  <2> DEFINE f == Len(fast[k])  b == Len(bridge[k])  n == CountOf(k, bridge_done)
             m == Len(completed[k])
  <2>1. f \in Nat /\ b \in Nat /\ n \in Nat /\ m \in Nat /\ m > 0
    BY FlightNat, <1>2
  <2>2. InFlight(k) = f + b + n + m
    BY DEF InFlight
  <2>3. f + b + n + m > 0
    <3> HIDE DEF f, b, n, m
    <3> QED
      BY <2>1
  <2> QED
    BY <2>2, <2>3
<1>6. \A c \in Class : InFlight(c) \in Nat /\ busy_count[c] = InFlight(c)
  BY FlightNat DEF BusyCountExact
<1>7. /\ busy_count' = [busy_count EXCEPT ![k] = @ - 1]
      /\ busy' = [busy EXCEPT ![k] = @ /\ busy_count[k] # 1]
      /\ resource_event' = (resource_event \/ busy_count[k] = 1)
  BY DEF Release
<1>8. busy_count' \in [Class -> Nat] /\ \A c \in Class : busy_count'[c] = InFlight(c)'
  <2>1. busy_count[k] - 1 \in Nat
    BY <1>5, <1>6
  <2>2. busy_count' \in [Class -> Nat]
    BY <2>1, <1>1, <1>7
  <2>3. ASSUME NEW c \in Class PROVE busy_count'[c] = InFlight(c)'
    <3>1. CASE c = k
      <4>1. busy_count'[k] = busy_count[k] - 1 /\ InFlight(k)' = InFlight(k) - 1
        BY <1>1, <1>4, <1>7
      <4> QED
        BY <4>1, <3>1, <1>6
    <3>2. CASE c # k
      <4>1. busy_count'[c] = busy_count[c] /\ InFlight(c)' = InFlight(c) - 0
        BY <3>2, <1>1, <1>4, <1>7
      <4> QED
        BY <4>1, <1>6
    <3> QED
      BY <3>1, <3>2
  <2> QED
    BY <2>2, <2>3
<1>9. busy' \in [Class -> BOOLEAN] /\ \A c \in Class : busy'[c] => busy[c]
  BY <1>1, <1>7
<1>10. ASSUME NEW c \in Class PROVE busy'[c] <=> busy_count'[c] > 0
  <2>1. CASE c = k
    <3>1. busy'[k] <=> busy[k] /\ busy_count[k] # 1
      BY <1>1, <1>7
    <3>2. busy[k] <=> busy_count[k] > 0
      BY DEF BusyCountExact
    <3>3. busy_count'[k] = busy_count[k] - 1 /\ busy_count[k] \in Nat /\ busy_count[k] > 0
      BY <1>1, <1>5, <1>6, <1>7
    <3>4. busy_count'[k] > 0 <=> busy_count[k] # 1
      BY <3>3
    <3> QED
      BY <2>1, <3>1, <3>2, <3>3, <3>4
  <2>2. CASE c # k
    BY <2>2, <1>1, <1>7 DEF BusyCountExact
  <2> QED
    BY <2>1, <2>2
<1>11. busy' # busy => resource_event'
  <2>1. SUFFICES ASSUME busy_count[k] # 1 PROVE busy' = busy
    BY <1>7
  <2>2. busy[k] /\ busy_count[k] # 1 <=> busy[k]
    BY <2>1
  <2> QED
    BY <2>1, <1>1, <1>7
<1> QED
  BY <1>3, <1>4, <1>5, <1>8, <1>9, <1>10, <1>11

-----------------------------------------------------------------------------
(* The induction                                                           *)

\* A step that neither dispatches nor retires keeps the counters exact and
\* the device in one mode, provided a mode change starts on an empty device.
LEMMA SameFlight ==
  ASSUME IInv, \A c \in Class : InFlight(c)' = InFlight(c),
         UNCHANGED <<busy, busy_count, pim_mode>>,
         pc' = "switch" => (pc = "switch" \/ (Unified => \A c \in Class : InFlight(c) = 0))
  PROVE  BusyCountExact' /\ ModeExclusive'
<1>1. BusyCountExact'
  BY DEF IInv, BusyCountExact
<1>2. ModeExclusive'
  BY DEF IInv, ModeExclusive
<1> QED
  BY <1>1, <1>2

\* Steps outside the device.
LEMMA DeviceUnchanged ==
  ASSUME IInv, UNCHANGED <<deviceVars, pim_mode>>, pc' = "switch" => pc = "switch"
  PROVE  BusyCountExact' /\ ModeExclusive'
<1>1. \A c \in Class : InFlight(c)' = InFlight(c)
  BY DEF deviceVars, InFlight
<1> QED
  BY <1>1, SameFlight DEF deviceVars

\* In a unified device the dispatch guard and the mode tell that the device
\* is empty of the other class; if the mode has to change, it is empty.
LEMMA GuardFacts ==
  ASSUME IInv, Unified, NEW r \in Requests, Process(r)
  PROVE  /\ InFlight(Other(ClassOf(r))) = 0
         /\ pim_mode # ClassOf(r) => \A c \in Class : InFlight(c) = 0
<1> DEFINE k == ClassOf(r)  o == Other(k)
<1>1. k \in Class /\ o \in Class /\ o # k /\ \A c \in Class : c = k \/ c = o
  BY ClassFacts
<1>2. ~busy[o]
  BY DEF Process
<1> HIDE DEF k, o
<1>3. InFlight(o) \in Nat /\ InFlight(k) \in Nat
  BY <1>1, FlightNat DEF IInv
<1>4. InFlight(o) = 0
  BY <1>1, <1>2, <1>3 DEF IInv, BusyCountExact
<1>5. pim_mode # k => InFlight(k) = 0
  BY <1>1, <1>3 DEF IInv, ModeExclusive
<1> QED
  BY <1>1, <1>4, <1>5 DEF k, o

\* Dispatching r when nothing of the other class is in flight.
LEMMA SendKeeps ==
  ASSUME IInv, NEW r \in Requests,
         \A c \in Class : InFlight(c)' = InFlight(c) + (IF c = ClassOf(r) THEN 1 ELSE 0),
         \A c \in Class : busy_count'[c] = busy_count[c] + (IF c = ClassOf(r) THEN 1 ELSE 0),
         \A c \in Class : busy'[c] = (busy[c] \/ c = ClassOf(r)),
         Unified => InFlight(Other(ClassOf(r))) = 0,
         pim_mode' = ClassOf(r), pc' # "switch"
  PROVE  BusyCountExact' /\ ModeExclusive'
<1> DEFINE k == ClassOf(r)
<1>1. k \in Class /\ \A c \in Class : c # k => c = Other(k)
  BY ClassFacts
<1>2. \A c \in Class : InFlight(c) \in Nat /\ busy_count[c] = InFlight(c)
                       /\ (busy[c] <=> busy_count[c] > 0)
  BY FlightNat DEF IInv, BusyCountExact
<1> HIDE DEF k
<1>3. ASSUME NEW c \in Class
      PROVE  busy_count'[c] = InFlight(c)' /\ (busy'[c] <=> busy_count'[c] > 0)
  <2>1. CASE c = k
    <3>1. busy_count'[c] = busy_count[c] + 1 /\ InFlight(c)' = InFlight(c) + 1 /\ busy'[c]
      BY <2>1 DEF k
    <3>2. busy_count'[c] > 0
      BY <3>1, <1>2
    <3> QED
      BY <3>1, <3>2, <1>2
  <2>2. CASE c # k
    <3>1. busy_count'[c] = busy_count[c] + 0 /\ InFlight(c)' = InFlight(c) + 0
          /\ (busy'[c] <=> busy[c])
      BY <2>2 DEF k
    <3>2. busy_count'[c] = busy_count[c] /\ InFlight(c)' = InFlight(c)
      BY <3>1, <1>2
    <3> QED
      BY <3>1, <3>2, <1>2
  <2> QED
    BY <2>1, <2>2
<1>4. ASSUME Unified, NEW c \in Class, InFlight(c)' > 0
      PROVE  pim_mode' = c
  <2>1. SUFFICES ASSUME c # k PROVE FALSE
    BY DEF k
  <2>2. InFlight(c) = 0
    BY <2>1, <1>1, <1>4 DEF k
  <2>3. InFlight(c)' = InFlight(c) + 0
    BY <2>1 DEF k
  <2> QED
    BY <2>2, <2>3, <1>4
<1>5. BusyCountExact'
  BY <1>3 DEF BusyCountExact
<1>6. ModeExclusive'
  BY <1>4 DEF ModeExclusive
<1> QED
  BY <1>5, <1>6

\* An iteration that dispatches nothing at once: it collects, and possibly
\* takes the head out of the queue and starts a mode change.
LEMMA CollectKeeps ==
  ASSUME IInv, Collect, fast' = Rest, due' = [c \in Class |-> 0],
         UNCHANGED <<bridge, busy, busy_count, pim_mode>>,
         pc' = "switch" => (Unified => \A c \in Class : InFlight(c) = 0)
  PROVE  /\ completed' \in [Class -> Seq(Requests)] /\ bridge_done' \in Seq(Requests)
         /\ fast' \in [Class -> Seq(Requests)] /\ due' \in [Class -> Nat]
         /\ \A c \in Class : due'[c] <= Len(fast'[c])
         /\ \A c \in Class : \A i \in 1..Len(fast'[c]) : ClassOf(fast'[c][i]) = c
         /\ BusyCountExact' /\ ModeExclusive'
<1>1. TypeOK /\ WellFormed
  BY DEF IInv
<1>2. completed' \in [Class -> Seq(Requests)] /\ bridge_done' \in Seq(Requests)
  BY <1>1, CollectFacts
<1>3. /\ fast' \in [Class -> Seq(Requests)]
      /\ \A c \in Class : \A i \in 1..Len(fast'[c]) : ClassOf(fast'[c][i]) = c
  BY <1>1, RestFacts
<1>4. due' \in [Class -> Nat] /\ \A c \in Class : due'[c] <= Len(fast'[c])
  BY <1>3
<1>5. \A c \in Class : InFlight(c)' = InFlight(c)
  BY <1>1, CollectFlight
<1>6. BusyCountExact' /\ ModeExclusive'
  BY <1>5, SameFlight
<1> QED
  BY <1>2, <1>3, <1>4, <1>6

\* An iteration that finds the queue empty.
LEMMA IdleStep ==
  ASSUME IInv, Idle
  PROVE  IInv'
<1>1. /\ Collect /\ fast' = Rest /\ due' = [c \in Class |-> 0]
      /\ UNCHANGED <<bridge, busy, busy_count, pim_mode>> /\ pc' = "tick"
  BY DEF Idle, Rest
<1>2. /\ completed' \in [Class -> Seq(Requests)] /\ bridge_done' \in Seq(Requests)
      /\ fast' \in [Class -> Seq(Requests)] /\ due' \in [Class -> Nat]
      /\ \A c \in Class : due'[c] <= Len(fast'[c])
      /\ \A c \in Class : \A i \in 1..Len(fast'[c]) : ClassOf(fast'[c][i]) = c
      /\ BusyCountExact' /\ ModeExclusive'
  BY <1>1, CollectKeeps
<1>3. TypeOK'
  BY <1>2 DEF IInv, TypeOK, Idle, eventVars, outVars
<1>4. WellFormed'
  BY <1>2 DEF IInv, WellFormed, Idle
<1>5. NoLostWakeup'
  BY <1>1 DEF NoLostWakeup
<1> QED
  BY <1>2, <1>3, <1>4, <1>5 DEF IInv

\* An iteration whose head request has to wait for the other class.
LEMMA BlockStep ==
  ASSUME IInv, Block
  PROVE  IInv'
<1>1. /\ Collect /\ fast' = Rest /\ due' = [c \in Class |-> 0]
      /\ UNCHANGED <<bridge, busy, busy_count, pim_mode>> /\ pc' = "tick"
  BY DEF Block, Rest
<1>2. /\ completed' \in [Class -> Seq(Requests)] /\ bridge_done' \in Seq(Requests)
      /\ fast' \in [Class -> Seq(Requests)] /\ due' \in [Class -> Nat]
      /\ \A c \in Class : due'[c] <= Len(fast'[c])
      /\ \A c \in Class : \A i \in 1..Len(fast'[c]) : ClassOf(fast'[c][i]) = c
      /\ BusyCountExact' /\ ModeExclusive'
  BY <1>1, CollectKeeps
<1>3. TypeOK'
  BY <1>2, ModeAssumption DEF IInv, TypeOK, Block, eventVars, outVars
<1>4. WellFormed'
  BY <1>2 DEF IInv, WellFormed, Block, Process
<1>5. NoLostWakeup'
  BY <1>1 DEF NoLostWakeup
<1> QED
  BY <1>2, <1>3, <1>4, <1>5 DEF IInv

\* The head leaves the queue and the mode change begins, on an empty device.
LEMMA BeginModeTransitionStep ==
  ASSUME IInv, BeginModeTransition
  PROVE  IInv'
<1> DEFINE r == Head(pending_queue)
<1>0. pending_queue \in Seq(Requests) /\ pending_queue # <<>> /\ r \in Requests
      /\ Tail(pending_queue) \in Seq(Requests)
  BY DEF IInv, TypeOK, BeginModeTransition
<1>1. /\ Collect /\ fast' = Rest /\ due' = [c \in Class |-> 0]
      /\ UNCHANGED <<bridge, busy, busy_count, pim_mode>> /\ pc' = "switch"
      /\ Process(r) /\ pim_mode # ClassOf(r) /\ ~blocked'
  BY DEF BeginModeTransition, Rest
<1>2. Unified => \A c \in Class : InFlight(c) = 0
  BY <1>0, <1>1, GuardFacts
<1>3. /\ completed' \in [Class -> Seq(Requests)] /\ bridge_done' \in Seq(Requests)
      /\ fast' \in [Class -> Seq(Requests)] /\ due' \in [Class -> Nat]
      /\ \A c \in Class : due'[c] <= Len(fast'[c])
      /\ \A c \in Class : \A i \in 1..Len(fast'[c]) : ClassOf(fast'[c][i]) = c
      /\ BusyCountExact' /\ ModeExclusive'
  BY <1>1, <1>2, CollectKeeps
<1>4. switching' = <<r>> /\ switching' \in Seq(Requests) /\ Len(switching') = 1
      /\ Head(switching') = r
  BY <1>0 DEF BeginModeTransition
<1>5. TypeOK'
  BY <1>0, <1>3, <1>4 DEF IInv, TypeOK, BeginModeTransition, eventVars, outVars
<1>6. WellFormed'
  BY <1>1, <1>3, <1>4 DEF IInv, WellFormed
<1>7. NoLostWakeup'
  BY <1>1 DEF NoLostWakeup
<1> QED
  BY <1>3, <1>5, <1>6, <1>7 DEF IInv

\* The head is handed to the device in the current mode.
LEMMA DispatchStep ==
  ASSUME IInv, Dispatch
  PROVE  IInv'
<1> DEFINE r == Head(pending_queue)
<1>0. pending_queue \in Seq(Requests) /\ pending_queue # <<>> /\ r \in Requests
      /\ Tail(pending_queue) \in Seq(Requests) /\ TypeOK /\ WellFormed
  BY DEF IInv, TypeOK, Dispatch
<1>1. /\ Collect /\ due' = [c \in Class |-> 0] /\ send_transaction(r, Rest)
      /\ pc' = "tick" /\ blocked' = FALSE
      /\ Process(r)
  BY DEF Dispatch, Rest
<1> HIDE DEF r
<1>2. /\ Rest \in [Class -> Seq(Requests)]
      /\ \A c \in Class : \A i \in 1..Len(Rest[c]) : ClassOf(Rest[c][i]) = c
  BY <1>0, RestFacts
<1>3. /\ pim_mode' = ClassOf(r)
      /\ busy' \in [Class -> BOOLEAN] /\ busy_count' \in [Class -> Nat]
      /\ fast' \in [Class -> Seq(Requests)] /\ bridge' \in [Class -> Seq(Requests)]
      /\ \A c \in Class : \A i \in 1..Len(fast'[c]) : ClassOf(fast'[c][i]) = c
      /\ \A c \in Class : \A i \in 1..Len(bridge'[c]) : ClassOf(bridge'[c][i]) = c
      /\ \A c \in Class : busy_count'[c]
           = busy_count[c] + (IF c = ClassOf(r) THEN 1 ELSE 0)
      /\ \A c \in Class : busy'[c] = (busy[c] \/ c = ClassOf(r))
  BY <1>0, <1>1, <1>2, SendFacts
<1>4. /\ completed' \in [Class -> Seq(Requests)] /\ bridge_done' \in Seq(Requests)
      /\ \A c \in Class :
           Len(Rest[c]) + CountOf(c, bridge_done') + Len(completed'[c])
             = Len(fast[c]) + CountOf(c, bridge_done) + Len(completed[c])
  BY <1>0, <1>1, CollectFacts DEF Rest
<1>5. \A c \in Class : InFlight(c)' = InFlight(c) + (IF c = ClassOf(r) THEN 1 ELSE 0)
  BY <1>0, <1>1, <1>2, <1>4, SendFlight
<1>6. BusyCountExact' /\ ModeExclusive'
  <2>1. Unified => InFlight(Other(ClassOf(r))) = 0
    BY <1>0, <1>1, GuardFacts
  <2> QED
    BY <2>1, <1>0, <1>1, <1>3, <1>5, SendKeeps
<1>7. TypeOK'
  <2>1. pim_mode' \in Class
    BY <1>3, ClassFacts
  <2>2. /\ pending_queue' = Tail(pending_queue)
        /\ UNCHANGED <<peq, switching, pending_event, resource_event, bw, trace_done, active>>
    BY DEF Dispatch, eventVars, outVars
  <2>3. due' \in [Class -> Nat]
    BY <1>1
  <2> QED
    BY <2>1, <2>2, <2>3, <1>0, <1>1, <1>3, <1>4 DEF TypeOK
<1>8. WellFormed'
  <2>1. \A c \in Class : due'[c] <= Len(fast'[c])
    BY <1>1, <1>3
  <2> QED
    BY <2>1, <1>1, <1>3 DEF WellFormed
<1>9. NoLostWakeup'
  BY <1>1 DEF NoLostWakeup
<1> QED
  BY <1>6, <1>7, <1>8, <1>9 DEF IInv

\* The wait of process_mode_transition ends and the request is handed over:
\* nothing was dispatched meanwhile, so the device still holds no other class.
LEMMA EndModeTransitionStep ==
  ASSUME IInv, EndModeTransition
  PROVE  IInv'
<1> DEFINE r == Head(switching)
<1>0. TypeOK /\ WellFormed /\ switching \in Seq(Requests) /\ r \in Requests
      /\ ClassOf(r) # pim_mode
  <2>1. TypeOK /\ WellFormed /\ switching \in Seq(Requests)
    BY DEF IInv, TypeOK
  <2>2. Len(switching) = 1 /\ ClassOf(r) # pim_mode
    BY DEF IInv, WellFormed, EndModeTransition
  <2>3. switching # <<>> /\ r \in Requests
    BY <2>1, <2>2
  <2> QED
    BY <2>1, <2>2, <2>3
<1>1. /\ pc = "switch" /\ send_transaction(r, fast) /\ pc' = "tick"
      /\ switching' = <<>>
      /\ UNCHANGED <<peq, pending_queue, due, bridge_done, completed, blocked,
                     pending_event, resource_event, bw, trace_done, active>>
  BY DEF EndModeTransition, eventVars, outVars
<1> HIDE DEF r
<1>2. /\ fast \in [Class -> Seq(Requests)]
      /\ \A c \in Class : \A i \in 1..Len(fast[c]) : ClassOf(fast[c][i]) = c
      /\ completed \in [Class -> Seq(Requests)] /\ bridge_done \in Seq(Requests)
      /\ due \in [Class -> Nat] /\ \A c \in Class : due[c] <= Len(fast[c])
  BY <1>0 DEF TypeOK, WellFormed
<1>3. /\ pim_mode' = ClassOf(r)
      /\ busy' \in [Class -> BOOLEAN] /\ busy_count' \in [Class -> Nat]
      /\ fast' \in [Class -> Seq(Requests)] /\ bridge' \in [Class -> Seq(Requests)]
      /\ \A c \in Class : \A i \in 1..Len(fast'[c]) : ClassOf(fast'[c][i]) = c
      /\ \A c \in Class : \A i \in 1..Len(bridge'[c]) : ClassOf(bridge'[c][i]) = c
      /\ \A c \in Class : Len(fast'[c]) >= Len(fast[c])
      /\ \A c \in Class : busy_count'[c]
           = busy_count[c] + (IF c = ClassOf(r) THEN 1 ELSE 0)
      /\ \A c \in Class : busy'[c] = (busy[c] \/ c = ClassOf(r))
  BY <1>0, <1>1, <1>2, SendFacts
<1>4. \A c \in Class : InFlight(c)' = InFlight(c) + (IF c = ClassOf(r) THEN 1 ELSE 0)
  BY <1>0, <1>1, <1>2, SendFlight
<1>5. Unified => InFlight(Other(ClassOf(r))) = 0
  <2>1. Other(ClassOf(r)) \in Class
    BY ClassFacts
  <2>2. InFlight(Other(ClassOf(r))) \in Nat
    BY <2>1, <1>0, FlightNat
  <2> QED
    BY <2>1, <2>2, <1>1 DEF IInv, ModeExclusive
<1>6. BusyCountExact' /\ ModeExclusive'
  BY <1>0, <1>1, <1>3, <1>4, <1>5, SendKeeps
<1>7. TypeOK'
  <2>1. pim_mode' \in Class
    BY <1>3, ClassFacts
  <2>2. /\ switching' \in Seq(Requests)
        /\ due' \in [Class -> Nat] /\ bridge_done' \in Seq(Requests)
        /\ completed' \in [Class -> Seq(Requests)]
    BY <1>1, <1>2
  <2>3. /\ peq' \in Seq(Requests) /\ pending_queue' \in Seq(Requests)
        /\ blocked' \in BOOLEAN
        /\ pending_event' \in BOOLEAN /\ resource_event' \in BOOLEAN
        /\ bw' \in Seq(Requests) /\ trace_done' \in BOOLEAN /\ active' \in BOOLEAN
    BY <1>0, <1>1 DEF TypeOK
  <2>4. pc' \in {"run", "switch", "tick", "drain", "period", "sleep", "done"}
    BY <1>1
  <2> QED
    BY <2>1, <2>2, <2>3, <2>4, <1>3 DEF TypeOK
<1>8. WellFormed'
  <2>1. ASSUME NEW c \in Class PROVE due'[c] <= Len(fast'[c])
    <3> DEFINE d == due[c]  f == Len(fast[c])  fp == Len(fast'[c])
    <3>1. d \in Nat /\ f \in Nat /\ fp \in Nat /\ d <= f /\ fp >= f /\ due'[c] = d
      BY <1>1, <1>2, <1>3
    <3> HIDE DEF d, f
    <3> QED
      BY <3>1
  <2>2. ~blocked
    BY <1>0, <1>1 DEF WellFormed
  <2> QED
    BY <2>1, <2>2, <1>1, <1>3 DEF WellFormed
<1>9. NoLostWakeup'
  BY <1>1 DEF NoLostWakeup
<1> QED
  BY <1>6, <1>7, <1>8, <1>9 DEF IInv

\* DRAMsim3 returns a memory request.
LEMMA BridgeCallBackStep ==
  ASSUME IInv, NEW i \in 1..Len(bridge["memory"]), BridgeCallBack(i)
  PROVE  IInv'
<1>1. TypeOK /\ WellFormed /\ NoLostWakeup
  BY DEF IInv
<1>2. /\ pc = "tick"
      /\ UNCHANGED <<peq, pending_queue, busy, busy_count, fast, due, completed,
                     pim_mode, pc, switching, blocked, pending_event,
                     resource_event, bw, trace_done, active>>
  BY DEF BridgeCallBack, threadVars, eventVars, outVars
<1>3. /\ bridge' \in [Class -> Seq(Requests)] /\ bridge_done' \in Seq(Requests)
      /\ \A c \in Class : \A j \in 1..Len(bridge'[c]) : ClassOf(bridge'[c][j]) = c
      /\ \A c \in Class : InFlight(c)' = InFlight(c)
  BY <1>1, CallBackFacts
<1>4. BusyCountExact' /\ ModeExclusive'
  BY <1>2, <1>3, SameFlight
<1>5. TypeOK'
  BY <1>1, <1>2, <1>3 DEF TypeOK
<1>6. WellFormed'
  BY <1>1, <1>2, <1>3 DEF WellFormed, Process
<1>7. NoLostWakeup'
  BY <1>2 DEF NoLostWakeup
<1> QED
  BY <1>4, <1>5, <1>6, <1>7 DEF IInv

\* The bridge finishes a PIM command.
LEMMA BridgeComputeDoneStep ==
  ASSUME IInv, BridgeComputeDone
  PROVE  IInv'
<1>1. TypeOK /\ WellFormed
  BY DEF IInv
<1>2. /\ pc \in {"tick", "drain"} /\ pc' = "drain"
      /\ UNCHANGED <<peq, pending_queue, busy, busy_count, fast, due, completed,
                     pim_mode, switching, blocked, pending_event,
                     resource_event, bw, trace_done, active>>
  BY DEF BridgeComputeDone, eventVars, outVars
<1>3. /\ bridge' \in [Class -> Seq(Requests)] /\ bridge_done' \in Seq(Requests)
      /\ \A c \in Class : \A j \in 1..Len(bridge'[c]) : ClassOf(bridge'[c][j]) = c
      /\ \A c \in Class : InFlight(c)' = InFlight(c)
  BY <1>1, ComputeDoneFacts
<1>4. BusyCountExact' /\ ModeExclusive'
  BY <1>2, <1>3, SameFlight
<1>5. TypeOK'
  BY <1>1, <1>2, <1>3 DEF TypeOK
<1>6. WellFormed'
  BY <1>1, <1>2, <1>3 DEF WellFormed, Process
<1>7. NoLostWakeup'
  BY <1>2 DEF NoLostWakeup
<1> QED
  BY <1>4, <1>5, <1>6, <1>7 DEF IInv

\* The iteration ends.  The thread goes to sleep with a request in its queue
\* only if that request was blocked in this iteration, and then it still is.
LEMMA EndIterationStep ==
  ASSUME IInv, EndIteration
  PROVE  IInv'
<1>1. TypeOK /\ WellFormed
  BY DEF IInv
<1>2. /\ pc \in {"tick", "drain"} /\ pc' \in {"done", "sleep", "period"}
      /\ pc' = "sleep" => MaySleep
      /\ UNCHANGED <<peq, pending_queue, deviceVars, pim_mode, switching, blocked,
                     pending_event, resource_event, bw, trace_done, active>>
  BY DEF EndIteration, eventVars, outVars
<1>3. BusyCountExact' /\ ModeExclusive'
  BY <1>2, DeviceUnchanged
<1>4. TypeOK'
  BY <1>1, <1>2 DEF TypeOK, deviceVars
<1>5. WellFormed'
  BY <1>1, <1>2 DEF WellFormed, deviceVars
<1>6. NoLostWakeup'
  BY <1>1, <1>2 DEF NoLostWakeup, WellFormed, MaySleep, Process, deviceVars
<1> QED
  BY <1>3, <1>4, <1>5, <1>6 DEF IInv

\* Steps that only move the thread out of a wait, or consume a notification
\* that wakes it if it sleeps.
LEMMA WakeStep ==
  ASSUME IInv,
         UNCHANGED <<peq, pending_queue, deviceVars, pim_mode, switching,
                     blocked, bw, trace_done, active>>,
         pending_event' \in BOOLEAN, resource_event' \in BOOLEAN,
         pc \notin {"tick", "drain"}, pc' \in {pc, "run"},
         pc' = "sleep" => /\ pending_event' = pending_event
                          /\ Unified => resource_event' = resource_event
  PROVE  IInv'
<1>1. TypeOK /\ WellFormed /\ NoLostWakeup
  BY DEF IInv
<1>2. BusyCountExact' /\ ModeExclusive'
  BY DeviceUnchanged
<1>3. TypeOK'
  BY <1>1 DEF TypeOK, deviceVars
<1>4. WellFormed'
  BY <1>1 DEF WellFormed, deviceVars
<1>5. NoLostWakeup'
  BY <1>1 DEF NoLostWakeup, Process, deviceVars
<1> QED
  BY <1>2, <1>3, <1>4, <1>5 DEF IInv

\* A time-out ends the thread's wait.
LEMMA TimeoutStep ==
  ASSUME IInv, Timeout
  PROVE  IInv'
<1>1. pending_event' \in BOOLEAN /\ resource_event' \in BOOLEAN
  BY DEF IInv, TypeOK, Timeout, eventVars
<1> QED
  BY <1>1, WakeStep DEF Timeout, eventVars, outVars

\* pending_event is delivered.
LEMMA DeliverPendingEventStep ==
  ASSUME IInv, DeliverPendingEvent
  PROVE  IInv'
<1>1. pending_event' \in BOOLEAN /\ resource_event' \in BOOLEAN
  BY DEF IInv, TypeOK, DeliverPendingEvent
<1>2. pc \notin {"tick", "drain"} /\ pc' \in {pc, "run"} /\ pc' # "sleep"
  BY DEF DeliverPendingEvent, Yielded, Wake
<1> QED
  BY <1>1, <1>2, WakeStep DEF DeliverPendingEvent, outVars

\* resource_available_event is delivered; only a unified thread wakes.
LEMMA DeliverResourceEventStep ==
  ASSUME IInv, DeliverResourceEvent
  PROVE  IInv'
<1>1. pending_event' \in BOOLEAN /\ resource_event' \in BOOLEAN
  BY DEF IInv, TypeOK, DeliverResourceEvent
<1>2. pc \notin {"tick", "drain"} /\ pc' \in {pc, "run"} /\ (Unified => pc' # "sleep")
  BY DEF DeliverResourceEvent, Yielded, Wake
<1> QED
  BY <1>1, <1>2, WakeStep DEF DeliverResourceEvent, outVars

\* A completion time is reached.
LEMMA ElapseStep ==
  ASSUME IInv, NEW k \in Class, Elapse(k)
  PROVE  IInv'
<1>1. TypeOK /\ WellFormed /\ NoLostWakeup
  BY DEF IInv
<1>2. /\ due' = [due EXCEPT ![k] = @ + 1] /\ due[k] < Len(fast[k])
      /\ UNCHANGED <<peq, pending_queue, busy, busy_count, fast, bridge,
                     bridge_done, completed, pim_mode, pc, switching, blocked,
                     pending_event, resource_event, bw, trace_done, active>>
  BY DEF Elapse, threadVars, eventVars, outVars
<1>3. due \in [Class -> Nat] /\ \A c \in Class : Len(fast[c]) \in Nat /\ due[c] <= Len(fast[c])
  BY <1>1, SMTT(30) DEF TypeOK, WellFormed
<1>4. due' \in [Class -> Nat] /\ \A c \in Class : due'[c] <= Len(fast[c])
  BY <1>2, <1>3
<1>5. \A c \in Class : InFlight(c)' = InFlight(c)
  BY <1>2 DEF InFlight
<1>6. BusyCountExact' /\ ModeExclusive'
  BY <1>2, <1>5, SameFlight
<1>7. TypeOK'
  BY <1>1, <1>2, <1>4 DEF TypeOK
<1>8. WellFormed'
  BY <1>1, <1>2, <1>4 DEF WellFormed, Process
<1>9. NoLostWakeup'
  BY <1>1, <1>2 DEF NoLostWakeup, Process
<1> QED
  BY <1>6, <1>7, <1>8, <1>9 DEF IInv

\* A request is delivered to the queue and pending_event is notified; an
\* arrival never changes the head of a queue that was not empty.
LEMMA PeqCbStep ==
  ASSUME IInv, peq_cb
  PROVE  IInv'
<1>1. TypeOK /\ WellFormed
  BY DEF IInv
<1>2. /\ pc \notin {"tick", "drain"} /\ peq # <<>> /\ peq' = Tail(peq)
      /\ pending_queue' = Append(pending_queue, Head(peq)) /\ pending_event'
      /\ pending_event' \in BOOLEAN
      /\ UNCHANGED <<deviceVars, pim_mode, pc, switching, blocked,
                     resource_event, bw, trace_done, active>>
  BY DEF peq_cb, Yielded, threadVars, outVars
<1>3. peq' \in Seq(Requests) /\ pending_queue' \in Seq(Requests)
  BY <1>1, <1>2, AppendProperties DEF TypeOK
<1>4. BusyCountExact' /\ ModeExclusive'
  BY <1>2, DeviceUnchanged
<1>5. TypeOK'
  BY <1>1, <1>2, <1>3 DEF TypeOK, deviceVars
<1>6. WellFormed'
  BY <1>1, <1>2 DEF WellFormed, deviceVars
<1>7. NoLostWakeup'
  BY <1>2 DEF NoLostWakeup
<1> QED
  BY <1>4, <1>5, <1>6, <1>7 DEF IInv

\* Steps of the clients change neither the device nor the thread.
LEMMA ClientStep ==
  ASSUME IInv, UNCHANGED <<pending_queue, deviceVars, threadVars, eventVars>>,
         peq' \in Seq(Requests), bw' \in Seq(Requests),
         trace_done' \in BOOLEAN, active' \in BOOLEAN
  PROVE  IInv'
<1>1. TypeOK /\ WellFormed /\ NoLostWakeup
  BY DEF IInv
<1>2. BusyCountExact' /\ ModeExclusive'
  BY DeviceUnchanged DEF threadVars
<1>3. TypeOK'
  BY <1>1 DEF TypeOK, deviceVars, threadVars, eventVars
<1>4. WellFormed'
  BY <1>1 DEF WellFormed, Process, deviceVars, threadVars
<1>5. NoLostWakeup'
  BY <1>1 DEF NoLostWakeup, Process, deviceVars, threadVars, eventVars
<1> QED
  BY <1>2, <1>3, <1>4, <1>5 DEF IInv

\* A clock edge retires one request of class k: if that frees the class, the
\* notification that wakes the sleeping thread is on its way.
LEMMA RetireStep ==
  ASSUME IInv, NEW k \in Class, completed[k] # <<>>, Release(k), Yielded,
         UNCHANGED <<peq, pending_queue, fast, due, bridge, bridge_done,
                     threadVars, pending_event, active>>,
         bw' \in Seq(Requests), trace_done' \in BOOLEAN
  PROVE  IInv'
<1>1. TypeOK /\ WellFormed /\ BusyCountExact /\ ModeExclusive /\ NoLostWakeup
  BY DEF IInv
<1>2. /\ completed' \in [Class -> Seq(Requests)]
      /\ busy' \in [Class -> BOOLEAN] /\ busy_count' \in [Class -> Nat]
      /\ \A c \in Class : InFlight(c)' = InFlight(c) - (IF c = k THEN 1 ELSE 0)
      /\ \A c \in Class : busy_count'[c] = InFlight(c)'
      /\ \A c \in Class : busy'[c] <=> busy_count'[c] > 0
      /\ busy' # busy => resource_event'
  BY <1>1, ReleaseFacts
<1>3. /\ UNCHANGED <<pim_mode, pc, switching, blocked>>
      /\ pc \notin {"tick", "drain"}
  BY DEF threadVars, Yielded
<1>4. BusyCountExact'
  BY <1>2 DEF BusyCountExact
<1>5. ModeExclusive'
  <2>1. SUFFICES ASSUME Unified, NEW c \in Class, InFlight(c)' > 0
                 PROVE  pim_mode' = c /\ pc' # "switch"
    BY DEF ModeExclusive
  <2>2. InFlight(c) \in Nat
    BY <1>1, FlightNat
  <2> DEFINE n == InFlight(c)  np == InFlight(c)'  o == IF c = k THEN 1 ELSE 0
  <2>3. np = n - o /\ o \in Nat /\ n \in Nat /\ np > 0
    BY <2>1, <2>2, <1>2
  <2>4. n > 0
    <3> HIDE DEF n, np, o
    <3> QED
      BY <2>3
  <2> QED
    BY <2>1, <2>4, <1>1, <1>3 DEF ModeExclusive
<1>6. resource_event' \in BOOLEAN /\ (resource_event => resource_event')
  BY <1>1 DEF Release, TypeOK
<1>7. TypeOK'
  <2>1. /\ peq' \in Seq(Requests) /\ pending_queue' \in Seq(Requests)
        /\ fast' \in [Class -> Seq(Requests)] /\ due' \in [Class -> Nat]
        /\ bridge' \in [Class -> Seq(Requests)] /\ bridge_done' \in Seq(Requests)
    BY <1>1 DEF TypeOK
  <2>2. /\ pim_mode' \in Class
        /\ pc' \in {"run", "switch", "tick", "drain", "period", "sleep", "done"}
        /\ switching' \in Seq(Requests) /\ blocked' \in BOOLEAN
        /\ pending_event' \in BOOLEAN /\ active' \in BOOLEAN
    BY <1>1, <1>3 DEF TypeOK
  <2> QED
    BY <2>1, <2>2, <1>2, <1>6 DEF TypeOK
<1>8. WellFormed'
  BY <1>1, <1>3 DEF WellFormed
<1>9. NoLostWakeup'
  <2>1. CASE ~Unified
    BY <2>1, <1>1, <1>3 DEF NoLostWakeup, Process
  <2>2. CASE Unified /\ busy' # busy
    BY <2>2, <1>2 DEF NoLostWakeup
  <2>3. CASE Unified /\ busy' = busy
    BY <2>3, <1>1, <1>3, <1>6 DEF NoLostWakeup, Process
  <2> QED
    BY <2>1, <2>2, <2>3
<1> QED
  BY <1>4, <1>5, <1>7, <1>8, <1>9 DEF IInv

\* clock_posedge retires a memory request and possibly answers it.
LEMMA ClockPosedgeStep ==
  ASSUME IInv, clock_posedge
  PROVE  IInv'
<1>1. "memory" \in Class /\ completed["memory"] \in Seq(Requests) /\ bw \in Seq(Requests)
  BY DEF IInv, TypeOK, Class
<1>2. bw' \in Seq(Requests)
  <2>1. completed["memory"] # <<>>
        /\ (bw' = bw \/ bw' = Append(bw, Head(completed["memory"])))
    BY DEF clock_posedge
  <2>2. Head(completed["memory"]) \in Requests
    BY <1>1, <2>1
  <2> QED
    BY <1>1, <2>1, <2>2, AppendProperties
<1>3. trace_done' \in BOOLEAN
  BY DEF clock_posedge, IInv, TypeOK
<1> QED
  BY <1>1, <1>2, <1>3, RetireStep DEF clock_posedge

\* clock_negedge retires a PIM command and possibly signals the barrier.
LEMMA ClockNegedgeStep ==
  ASSUME IInv, clock_negedge
  PROVE  IInv'
<1>1. /\ "compute" \in Class /\ completed["compute"] \in Seq(Requests)
      /\ completed["compute"] # <<>>
  BY DEF IInv, TypeOK, Class, clock_negedge
<1>2. bw' \in Seq(Requests)
  BY DEF clock_negedge, IInv, TypeOK
<1>3. trace_done' \in BOOLEAN
  BY DEF clock_negedge
<1> QED
  BY <1>1, <1>2, <1>3, RetireStep DEF clock_negedge

-----------------------------------------------------------------------------
(* The theorems                                                            *)

\* Every step of the wrapper under its clients preserves the invariant.
LEMMA ClientNextStep ==
  ASSUME IInv, [ClientNext]_clientVars
  PROVE  IInv'
<1>0. /\ peq \in Seq(Requests) /\ bw \in Seq(Requests)
      /\ trace_done \in BOOLEAN /\ active \in BOOLEAN
  BY DEF IInv, TypeOK
<1>1. CASE Deliver
  <2>1. PICK r \in Requests : nb_transport_fw(r)
    BY <1>1 DEF Deliver
  <2>2. peq' \in Seq(Requests)
    BY <2>1, <1>0, AppendProperties DEF nb_transport_fw
  <2> QED
    BY <2>1, <2>2, <1>0, ClientStep DEF nb_transport_fw, outVars
<1>2. CASE TakeResponse
  <2>1. bw' \in Seq(Requests)
    BY <1>2, <1>0 DEF TakeResponse
  <2> QED
    BY <2>1, <1>2, <1>0, ClientStep DEF TakeResponse
<1>3. CASE TakeTraceDone
  BY <1>3, <1>0, ClientStep DEF TakeTraceDone
<1>4. CASE Stop
  BY <1>4, <1>0, ClientStep DEF Stop
<1>5. CASE Run
  BY <1>5, IdleStep, BlockStep, DispatchStep, BeginModeTransitionStep,
     BridgeCallBackStep, BridgeComputeDoneStep, EndIterationStep DEF Run
<1>6. CASE Delta
  BY <1>6, PeqCbStep, DeliverPendingEventStep, DeliverResourceEventStep DEF Delta
<1>7. CASE Timed
  BY <1>7, ClockPosedgeStep, ClockNegedgeStep, EndModeTransitionStep, TimeoutStep,
     ElapseStep DEF Timed
<1>8. CASE UNCHANGED clientVars
  BY <1>8, <1>0, ClientStep
     DEF clientVars, vars, deviceVars, threadVars, eventVars, outVars
<1> QED
  BY <1>1, <1>2, <1>3, <1>4, <1>5, <1>6, <1>7, <1>8
     DEF ClientNext, Clients, Step

\* The initial state satisfies the invariant.
LEMMA InitIInv ==
  ASSUME ClientInit
  PROVE  IInv
<1>1. TypeOK
  <2>1. /\ peq \in Seq(Requests) /\ pending_queue \in Seq(Requests)
        /\ bridge_done \in Seq(Requests) /\ switching \in Seq(Requests)
        /\ bw \in Seq(Requests)
    BY DEF ClientInit, Init
  <2>2. /\ fast \in [Class -> Seq(Requests)] /\ bridge \in [Class -> Seq(Requests)]
        /\ completed \in [Class -> Seq(Requests)]
    BY DEF ClientInit, Init
  <2>3. /\ busy \in [Class -> BOOLEAN] /\ busy_count \in [Class -> Nat]
        /\ due \in [Class -> Nat]
    BY DEF ClientInit, Init
  <2>4. /\ pim_mode \in Class /\ pc = "run" /\ blocked \in BOOLEAN
        /\ pending_event \in BOOLEAN /\ resource_event \in BOOLEAN
        /\ trace_done \in BOOLEAN /\ active \in BOOLEAN
    BY DEF ClientInit, Init, Class
  <2> QED
    BY <2>1, <2>2, <2>3, <2>4 DEF TypeOK
<1>2. WellFormed
  BY DEF ClientInit, Init, WellFormed, Class
<1>3. \A c \in Class : InFlight(c) = 0
  <2> TAKE c \in Class
  <2>1. Len(fast[c]) = 0 /\ Len(bridge[c]) = 0 /\ Len(completed[c]) = 0
    BY DEF ClientInit, Init
  <2>2. CountOf(c, bridge_done) = 0
    BY CountEmpty DEF ClientInit, Init
  <2> QED
    BY <2>1, <2>2 DEF InFlight
<1>4. BusyCountExact
  <2>1. \A c \in Class : busy_count[c] = 0 /\ busy[c] = FALSE
    BY DEF ClientInit, Init
  <2> QED
    BY <1>3, <2>1 DEF BusyCountExact
<1>5. ModeExclusive
  BY <1>3 DEF ModeExclusive
<1>6. NoLostWakeup
  BY DEF NoLostWakeup, ClientInit, Init
<1> QED
  BY <1>1, <1>2, <1>4, <1>5, <1>6 DEF IInv

\* The inductive invariant holds for every set of requests, both memory
\* structures and both timing modes.
THEOREM Invariance == ClientSpec => []IInv
<1>1. ClientInit => IInv
  BY InitIInv
<1>2. IInv /\ [ClientNext]_clientVars => IInv'
  BY ClientNextStep
<1> QED
  BY <1>1, <1>2, PTL DEF ClientSpec

\* The wrapper keeps its types; busy_count never wraps.
THEOREM TypeCorrect == ClientSpec => []TypeOK
<1>1. IInv => TypeOK
  BY DEF IInv
<1> QED
  BY <1>1, Invariance, PTL

\* pim_wrapper.cpp's busy counters and flags are exact.
THEOREM CountersExact == ClientSpec => []BusyCountExact
<1>1. IInv => BusyCountExact
  BY DEF IInv
<1> QED
  BY <1>1, Invariance, PTL

\* A unified device never serves both classes, through any mode change.
THEOREM OneModeAtATime == ClientSpec => []ModeExclusive
<1>1. IInv => ModeExclusive
  BY DEF IInv
<1> QED
  BY <1>1, Invariance, PTL

\* The sleeping thread never misses a dispatchable request.
THEOREM NoWakeupIsLost == ClientSpec => []NoLostWakeup
<1>1. IInv => NoLostWakeup
  BY DEF IInv
<1> QED
  BY <1>1, Invariance, PTL

-----------------------------------------------------------------------------
(* The sleep interval                                                      *)

\* The requests the wrapper is built for: of both classes in the unified
\* structure, PIM commands only in the partitioned one, where the Arbiter
\* sends memory requests to the DRAM.
WiredFor == Unified \/ \A r \in Requests : ClassOf(r) = "compute"

\* Nothing is due in the part of an iteration that follows the collection,
\* also across the wait for a mode change, which starts on an empty device.
NothingDue ==
  /\ pc \in {"switch", "tick", "drain"} => \A c \in Class : due[c] = 0
  /\ ~Unified /\ pim_mode = "memory" => \A c \in Class : fast[c] = <<>>

\* A queue without its due entries is empty if it was empty.
LEMMA UndueEmpty ==
  ASSUME TypeOK, WellFormed, NEW c \in Class, fast[c] = <<>>
  PROVE  Undue(c) = <<>>
<1>1. Len(fast[c]) = 0 /\ due[c] = 0
  BY DEF TypeOK, WellFormed
<1>2. Undue(c) \in Seq(Requests) /\ Len(Undue(c)) = 0
  BY <1>1, UndueFacts
<1> QED
  BY <1>2, EmptySeq

\* The request held back during a mode change.
LEMMA SwitchingHead ==
  ASSUME TypeOK, WellFormed, pc = "switch"
  PROVE  Head(switching) \in Requests
<1>1. switching \in Seq(Requests) /\ Len(switching) = 1
  BY DEF TypeOK, WellFormed
<1> QED
  BY <1>1

\* Nothing becomes due during a mode change: the device is empty.
LEMMA EmptyWhileSwitching ==
  ASSUME IInv, WiredFor, NothingDue, pc = "switch", NEW c \in Class
  PROVE  Len(fast[c]) = 0
<1>1. CASE Unified
  <2>1. InFlight(c) \in Nat /\ ~(InFlight(c) > 0)
    BY <1>1, FlightNat DEF IInv, ModeExclusive
  <2>2. /\ Len(fast[c]) \in Nat /\ Len(bridge[c]) \in Nat /\ Len(completed[c]) \in Nat
        /\ CountOf(c, bridge_done) \in Nat
    BY CountFinite DEF IInv, TypeOK
  <2> DEFINE f == Len(fast[c])  b == Len(bridge[c])  k == CountOf(c, bridge_done)
             m == Len(completed[c])
  <2>3. f \in Nat /\ b \in Nat /\ k \in Nat /\ m \in Nat /\ ~(f + b + k + m > 0)
    BY <2>1, <2>2 DEF InFlight
  <2>4. f = 0
    <3> HIDE DEF f, b, k, m
    <3> QED
      BY <2>3
  <2> QED
    BY <2>4
<1>2. CASE ~Unified
  <2>1. Head(switching) \in Requests /\ ClassOf(Head(switching)) # pim_mode
    BY SwitchingHead DEF IInv, WellFormed
  <2>2. pim_mode = "memory"
    BY <1>2, <2>1 DEF WiredFor, IInv, TypeOK, Class
  <2> QED
    BY <1>2, <2>2 DEF NothingDue
<1> QED
  BY <1>1, <1>2

\* Every step keeps it.
LEMMA NothingDueStep ==
  ASSUME IInv, WiredFor, NothingDue, [ClientNext]_clientVars
  PROVE  NothingDue'
<1>0. TypeOK /\ WellFormed
  BY DEF IInv
<1>1. CASE Idle \/ Block \/ BeginModeTransition
  <2>1. /\ fast' = [c \in Class |-> Undue(c)] /\ due' = [c \in Class |-> 0]
        /\ pim_mode' = pim_mode
    BY <1>1 DEF Idle, Block, BeginModeTransition
  <2> QED
    BY <1>0, <2>1, UndueEmpty DEF NothingDue
<1>2. CASE Dispatch
  <2>1. due' = [c \in Class |-> 0] /\ pim_mode' = ClassOf(Head(pending_queue))
        /\ Head(pending_queue) \in Requests
    BY <1>0, <1>2 DEF Dispatch, send_transaction, TypeOK
  <2> QED
    BY <2>1 DEF NothingDue, WiredFor
<1>3. CASE EndModeTransition
  <2>1. /\ due' = due /\ pim_mode' = ClassOf(Head(switching)) /\ pc = "switch"
        /\ Head(switching) \in Requests
    BY <1>0, <1>3, SwitchingHead DEF EndModeTransition, send_transaction
  <2> QED
    BY <2>1 DEF NothingDue, WiredFor
<1>4. CASE \E c \in Class : Elapse(c)
  <2>1. PICK c \in Class : Elapse(c)
    BY <1>4
  <2>2. /\ pc \notin {"tick", "drain"} /\ due[c] < Len(fast[c])
        /\ UNCHANGED <<fast, pc, pim_mode>>
    BY <2>1 DEF Elapse, Yielded, threadVars
  <2>3. due[c] \in Nat
    BY <1>0 DEF TypeOK
  <2>4. pc # "switch"
    BY <2>2, <2>3, EmptyWhileSwitching
  <2> QED
    BY <2>2, <2>4 DEF NothingDue
<1>5. CASE \/ \E i \in 1..Len(bridge["memory"]) : BridgeCallBack(i)
           \/ BridgeComputeDone \/ EndIteration
  <2>1. UNCHANGED <<fast, due, pim_mode>> /\ pc \in {"tick", "drain"}
    BY <1>5 DEF BridgeCallBack, BridgeComputeDone, EndIteration, deviceVars, threadVars
  <2> QED
    BY <2>1 DEF NothingDue
<1>6. CASE Delta \/ Timeout
  <2>1. UNCHANGED <<fast, due, pim_mode>> /\ (pc' = pc \/ pc' = "run")
    BY <1>6 DEF Delta, peq_cb, DeliverPendingEvent, DeliverResourceEvent, Timeout, Wake,
                deviceVars, threadVars
  <2> QED
    BY <2>1 DEF NothingDue
<1>7. CASE clock_posedge \/ clock_negedge \/ Clients \/ UNCHANGED clientVars
  <2>1. UNCHANGED <<fast, due, pim_mode, pc>>
    BY <1>7 DEF clock_posedge, clock_negedge, Clients, Deliver, nb_transport_fw, TakeResponse,
                TakeTraceDone, Stop, clientVars, vars, deviceVars, threadVars
  <2> QED
    BY <2>1 DEF NothingDue
<1> QED
  BY <1>1, <1>2, <1>3, <1>4, <1>5, <1>6, <1>7 DEF ClientNext, Step, Run, Timed

\* Only EndIteration puts the thread to sleep.
LEMMA SleepStep ==
  ASSUME IInv, WiredFor, NothingDue, [ClientNext]_clientVars, pc' = "sleep", pc # "sleep"
  PROVE  \A c \in Class : due'[c] = 0
<1>1. CASE EndIteration
  BY <1>1 DEF EndIteration, NothingDue, deviceVars
<1>2. CASE ~EndIteration
  <2>1. pc' # "sleep" \/ pc' = pc
    BY <1>2 DEF ClientNext, Step, Run, Timed, Delta, Idle, Block, Dispatch, BeginModeTransition,
       EndModeTransition, BridgeCallBack, BridgeComputeDone, Timeout, peq_cb, Wake,
       DeliverPendingEvent, DeliverResourceEvent, Elapse, clock_posedge, clock_negedge,
       Clients, Deliver, nb_transport_fw, TakeResponse, TakeTraceDone, Stop,
       clientVars, vars, threadVars
  <2> QED
    BY <2>1
<1> QED
  BY <1>1, <1>2

\* No analytical completion is due when the thread computes how long to sleep.
THEOREM SleepNeverWraps ==
  ASSUME WiredFor
  PROVE  ClientSpec => SleepEndsInFuture
<1>1. ClientInit => NothingDue
  BY DEF ClientInit, Init, NothingDue
<1>2. IInv /\ NothingDue /\ [ClientNext]_clientVars => NothingDue'
  BY NothingDueStep
<1>3. IInv /\ NothingDue /\ [ClientNext]_clientVars
        => [pc' = "sleep" /\ pc # "sleep" => \A c \in Class : due'[c] = 0]_vars
  BY SleepStep
<1> QED
  BY <1>1, <1>2, <1>3, Invariance, PTL DEF ClientSpec, SleepEndsInFuture

-----------------------------------------------------------------------------
(* The order of the PIM commands                                           *)

\* The Host's draft stream is made of macros or of detailed commands, as
\* fast_layer_mode of the PIM says, never of both.
UniformDraft == \A r, s \in Commands : r.macro = s.macro

\* All PIM commands take the same way through the device: the analytical
\* queue, or the bridge.
AllAnalytical == \A r \in Commands : Analytical(r)

Route ==
  /\ FastLayerMode => bridge_done = <<>>
  /\ ~FastLayerMode => fast["compute"] = <<>>
  /\ IF AllAnalytical THEN bridge["compute"] = <<>> ELSE fast["compute"] = <<>>
  /\ pc # "switch" => switching = <<>>

\* The line in three parts: what the completion paths hold, what is in the
\* bridge, what has not been handed over.
Served  == (completed["compute"] \o ComputeOnly(bridge_done)) \o fast["compute"]
Awaited == ComputeOnly(switching \o pending_queue \o peq)

\* The line of compute commands is what has been served, what the bridge has,
\* and what is still awaited, in this order.
LEMMA LineParts == ComputeLine = (Served \o bridge["compute"]) \o Awaited
BY DEF ComputeLine, Served, Awaited

\* A selection of requests is a sequence of requests.
LEMMA CommandsOnly ==
  ASSUME NEW s \in Seq(Requests)
  PROVE  ComputeOnly(s) \in Seq(Requests)
<1>1. Only(s, Commands) \in Seq(Requests \cap Commands)
  BY OnlyType
<1>2. Requests \cap Commands \subseteq Requests
  OBVIOUS
<1> QED
  BY <1>1, <1>2, SeqMonotonic DEF ComputeOnly

\* Each part of the line is a sequence of compute requests.
LEMMA PartTypes ==
  ASSUME TypeOK
  PROVE  /\ completed["compute"] \in Seq(Requests) /\ fast["compute"] \in Seq(Requests)
         /\ bridge["compute"] \in Seq(Requests) /\ ComputeOnly(bridge_done) \in Seq(Requests)
         /\ Served \in Seq(Requests) /\ Awaited \in Seq(Requests)
<1>1. /\ completed["compute"] \in Seq(Requests) /\ fast["compute"] \in Seq(Requests)
      /\ bridge["compute"] \in Seq(Requests) /\ bridge_done \in Seq(Requests)
      /\ switching \in Seq(Requests) /\ pending_queue \in Seq(Requests)
      /\ peq \in Seq(Requests)
  BY DEF TypeOK, Class
<1>2. switching \o pending_queue \o peq \in Seq(Requests)
  BY <1>1, ConcatProperties
<1>3. ComputeOnly(bridge_done) \in Seq(Requests) /\ Awaited \in Seq(Requests)
  BY <1>1, <1>2, CommandsOnly DEF Awaited
<1>4. Served \in Seq(Requests)
  BY <1>1, <1>3, ConcatProperties DEF Served
<1> QED
  BY <1>1, <1>3, <1>4

\* Three queues in a row, the second of which is empty.
LEMMA SkipEmpty ==
  ASSUME NEW a \in Seq(Requests), NEW b \in Seq(Requests)
  PROVE  (a \o <<>>) \o b = a \o b
BY ConcatEmptySeq

\* The front of a queue moves to the back of the one before it.
LEMMA MoveFront ==
  ASSUME NEW a \in Seq(Requests), NEW p \in Seq(Requests), NEW q \in Seq(Requests)
  PROVE  (a \o p) \o q = a \o (p \o q)
<1>1. Associates(Requests)
  BY ConcatLaws
<1> QED
  BY <1>1, Zenon DEF Associates

\* Collecting keeps the served part as it is.
LEMMA CollectOrder ==
  ASSUME IInv, Route, Collect
  PROVE  (completed'["compute"] \o ComputeOnly(bridge_done')) \o Undue("compute") = Served
<1> DEFINE a == completed["compute"]  f == fast["compute"]  d == due["compute"]
           p == SubSeq(f, 1, d)  u == Undue("compute")
           one == IF bridge_done # <<>> /\ ClassOf(Head(bridge_done)) = "compute"
                    THEN <<Head(bridge_done)>> ELSE <<>>
<1>0. TypeOK /\ WellFormed /\ "compute" \in Class
  BY DEF IInv, Class
<1>1. /\ a \in Seq(Requests) /\ f \in Seq(Requests) /\ d \in 0..Len(f)
      /\ bridge_done \in Seq(Requests)
  BY <1>0 DEF TypeOK, WellFormed
<1>2. completed'["compute"] = (a \o p) \o one
  BY <1>0 DEF Collect, Collected
<1>3. u \in Seq(Requests) /\ p \in Seq(Requests) /\ p \o u = f
  <2>1. u = SubSeq(f, d + 1, Len(f))
    BY DEF Undue
  <2> HIDE DEF f, d, u
  <2> QED
    BY <1>1, <2>1, CutSeq
<1>4. CASE FastLayerMode
  <2>1. bridge_done = <<>> /\ bridge_done' = <<>> /\ one = <<>>
    BY <1>4 DEF Route, Collect
  <2>2. ComputeOnly(<<>>) = <<>>
    BY OnlyEmpty DEF ComputeOnly
  <2>3. a \o p \in Seq(Requests)
    BY <1>1, <1>3, ConcatProperties
  <2>4. completed'["compute"] = a \o p
    BY <1>2, <2>1, <2>3, ConcatEmptySeq
  <2> HIDE DEF a, p, u, f, one
  <2>5. ((a \o p) \o <<>>) \o u = a \o (p \o u)
    <3>1. ((a \o p) \o <<>>) \o u = (a \o p) \o u
      BY <1>3, <2>3, SkipEmpty
    <3>2. (a \o p) \o u = a \o (p \o u)
      BY <1>1, <1>3, MoveFront, ZenonT(30)
    <3> QED
      BY <3>1, <3>2, Zenon
  <2>6. Served = (a \o <<>>) \o f
    BY <2>1, <2>2 DEF Served, a, f
  <2>7. Served = a \o f
    BY <1>1, <2>6, SkipEmpty
  <2> QED
    BY <1>3, <2>1, <2>2, <2>4, <2>5, <2>7 DEF u
<1>5. CASE ~FastLayerMode
  <2>1. f = <<>> /\ d = 0
    BY <1>1, <1>5 DEF Route
  <2>2. u = <<>> /\ p = <<>>
    <3>1. p = <<>>
      BY <2>1, SubSeqEmpty
    <3> QED
      BY <1>0, <2>1, <3>1, UndueEmpty
  <2>3. completed'["compute"] = a \o one
    BY <1>1, <1>2, <2>2, ConcatEmptySeq
  <2>4. one \in Seq(Requests) /\ ComputeOnly(bridge_done') \in Seq(Requests)
        /\ ComputeOnly(bridge_done) = one \o ComputeOnly(bridge_done')
    <3>1. CASE bridge_done = <<>>
      <4>1. bridge_done' = <<>> /\ one = <<>>
        BY <3>1 DEF Collect
      <4>2. ComputeOnly(<<>>) = <<>>
        BY OnlyEmpty DEF ComputeOnly
      <4>3. <<>> = <<>> \o <<>> /\ <<>> \in Seq(Requests)
        OBVIOUS
      <4> HIDE DEF one
      <4> QED
        BY <3>1, <4>1, <4>2, <4>3, Zenon
    <3>2. CASE bridge_done # <<>>
      <4>1. /\ bridge_done' = Tail(bridge_done) /\ Tail(bridge_done) \in Seq(Requests)
            /\ Head(bridge_done) \in Requests
        BY <1>1, <3>2 DEF Collect
      <4>2. Only(bridge_done, Commands)
              = (IF Head(bridge_done) \in Commands THEN <<Head(bridge_done)>> ELSE <<>>)
                  \o Only(Tail(bridge_done), Commands)
        BY <1>1, <3>2, OnlyHead
      <4>3. Head(bridge_done) \in Commands <=> ClassOf(Head(bridge_done)) = "compute"
        BY <4>1 DEF Commands
      <4>4. one = IF Head(bridge_done) \in Commands THEN <<Head(bridge_done)>> ELSE <<>>
        BY <3>2, <4>3
      <4>5. one \in Seq(Requests)
        BY <4>1
      <4> HIDE DEF one
      <4> QED
        BY <4>1, <4>2, <4>4, <4>5, CommandsOnly DEF ComputeOnly
    <3> QED
      BY <3>1, <3>2
  <2> DEFINE b == ComputeOnly(bridge_done')
  <2>5. Served = (a \o (one \o b)) \o <<>>
    BY <2>1, <2>4 DEF Served
  <2>6. ((a \o one) \o b) \o <<>> = (a \o (one \o b)) \o <<>>
    <3> HIDE DEF a, one, b
    <3>1. b \in Seq(Requests)
      BY <2>4 DEF b
    <3> QED
      BY <1>1, <2>4, <3>1, MoveFront, ZenonT(30)
  <2> QED
    BY <2>2, <2>3, <2>5, <2>6
<1> QED
  BY <1>4, <1>5

\* The route of the PIM commands does not change.
LEMMA RouteStep ==
  ASSUME IInv, UniformDraft, Route, [ClientNext]_clientVars
  PROVE  Route'
<1>0. TypeOK /\ WellFormed /\ "compute" \in Class /\ "memory" \in Class
  BY DEF IInv, Class
<1>1. ASSUME Collect
      PROVE  FastLayerMode => bridge_done' = <<>>
  BY <1>1 DEF Collect, Route
<1>2. fast["compute"] = <<>> => Undue("compute") = <<>>
  BY <1>0, UndueEmpty
<1>3. ASSUME NEW r \in Requests, NEW fastq \in [Class -> Seq(Requests)],
             send_transaction(r, fastq), fast["compute"] = <<>> => fastq["compute"] = <<>>
      PROVE  /\ ~FastLayerMode => fast'["compute"] = <<>>
             /\ IF AllAnalytical THEN bridge'["compute"] = <<>> ELSE fast'["compute"] = <<>>
  <2>1. CASE ClassOf(r) # "compute"
    <3>1. fast'["compute"] = fastq["compute"] /\ bridge'["compute"] = bridge["compute"]
      BY <1>0, <1>3, <2>1, ClassFacts DEF send_transaction, TypeOK
    <3> QED
      BY <1>3, <3>1 DEF Route
  <2>2. CASE ClassOf(r) = "compute" /\ Analytical(r)
    <3>1. AllAnalytical /\ FastLayerMode
      BY <1>3, <2>2 DEF AllAnalytical, Analytical, UniformDraft, Commands
    <3>2. bridge' = bridge
      BY <1>3, <2>2 DEF send_transaction
    <3> QED
      BY <3>1, <3>2 DEF Route
  <2>3. CASE ClassOf(r) = "compute" /\ ~Analytical(r)
    <3>1. ~AllAnalytical
      BY <1>3, <2>3 DEF AllAnalytical, Commands
    <3>2. fast' = fastq
      BY <1>3, <2>3 DEF send_transaction
    <3> QED
      BY <1>3, <3>1, <3>2 DEF Route
  <2> QED
    BY <2>1, <2>2, <2>3
<1>4. CASE Idle \/ Block \/ BeginModeTransition
  <2>1. /\ Collect /\ fast'["compute"] = Undue("compute") /\ bridge' = bridge
        /\ pc' # "switch" => switching' = switching /\ pc # "switch"
    BY <1>0, <1>4 DEF Idle, Block, BeginModeTransition
  <2> QED
    BY <1>1, <1>2, <2>1 DEF Route, AllAnalytical, Analytical
<1>5. CASE Dispatch
  <2>0. pending_queue \in Seq(Requests) /\ pending_queue # <<>>
    BY <1>0, <1>5 DEF Dispatch, TypeOK
  <2>1. /\ Collect /\ switching' = switching /\ pc # "switch"
        /\ send_transaction(Head(pending_queue), Rest)
        /\ Head(pending_queue) \in Requests /\ Rest["compute"] = Undue("compute")
    BY <1>0, <1>5, <2>0 DEF Dispatch, Rest
  <2>2. Rest \in [Class -> Seq(Requests)]
    BY <1>0, RestFacts
  <2> QED
    BY <1>1, <1>2, <1>3, <2>1, <2>2 DEF Route, AllAnalytical, Analytical
<1>6. CASE EndModeTransition
  <2>1. /\ bridge_done' = bridge_done /\ switching' = <<>>
        /\ send_transaction(Head(switching), fast) /\ Head(switching) \in Requests
    BY <1>0, <1>6, SwitchingHead DEF EndModeTransition
  <2> QED
    BY <1>0, <1>3, <2>1 DEF Route, AllAnalytical, Analytical, TypeOK
<1>7. CASE \E i \in 1..Len(bridge["memory"]) : BridgeCallBack(i)
  <2>1. /\ ~FastLayerMode /\ fast' = fast /\ bridge'["compute"] = bridge["compute"]
        /\ switching' = switching /\ pc' = pc
    BY <1>0, <1>7 DEF BridgeCallBack, threadVars, TypeOK
  <2> QED
    BY <2>1 DEF Route, AllAnalytical, Analytical
<1>8. CASE BridgeComputeDone
  <2>1. /\ ~FastLayerMode /\ fast' = fast /\ bridge["compute"] # <<>>
        /\ switching' = switching /\ pc # "switch"
    BY <1>8 DEF BridgeComputeDone
  <2> QED
    BY <2>1 DEF Route, AllAnalytical, Analytical
<1>9. CASE EndIteration \/ Timeout \/ Delta \/ (\E c \in Class : Elapse(c))
  <2>1. /\ UNCHANGED <<fast, bridge, bridge_done, switching>>
        /\ pc' # "switch" => pc # "switch"
    BY <1>9 DEF EndIteration, Timeout, Delta, peq_cb, DeliverPendingEvent, Wake,
                DeliverResourceEvent, Elapse, deviceVars, threadVars
  <2> QED
    BY <2>1 DEF Route, AllAnalytical, Analytical
<1>10. CASE clock_posedge \/ clock_negedge \/ Clients \/ UNCHANGED clientVars
  <2>1. UNCHANGED <<fast, bridge, bridge_done, switching, pc>>
    BY <1>10 DEF clock_posedge, clock_negedge, Clients, Deliver, nb_transport_fw, TakeResponse,
                 TakeTraceDone, Stop, clientVars, vars, deviceVars, threadVars
  <2> QED
    BY <2>1 DEF Route, AllAnalytical, Analytical
<1> QED
  BY <1>4, <1>5, <1>6, <1>7, <1>8, <1>9, <1>10 DEF ClientNext, Step, Run, Timed

\* The requests that wait, queue by queue.
LEMMA AwaitedParts ==
  ASSUME NEW s \in Seq(Requests), NEW q \in Seq(Requests), NEW p \in Seq(Requests)
  PROVE  ComputeOnly(s \o q \o p) = (ComputeOnly(s) \o ComputeOnly(q)) \o ComputeOnly(p)
<1>1. s \o q \in Seq(Requests)
  BY ConcatProperties
<1>0. Distributes(Requests, Commands)
  BY OnlyConcat
<1>2. Only((s \o q) \o p, Commands) = Only(s \o q, Commands) \o Only(p, Commands)
  BY <1>0, <1>1, Zenon DEF Distributes
<1>3. Only(s \o q, Commands) = Only(s, Commands) \o Only(q, Commands)
  BY <1>0, Zenon DEF Distributes
<1> QED
  BY <1>2, <1>3, Zenon DEF ComputeOnly

\* send_transaction moves a PIM command from the front of those that wait to
\* the back of those that are served or in the bridge.
LEMMA SendOrder ==
  ASSUME IInv, Route, UniformDraft,
         NEW r \in Requests, NEW fastq \in [Class -> Seq(Requests)],
         send_transaction(r, fastq), fast["compute"] = <<>> => fastq["compute"] = <<>>,
         NEW P \in Seq(Requests), NEW w \in Seq(Requests)
  PROVE  ((P \o fast'["compute"]) \o bridge'["compute"]) \o w
           = ((P \o fastq["compute"]) \o bridge["compute"]) \o (ComputeOnly(<<r>>) \o w)
<1> DEFINE f == fastq["compute"]  b == bridge["compute"]
<1>0. TypeOK /\ "compute" \in Class /\ f \in Seq(Requests) /\ b \in Seq(Requests)
      /\ P \o f \in Seq(Requests) /\ <<r>> \in Seq(Requests)
  BY DEF IInv, TypeOK, Class
<1>1. ComputeOnly(<<r>>) = IF ClassOf(r) = "compute" THEN <<r>> ELSE <<>>
  <2>1. Only(<<r>>, Commands) = IF r \in Commands THEN <<r>> ELSE <<>>
    BY OnlyOne
  <2> QED
    BY <2>1 DEF Commands, ComputeOnly
<1>2. CASE ClassOf(r) # "compute"
  <2>1. fast'["compute"] = f /\ bridge'["compute"] = b
    BY <1>0, <1>2, ClassFacts DEF send_transaction, TypeOK
  <2>2. ComputeOnly(<<r>>) \o w = w
    BY <1>1, <1>2
  <2> QED
    BY <2>1, <2>2, Zenon
<1>3. CASE ClassOf(r) = "compute" /\ Analytical(r)
  <2>1. AllAnalytical
    BY <1>3 DEF AllAnalytical, Analytical, UniformDraft, Commands
  <2>2. b = <<>> /\ bridge'["compute"] = <<>> /\ fast'["compute"] = Append(f, r)
    BY <1>0, <1>3, <2>1 DEF Route, send_transaction
  <2>3. ((P \o Append(f, r)) \o <<>>) \o w = ((P \o f) \o <<>>) \o (<<r>> \o w)
    <3>1. PushesBetween(Requests) /\ Concatenates(Requests) /\ HasUnit(Requests)
      BY ConcatLaws, PushLaw
    <3> HIDE DEF f
    <3>2. P \o Append(f, r) \in Seq(Requests)
      BY <1>0, AppendProperties, ConcatProperties
    <3>3. (P \o Append(f, r)) \o <<>> = P \o Append(f, r) /\ (P \o f) \o <<>> = P \o f
      BY <1>0, <3>1, <3>2, Zenon DEF HasUnit
    <3>5. f \in Seq(Requests)
      BY <1>0
    <3>4. (P \o Append(f, r)) \o w = (P \o f) \o (<<r>> \o w)
      BY <3>1, <3>5, Zenon DEF PushesBetween
    <3> QED
      BY <3>3, <3>4, Zenon
  <2> QED
    BY <1>1, <1>3, <2>2, <2>3, Zenon
<1>4. CASE ClassOf(r) = "compute" /\ ~Analytical(r)
  <2>1. ~AllAnalytical
    BY <1>4 DEF AllAnalytical, Commands
  <2>2. fast'["compute"] = f /\ bridge'["compute"] = Append(b, r)
    BY <1>0, <1>4 DEF send_transaction, TypeOK
  <2>3. ((P \o f) \o Append(b, r)) \o w = ((P \o f) \o b) \o (<<r>> \o w)
    <3> DEFINE Q == P \o f
    <3> HIDE DEF f, b, Q
    <3>1. Q \in Seq(Requests)
      BY <1>0 DEF Q
    <3>0. PushesBetween(Requests)
      BY PushLaw
    <3>3. b \in Seq(Requests)
      BY <1>0
    <3>2. (Q \o Append(b, r)) \o w = (Q \o b) \o (<<r>> \o w)
      BY <3>0, <3>1, <3>3, ZenonT(60) DEF PushesBetween
    <3> QED
      BY <3>2 DEF Q
  <2> QED
    BY <1>1, <1>4, <2>2, <2>3, Zenon
<1> QED
  BY <1>2, <1>3, <1>4

\* The first of those that wait, alone.
LEMMA AwaitedFirst ==
  ASSUME NEW q \in Seq(Requests), NEW p \in Seq(Requests), NEW r \in Requests
  PROVE  ComputeOnly((<<r>> \o q) \o p) = ComputeOnly(<<r>>) \o ComputeOnly((<<>> \o q) \o p)
<1>0. Associates(Requests) /\ HasUnit(Requests) /\ Distributes(Requests, Commands)
  BY ConcatLaws, OnlyConcat
<1>1. <<r>> \in Seq(Requests) /\ q \o p \in Seq(Requests)
  OBVIOUS
<1>2. (<<r>> \o q) \o p = <<r>> \o (q \o p)
  BY <1>0, <1>1, ZenonT(30) DEF Associates
<1>3. <<>> \o q = q
  BY <1>0, Zenon DEF HasUnit
<1>4. Only(<<r>> \o (q \o p), Commands) = Only(<<r>>, Commands) \o Only(q \o p, Commands)
  BY <1>0, <1>1, Zenon DEF Distributes
<1> QED
  BY <1>2, <1>3, <1>4, Zenon DEF ComputeOnly

\* A queue as its head and the rest.
LEMMA FirstOfQueue ==
  ASSUME NEW q \in Seq(Requests), q # <<>>
  PROVE  /\ Head(q) \in Requests /\ Tail(q) \in Seq(Requests)
         /\ <<>> \o q = <<Head(q)>> \o Tail(q)
<1>1. SplitsFirst(Requests) /\ HasUnit(Requests)
  BY ConcatLaws
<1>2. Head(q) \in Requests /\ Tail(q) \in Seq(Requests) /\ q = <<Head(q)>> \o Tail(q)
  BY <1>1, Zenon DEF SplitsFirst
<1>3. <<>> \o q = q
  BY <1>1, Zenon DEF HasUnit
<1> QED
  BY <1>2, <1>3, Zenon

\* Collecting alone leaves the line as it is.
LEMMA CollectLine ==
  ASSUME IInv, Route, Idle \/ Block \/ BeginModeTransition
  PROVE  ComputeLine' = ComputeLine
<1>0. TypeOK /\ "compute" \in Class /\ pc = "run"
  BY DEF IInv, Class, Idle, Block, BeginModeTransition
<1>1. Collect /\ fast'["compute"] = Undue("compute") /\ bridge' = bridge
  BY <1>0 DEF Idle, Block, BeginModeTransition
<1>2. Served' = Served
  BY <1>1, CollectOrder DEF Served, ComputeOnly, Commands
<1>3. Awaited' = Awaited
  <2>1. CASE Idle \/ Block
    BY <2>1 DEF Idle, Block, Awaited, ComputeOnly, Commands
  <2>2. CASE BeginModeTransition
    <3>1. switching = <<>> /\ pending_queue \in Seq(Requests) /\ pending_queue # <<>>
      BY <1>0, <2>2 DEF Route, TypeOK, BeginModeTransition
    <3>2. /\ switching' = <<Head(pending_queue)>> /\ pending_queue' = Tail(pending_queue)
          /\ peq' = peq
      BY <2>2 DEF BeginModeTransition
    <3>3. switching' \o pending_queue' = switching \o pending_queue
      BY <3>1, <3>2, FirstOfQueue
    <3> QED
      BY <3>2, <3>3 DEF Awaited, ComputeOnly, Commands
  <2> QED
    BY <2>1, <2>2
<1>4. ComputeLine' = (Served' \o bridge'["compute"]) \o Awaited'
  BY LineParts DEF ComputeLine, Served, Awaited
<1> QED
  BY <1>1, <1>2, <1>3, <1>4, LineParts, Zenon

\* Dispatching keeps the line.
LEMMA DispatchLine ==
  ASSUME IInv, UniformDraft, Route, Dispatch
  PROVE  ComputeLine' = ComputeLine
<1> DEFINE r == Head(pending_queue)
<1>0. TypeOK /\ WellFormed /\ "compute" \in Class
  BY DEF IInv, Class
<1>1. /\ Collect /\ send_transaction(r, Rest) /\ switching = <<>> /\ switching' = <<>>
      /\ pending_queue \in Seq(Requests) /\ pending_queue # <<>> /\ peq \in Seq(Requests)
      /\ pending_queue' = Tail(pending_queue) /\ peq' = peq
  BY <1>0 DEF Dispatch, Rest, Route, TypeOK
<1>2. Rest \in [Class -> Seq(Requests)] /\ Rest["compute"] = Undue("compute")
  BY <1>0, RestFacts DEF Rest
<1>3. fast["compute"] = <<>> => Rest["compute"] = <<>>
  BY <1>0, <1>2, UndueEmpty
<1>4. r \in Requests /\ Tail(pending_queue) \in Seq(Requests)
      /\ <<>> \o pending_queue = <<r>> \o Tail(pending_queue)
  BY <1>1, FirstOfQueue
<1> DEFINE P == completed'["compute"] \o ComputeOnly(bridge_done')
           w == ComputeOnly((<<>> \o Tail(pending_queue)) \o peq)
<1> HIDE DEF r
<1>5. P \in Seq(Requests) /\ w \in Seq(Requests)
  <2>1. completed' \in [Class -> Seq(Requests)] /\ bridge_done' \in Seq(Requests)
    BY <1>0, <1>1, CollectFacts
  <2>2. completed'["compute"] \in Seq(Requests) /\ ComputeOnly(bridge_done') \in Seq(Requests)
    BY <1>0, <2>1, CommandsOnly
  <2>3. (<<>> \o Tail(pending_queue)) \o peq \in Seq(Requests)
    BY <1>1, <1>4
  <2> QED
    BY <2>2, <2>3, CommandsOnly, ConcatProperties
<1>6. ((P \o fast'["compute"]) \o bridge'["compute"]) \o w
        = ((P \o Rest["compute"]) \o bridge["compute"]) \o (ComputeOnly(<<r>>) \o w)
  <2> HIDE DEF P, w
  <2> QED
    BY <1>1, <1>2, <1>3, <1>4, <1>5, SendOrder
<1>7. P \o Rest["compute"] = Served
  BY <1>1, <1>2, CollectOrder
<1>8. ComputeOnly(<<r>>) \o w = Awaited
  <2>1. ComputeOnly((<<r>> \o Tail(pending_queue)) \o peq) = ComputeOnly(<<r>>) \o w
    BY <1>1, <1>4, AwaitedFirst
  <2>2. Awaited = ComputeOnly((<<>> \o pending_queue) \o peq)
    BY <1>1 DEF Awaited
  <2> QED
    BY <1>4, <2>1, <2>2, Zenon
<1>9. ComputeLine' = ((P \o fast'["compute"]) \o bridge'["compute"]) \o w
  BY <1>1 DEF ComputeLine, ComputeOnly, Commands
<1> QED
  BY <1>6, <1>7, <1>8, <1>9, LineParts, Zenon

\* So does the hand-over at the end of a mode change.
LEMMA EndModeTransitionLine ==
  ASSUME IInv, UniformDraft, Route, EndModeTransition
  PROVE  ComputeLine' = ComputeLine
<1> DEFINE r == Head(switching)
<1>0. TypeOK /\ WellFormed /\ "compute" \in Class
  BY DEF IInv, Class
<1>1. /\ send_transaction(r, fast) /\ r \in Requests /\ switching' = <<>>
      /\ pending_queue \in Seq(Requests) /\ peq \in Seq(Requests)
      /\ UNCHANGED <<pending_queue, peq, completed, bridge_done>>
  BY <1>0, SwitchingHead DEF EndModeTransition, TypeOK
<1>2. switching = <<r>>
  <2>1. switching \in Seq(Requests) /\ Len(switching) = 1
    BY <1>0 DEF EndModeTransition, TypeOK, WellFormed
  <2> QED
    BY <2>1
<1> DEFINE P == completed["compute"] \o ComputeOnly(bridge_done)
           w == ComputeOnly((<<>> \o pending_queue) \o peq)
<1> HIDE DEF r
<1>5. P \in Seq(Requests) /\ w \in Seq(Requests) /\ fast \in [Class -> Seq(Requests)]
  <2>1. completed["compute"] \in Seq(Requests) /\ ComputeOnly(bridge_done) \in Seq(Requests)
    BY <1>0, PartTypes
  <2>2. (<<>> \o pending_queue) \o peq \in Seq(Requests)
    BY <1>1
  <2> QED
    BY <1>0, <2>1, <2>2, CommandsOnly, ConcatProperties DEF TypeOK
<1>6. ((P \o fast'["compute"]) \o bridge'["compute"]) \o w
        = ((P \o fast["compute"]) \o bridge["compute"]) \o (ComputeOnly(<<r>>) \o w)
  <2> HIDE DEF P, w
  <2> QED
    BY <1>1, <1>5, SendOrder
<1>7. P \o fast["compute"] = Served
  BY DEF Served
<1>8. ComputeOnly(<<r>>) \o w = Awaited
  <2>1. ComputeOnly((<<r>> \o pending_queue) \o peq) = ComputeOnly(<<r>>) \o w
    BY <1>1, AwaitedFirst
  <2> QED
    BY <1>2, <2>1, Zenon DEF Awaited
<1>9. ComputeLine' = ((P \o fast'["compute"]) \o bridge'["compute"]) \o w
  BY <1>1 DEF ComputeLine, ComputeOnly, Commands
<1> QED
  BY <1>6, <1>7, <1>8, <1>9, LineParts, Zenon

\* DRAMsim3 returns memory requests past the PIM commands.
LEMMA BridgeCallBackLine ==
  ASSUME IInv, NEW i \in 1..Len(bridge["memory"]), BridgeCallBack(i)
  PROVE  ComputeLine' = ComputeLine
<1> DEFINE e == bridge["memory"][i]
<1>1. "memory" \in Class /\ "compute" \in Class /\ TypeOK /\ WellFormed
  BY DEF IInv, Class
<1>2. e \in Requests /\ e \notin Commands /\ bridge_done \in Seq(Requests)
  <2>1. bridge["memory"] \in Seq(Requests) /\ bridge_done \in Seq(Requests)
    BY <1>1 DEF TypeOK
  <2>2. ClassOf(e) = "memory"
    BY <1>1 DEF WellFormed
  <2> QED
    BY <2>1, <2>2, ElementOfSeq DEF Commands
<1>3. /\ bridge_done' = Append(bridge_done, e) /\ bridge'["compute"] = bridge["compute"]
      /\ UNCHANGED <<completed, fast, switching, pending_queue, peq>>
  BY <1>1 DEF BridgeCallBack, TypeOK, threadVars
<1> HIDE DEF e
<1>4. Only(Append(bridge_done, e), Commands) = Only(bridge_done, Commands)
  BY <1>2, OnlyAppend
<1> QED
  BY <1>3, <1>4 DEF ComputeLine, ComputeOnly, Commands

\* The bridge drains its PIM commands from the front.
LEMMA BridgeComputeDoneLine ==
  ASSUME IInv, Route, BridgeComputeDone
  PROVE  ComputeLine' = ComputeLine
<1> DEFINE a == completed["compute"]  b == ComputeOnly(bridge_done)  d == bridge["compute"]
           h == Head(d)
<1>1. "compute" \in Class /\ TypeOK /\ WellFormed /\ bridge_done \in Seq(Requests)
  BY DEF IInv, TypeOK, Class
<1>2. a \in Seq(Requests) /\ b \in Seq(Requests) /\ d \in Seq(Requests)
  BY <1>1, PartTypes
<1>3. /\ d # <<>> /\ fast["compute"] = <<>> /\ fast' = fast
      /\ bridge_done' = Append(bridge_done, h) /\ bridge'["compute"] = Tail(d)
      /\ UNCHANGED <<completed, switching, pending_queue, peq>>
  BY <1>1 DEF BridgeComputeDone, Route, TypeOK
<1>4. h \in Commands /\ h \in Requests
  <2>1. 1 \in 1..Len(d) /\ h = d[1] /\ h \in Requests
    BY <1>2, <1>3
  <2>2. ClassOf(d[1]) = "compute"
    BY <1>1, <2>1 DEF WellFormed
  <2> QED
    BY <2>1, <2>2 DEF Commands
<1>5. ComputeOnly(bridge_done') = Append(b, h)
  <2>1. Only(Append(bridge_done, h), Commands) = Append(Only(bridge_done, Commands), h)
    <3> HIDE DEF h
    <3> QED
      BY <1>1, <1>4, OnlyAppend
  <2> QED
    BY <1>3, <2>1 DEF ComputeOnly
<1> HIDE DEF a, b, d, h
<1>6. ((a \o Append(b, h)) \o <<>>) \o Tail(d) = ((a \o b) \o <<>>) \o d
  <2>1. PushesBetween(Requests) /\ HasUnit(Requests) /\ SplitsFirst(Requests)
    BY ConcatLaws, PushLaw
  <2>2. a \o Append(b, h) \in Seq(Requests) /\ a \o b \in Seq(Requests)
    BY <1>2, <1>4, AppendProperties, ConcatProperties
  <2>3. (a \o Append(b, h)) \o <<>> = a \o Append(b, h) /\ (a \o b) \o <<>> = a \o b
    BY <2>1, <2>2, Zenon DEF HasUnit
  <2>4. d = <<h>> \o Tail(d) /\ Tail(d) \in Seq(Requests)
    BY <1>2, <1>3, <2>1, Zenon DEF SplitsFirst, h
  <2>5. \A w \in Seq(Requests) : (a \o Append(b, h)) \o w = (a \o b) \o (<<h>> \o w)
    BY <1>2, <1>4, <2>1, ZenonT(60) DEF PushesBetween
  <2> QED
    BY <2>3, <2>4, <2>5, Zenon
<1>7. ComputeLine' = (((a \o Append(b, h)) \o <<>>) \o Tail(d)) \o Awaited
  BY <1>3, <1>5 DEF ComputeLine, Awaited, ComputeOnly, Commands, a, b, d, h
<1>8. ComputeLine = (((a \o b) \o <<>>) \o d) \o Awaited
  BY <1>3 DEF ComputeLine, Awaited, a, b, d
<1> QED
  BY <1>6, <1>7, <1>8, Zenon

\* Delivery from the payload event queue.
LEMMA PeqCbLine ==
  ASSUME IInv, peq_cb
  PROVE  ComputeLine' = ComputeLine
<1>1. /\ switching \in Seq(Requests) /\ pending_queue \in Seq(Requests)
      /\ peq \in Seq(Requests) /\ peq # <<>>
  BY DEF IInv, TypeOK, peq_cb
<1>2. /\ peq' = Tail(peq) /\ pending_queue' = Append(pending_queue, Head(peq))
      /\ UNCHANGED <<completed, bridge_done, fast, bridge, switching>>
  BY DEF peq_cb, deviceVars, threadVars
<1>3. (switching \o Append(pending_queue, Head(peq))) \o Tail(peq)
        = (switching \o pending_queue) \o peq
  <2>1. PushesBetween(Requests) /\ SplitsFirst(Requests)
    BY ConcatLaws, PushLaw
  <2>2. Head(peq) \in Requests /\ Tail(peq) \in Seq(Requests) /\ peq = <<Head(peq)>> \o Tail(peq)
    BY <1>1, <2>1, Zenon DEF SplitsFirst
  <2>3. \A w \in Seq(Requests) : (switching \o Append(pending_queue, Head(peq))) \o w
                                   = (switching \o pending_queue) \o (<<Head(peq)>> \o w)
    BY <1>1, <2>1, <2>2, ZenonT(60) DEF PushesBetween
  <2> QED
    BY <2>2, <2>3, Zenon
<1>4. Awaited' = Awaited
  BY <1>2, <1>3 DEF Awaited, ComputeOnly, Commands
<1> QED
  BY <1>2, <1>4 DEF ComputeLine, Awaited, ComputeOnly, Commands

\* A new request joins the end of the line, if it is a PIM command.
LEMMA ArrivalLine ==
  ASSUME IInv, NEW r \in Requests, nb_transport_fw(r)
  PROVE  ComputeLine' = IF r \in Commands THEN Append(ComputeLine, r) ELSE ComputeLine
<1> DEFINE s == (switching \o pending_queue) \o peq
<1>0. TypeOK
  BY DEF IInv
<1>1. s \in Seq(Requests) /\ peq \in Seq(Requests) /\ switching \o pending_queue \in Seq(Requests)
  BY <1>0 DEF TypeOK
<1>2. /\ peq' = Append(peq, r)
      /\ UNCHANGED <<completed, bridge_done, fast, bridge, switching, pending_queue>>
  BY DEF nb_transport_fw, deviceVars, threadVars
<1>3. PushesLast(Requests)
  BY ConcatLaws
<1>4. (switching \o pending_queue) \o Append(peq, r) = Append(s, r)
  BY <1>1, <1>3, Zenon DEF PushesLast
<1> HIDE DEF s
<1>5. Only(Append(s, r), Commands)
        = IF r \in Commands THEN Append(Only(s, Commands), r) ELSE Only(s, Commands)
  BY <1>1, OnlyAppend
<1>6. Awaited = Only(s, Commands)
  BY DEF Awaited, ComputeOnly, s
<1>7. Awaited' = Only(Append(s, r), Commands)
  BY <1>2, <1>4 DEF Awaited, ComputeOnly, Commands
<1> DEFINE F == Served \o bridge["compute"]
<1>8. F \in Seq(Requests) /\ Awaited \in Seq(Requests)
  BY <1>0, PartTypes, ConcatProperties
<1>9. ComputeLine' = F \o Awaited' /\ ComputeLine = F \o Awaited
  BY <1>2 DEF ComputeLine, Served, Awaited, ComputeOnly, Commands
<1> HIDE DEF F
<1>10. F \o Append(Awaited, r) = Append(F \o Awaited, r)
  BY <1>3, <1>8, Zenon DEF PushesLast
<1> QED
  BY <1>5, <1>6, <1>7, <1>9, <1>10, Zenon

\* A queue of queues loses its first entry.
LEMMA PopNested ==
  ASSUME NEW a \in Seq(Requests), NEW b \in Seq(Requests), a # <<>>
  PROVE  /\ a \o b \in Seq(Requests) /\ a \o b # <<>> /\ Tail(a \o b) = Tail(a) \o b
         /\ Head(a \o b) = Head(a)
OBVIOUS

\* clock_negedge retires the first of the line.
LEMMA RetireLine ==
  ASSUME IInv, clock_negedge
  PROVE  /\ ComputeLine \in Seq(Requests) /\ ComputeLine # <<>>
         /\ ComputeLine' = Tail(ComputeLine)
         /\ Head(ComputeLine) = Head(completed["compute"])
<1> DEFINE a == completed["compute"]  b == ComputeOnly(bridge_done)  c == fast["compute"]
           d == bridge["compute"]
<1>1. /\ TypeOK /\ a \in Seq(Requests) /\ a # <<>> /\ b \in Seq(Requests)
      /\ c \in Seq(Requests) /\ d \in Seq(Requests) /\ Awaited \in Seq(Requests)
  BY PartTypes DEF IInv, clock_negedge
<1>2. /\ completed'["compute"] = Tail(a)
      /\ UNCHANGED <<bridge_done, fast, bridge, switching, pending_queue, peq>>
  BY <1>1 DEF clock_negedge, Release, TypeOK, threadVars, Class
<1>3. /\ ComputeLine = (((a \o b) \o c) \o d) \o Awaited
      /\ ComputeLine' = (((Tail(a) \o b) \o c) \o d) \o Awaited
  BY <1>2 DEF ComputeLine, Awaited, ComputeOnly, Commands
<1> HIDE DEF a, b, c, d
<1> DEFINE x == a \o b  y == x \o c  z == y \o d
<1>4. x \in Seq(Requests) /\ x # <<>> /\ Tail(x) = Tail(a) \o b /\ Head(x) = Head(a)
  BY <1>1, PopNested
<1> HIDE DEF x
<1>5. y \in Seq(Requests) /\ y # <<>> /\ Tail(y) = Tail(x) \o c /\ Head(y) = Head(x)
  BY <1>1, <1>4, PopNested
<1> HIDE DEF y
<1>6. z \in Seq(Requests) /\ z # <<>> /\ Tail(z) = Tail(y) \o d /\ Head(z) = Head(y)
  BY <1>1, <1>5, PopNested
<1> HIDE DEF z
<1>7. /\ z \o Awaited \in Seq(Requests) /\ z \o Awaited # <<>>
      /\ Tail(z \o Awaited) = Tail(z) \o Awaited /\ Head(z \o Awaited) = Head(z)
  BY <1>1, <1>6, PopNested
<1>8. ComputeLine = z \o Awaited /\ ComputeLine' = Tail(z) \o Awaited
  BY <1>3, <1>4, <1>5, <1>6, Zenon DEF x, y, z
<1>9. Head(z) = Head(a)
  BY <1>4, <1>5, <1>6, Zenon
<1> QED
  BY <1>7, <1>8, <1>9, Zenon DEF a

\* No step of the wrapper but clock_negedge changes the line.
LEMMA StepLine ==
  ASSUME IInv, UniformDraft, Route, Step, ~clock_negedge
  PROVE  ComputeLine' = ComputeLine
<1>1. CASE Run
  <2>1. CASE EndIteration
    BY <2>1 DEF EndIteration, deviceVars, ComputeLine, ComputeOnly, Commands
  <2> QED
    BY <1>1, <2>1, CollectLine, DispatchLine, BridgeCallBackLine, BridgeComputeDoneLine DEF Run
<1>2. CASE Delta
  <2>1. CASE DeliverPendingEvent \/ DeliverResourceEvent
    BY <2>1 DEF DeliverPendingEvent, DeliverResourceEvent, deviceVars, ComputeLine,
                ComputeOnly, Commands
  <2> QED
    BY <1>2, <2>1, PeqCbLine DEF Delta
<1>3. CASE clock_posedge
  <2>1. /\ completed'["compute"] = completed["compute"]
        /\ UNCHANGED <<bridge_done, fast, bridge, switching, pending_queue, peq>>
    BY <1>3 DEF clock_posedge, Release, IInv, TypeOK, threadVars, Class
  <2> QED
    BY <2>1 DEF ComputeLine, ComputeOnly, Commands
<1>4. CASE Timeout \/ \E c \in Class : Elapse(c)
  BY <1>4 DEF Timeout, Elapse, deviceVars, threadVars, ComputeLine, ComputeOnly, Commands
<1> QED
  BY <1>1, <1>2, <1>3, <1>4, EndModeTransitionLine DEF Step, Timed

\* What any step does to the line.
LEMMA LineStep ==
  ASSUME IInv, UniformDraft, Route, [ClientNext]_clientVars
  PROVE  \/ ComputeLine' = ComputeLine
         \/ ComputeLine # <<>> /\ ComputeLine' = Tail(ComputeLine)
         \/ \E r \in Requests : ComputeLine' = Append(ComputeLine, r)
<1>1. CASE Step
  BY <1>1, StepLine, RetireLine
<1>2. CASE Deliver
  BY <1>2, ArrivalLine DEF Deliver
<1>3. CASE TakeResponse \/ TakeTraceDone \/ Stop \/ UNCHANGED clientVars
  BY <1>3 DEF TakeResponse, TakeTraceDone, Stop, clientVars, vars, deviceVars, threadVars,
              ComputeLine, ComputeOnly, Commands
<1> QED
  BY <1>1, <1>2, <1>3 DEF ClientNext, Clients

\* PIM commands retire in the order in which they arrive.
THEOREM CommandsInOrder ==
  ASSUME UniformDraft
  PROVE  ClientSpec => ComputeRetiresInOrder
<1>1. ClientInit => Route
  BY DEF ClientInit, Init, Route, Class
<1>2. IInv /\ Route /\ [ClientNext]_clientVars => Route'
  BY RouteStep
<1>3. IInv /\ Route /\ [ClientNext]_clientVars
        => [\/ ComputeLine' = ComputeLine
            \/ /\ ComputeLine # <<>> /\ ComputeLine' = Tail(ComputeLine)
            \/ \E r \in Requests : ComputeLine' = Append(ComputeLine, r)]_vars
  BY LineStep
<1> QED
  BY <1>1, <1>2, <1>3, Invariance, PTL DEF ClientSpec, ComputeRetiresInOrder
-----------------------------------------------------------------------------
(* The memory requests the wrapper holds                                   *)

OfClass(c) == {r \in Requests : ClassOf(r) = c}

\* A queue whose entries are of class c is a sequence of such requests.
LEMMA ClassSeq ==
  ASSUME NEW c, NEW s \in Seq(Requests), \A i \in 1..Len(s) : ClassOf(s[i]) = c
  PROVE  s \in Seq(OfClass(c))
<1>1. \A i \in 1..Len(s) : s[i] \in OfClass(c)
  BY ElementOfSeq DEF OfClass
<1>2. Len(s) \in Nat /\ s = [i \in 1..Len(s) |-> s[i]]
  BY LenProperties
<1> QED
  BY <1>1, <1>2, IsASeq

\* The completion queues hold requests of their class.
Sorted == \A c \in Class : completed[c] \in Seq(OfClass(c))

\* Collecting keeps them sorted.
LEMMA CollectSorted ==
  ASSUME IInv, Sorted, Collect
  PROVE  Sorted'
<1> SUFFICES ASSUME NEW c \in Class PROVE completed'[c] \in Seq(OfClass(c))
  BY DEF Sorted, OfClass
<1> DEFINE p == SubSeq(fast[c], 1, due[c])
           one == IF bridge_done # <<>> /\ ClassOf(Head(bridge_done)) = c
                    THEN <<Head(bridge_done)>> ELSE <<>>
<1>1. /\ fast[c] \in Seq(Requests) /\ due[c] \in 0..Len(fast[c])
      /\ bridge_done \in Seq(Requests)
      /\ \A i \in 1..Len(fast[c]) : ClassOf(fast[c][i]) = c
  BY DEF IInv, TypeOK, WellFormed
<1>2. fast[c] \in Seq(OfClass(c))
  BY <1>1, ClassSeq
<1>3. p \in Seq(OfClass(c))
  BY <1>1, <1>2, CutSeq
<1>4. one \in Seq(OfClass(c))
  <2>1. CASE bridge_done # <<>> /\ ClassOf(Head(bridge_done)) = c
    <3>1. Head(bridge_done) \in OfClass(c)
      BY <1>1, <2>1 DEF OfClass
    <3> QED
      BY <2>1, <3>1
  <2>2. CASE ~(bridge_done # <<>> /\ ClassOf(Head(bridge_done)) = c)
    BY <2>2
  <2> QED
    BY <2>1, <2>2
<1>5. completed[c] \in Seq(OfClass(c))
  BY DEF Sorted
<1>6. completed'[c] = (completed[c] \o p) \o one
  BY DEF Collect, Collected
<1> HIDE DEF p, one
<1> QED
  BY <1>3, <1>4, <1>5, <1>6, ConcatProperties

\* Every step does.
LEMMA SortedStep ==
  ASSUME IInv, Sorted, Step
  PROVE  Sorted'
<1>1. CASE Idle \/ Block \/ Dispatch \/ BeginModeTransition
  BY <1>1, CollectSorted DEF Idle, Block, Dispatch, BeginModeTransition
<1>2. CASE clock_posedge \/ clock_negedge
  <2>1. PICK k \in Class : completed[k] # <<>> /\ Release(k)
    BY <1>2 DEF clock_posedge, clock_negedge, Class
  <2>2. completed' = [completed EXCEPT ![k] = Tail(@)] /\ completed \in [Class -> Seq(Requests)]
    BY <2>1 DEF Release, IInv, TypeOK
  <2>3. completed[k] \in Seq(OfClass(k)) /\ Tail(completed[k]) \in Seq(OfClass(k))
    BY <2>1 DEF Sorted
  <2> QED
    BY <2>2, <2>3 DEF Sorted, OfClass
<1>3. CASE \/ EndModeTransition \/ BridgeComputeDone \/ EndIteration \/ Timeout \/ Delta
           \/ \E i \in 1..Len(bridge["memory"]) : BridgeCallBack(i)
           \/ \E c \in Class : Elapse(c)
  <2>1. completed' = completed
    BY <1>3 DEF EndModeTransition, BridgeComputeDone, EndIteration, Timeout, Delta, peq_cb,
                DeliverPendingEvent, DeliverResourceEvent, BridgeCallBack, Elapse, deviceVars
  <2> QED
    BY <2>1 DEF Sorted, OfClass
<1> QED
  BY <1>1, <1>2, <1>3 DEF Step, Run, Timed

\* Memory requests that have arrived and are not yet answered.
Backlog ==
  busy_count["memory"] + CountOf("memory", switching) + CountOf("memory", pending_queue)
    + CountOf("memory", peq)

\* The backlog is a natural number.
LEMMA BacklogNat ==
  ASSUME TypeOK
  PROVE  /\ busy_count["memory"] \in Nat /\ CountOf("memory", switching) \in Nat
         /\ CountOf("memory", pending_queue) \in Nat /\ CountOf("memory", peq) \in Nat
         /\ Backlog \in Nat
<1> DEFINE a == busy_count["memory"]  b == CountOf("memory", switching)
           c == CountOf("memory", pending_queue)  d == CountOf("memory", peq)
<1>1. a \in Nat /\ b \in Nat /\ c \in Nat /\ d \in Nat
  BY CountFinite DEF TypeOK, Class
<1>2. a + b + c + d \in Nat
  <2> HIDE DEF a, b, c, d
  <2> QED
    BY <1>1
<1> QED
  BY <1>1, <1>2 DEF Backlog

\* A single entry.
LEMMA CountOne ==
  ASSUME NEW c, NEW r \in Requests
  PROVE  CountOf(c, <<r>>) = IF ClassOf(r) = c THEN 1 ELSE 0
<1>1. <<>> \in Seq(Requests) /\ <<r>> = Append(<<>>, r)
  OBVIOUS
<1>2. CountOf(c, Append(<<>>, r)) = CountOf(c, <<>>) + (IF ClassOf(r) = c THEN 1 ELSE 0)
  BY <1>1, CountAppend
<1>3. CountOf(c, <<>>) = 0
  BY CountEmpty
<1> QED
  BY <1>1, <1>2, <1>3

\* A memory request leaves the wrapper only with its response, if every one
\* is answered: what the backlog loses the interconnect gets.
AllAnswered == \A r \in OfClass("memory") : Answered(r)

\* Every step keeps the sum of the backlog and the responses.
LEMMA BacklogStep ==
  ASSUME IInv, Route, Sorted, AllAnswered, bw \in Seq(OfClass("memory")), Step
  PROVE  /\ bw' \in Seq(OfClass("memory"))
         /\ Backlog' + Len(bw') = Backlog + Len(bw)
<1> DEFINE a == busy_count["memory"]  b == CountOf("memory", switching)
           c == CountOf("memory", pending_queue)  d == CountOf("memory", peq)
           n == Len(bw)
<1>0. TypeOK /\ WellFormed /\ "memory" \in Class
  BY DEF IInv, Class
<1>1. a \in Nat /\ b \in Nat /\ c \in Nat /\ d \in Nat /\ n \in Nat
  BY <1>0, BacklogNat
<1>2. Backlog = a + b + c + d /\ Backlog' = a' + b' + c' + d'
  BY DEF Backlog
<1>3. CASE Dispatch \/ BeginModeTransition
  <2> DEFINE r == Head(pending_queue)  o == IF ClassOf(r) = "memory" THEN 1 ELSE 0
  <2>1. pending_queue \in Seq(Requests) /\ pending_queue # <<>> /\ r \in Requests
    BY <1>0, <1>3, SMTT(30) DEF TypeOK, Dispatch, BeginModeTransition
  <2>2. pending_queue' = Tail(pending_queue) /\ peq' = peq /\ bw' = bw
    BY <1>3 DEF Dispatch, BeginModeTransition, outVars
  <2>3. c = c' + o
    BY <2>1, <2>2, CountTail DEF CountOf, ClassOf
  <2>4. switching = <<>> /\ b = 0
    <3>1. switching = <<>>
      BY <1>3 DEF Route, Dispatch, BeginModeTransition
    <3> QED
      BY <3>1, CountEmpty
  <2>5. a' + b' = a + o
    <3>1. CASE Dispatch
      <4>1. send_transaction(r, [k \in Class |-> Undue(k)]) /\ switching' = switching
        BY <3>1 DEF Dispatch
      <4>2. a' = a + o
        BY <1>0, <4>1 DEF send_transaction, TypeOK, ClassOf, Class
      <4>3. b' = 0
        BY <2>4, <4>1
      <4> QED
        BY <1>1, <4>2, <4>3
    <3>2. CASE BeginModeTransition
      <4>1. a' = a /\ switching' = <<r>>
        BY <3>2 DEF BeginModeTransition
      <4>2. CountOf("memory", <<r>>) = o
        BY <2>1, CountOne
      <4>3. b' = o
        BY <4>1, <4>2
      <4> QED
        BY <4>1, <4>3
    <3> QED
      BY <1>3, <3>1, <3>2
  <2>6. d' = d /\ Len(bw') = n
    BY <2>2
  <2>7. o \in Nat /\ c' \in Nat
    <3>1. pending_queue' \in Seq(Requests)
      BY <2>1, <2>2
    <3> QED
      BY <3>1, CountFinite
  <2> HIDE DEF a, b, c, d, n, o
  <2>8. (a' + b') + c' + d' + Len(bw') = a + b + c + d + n
    BY <1>1, <2>3, <2>4, <2>5, <2>6, <2>7
  <2> QED
    BY <1>2, <2>2, <2>8 DEF n
<1>4. CASE EndModeTransition
  <2> DEFINE r == Head(switching)  o == IF ClassOf(r) = "memory" THEN 1 ELSE 0
  <2>1. /\ switching \in Seq(Requests) /\ Len(switching) = 1 /\ pc = "switch"
        /\ send_transaction(r, fast) /\ switching' = <<>>
        /\ UNCHANGED <<peq, pending_queue, bw>>
    BY <1>0, <1>4 DEF EndModeTransition, TypeOK, WellFormed, outVars
  <2>2. switching = <<r>> /\ r \in Requests
    <3>1. switching \in Seq(Requests) /\ Len(switching) = 1
      BY <2>1
    <3>2. switching = <<r>>
      BY <3>1
    <3>3. r \in Requests
      BY <3>1
    <3> QED
      BY <3>2, <3>3
  <2>3. b = o
    <3>1. CountOf("memory", <<r>>) = o
      BY <2>2, CountOne
    <3> QED
      BY <2>2, <3>1
  <2>4. b' = 0
    BY <2>1, CountEmpty
  <2>5. a' = a + o
    BY <1>0, <2>1 DEF send_transaction, TypeOK, ClassOf, Class
  <2>6. c' = c /\ d' = d /\ Len(bw') = n
    BY <2>1
  <2> HIDE DEF a, b, c, d, n, o
  <2>7. a' + b' + c' + d' + Len(bw') = a + b + c + d + n
    BY <1>1, <2>3, <2>4, <2>5, <2>6
  <2> QED
    BY <1>2, <2>1, <2>7 DEF n
<1>5. CASE peq_cb
  <2> DEFINE r == Head(peq)  o == IF ClassOf(r) = "memory" THEN 1 ELSE 0
  <2>1. /\ peq \in Seq(Requests) /\ peq # <<>> /\ pending_queue \in Seq(Requests)
        /\ peq' = Tail(peq) /\ pending_queue' = Append(pending_queue, r)
        /\ UNCHANGED <<busy_count, switching, bw>>
    BY <1>0, <1>5 DEF peq_cb, TypeOK, deviceVars, threadVars, outVars
  <2>2. r \in Requests
    BY <2>1
  <2>3. d = d' + o
    BY <2>1, CountTail DEF CountOf, ClassOf
  <2>4. c' = c + o
    <3>1. CountOf("memory", Append(pending_queue, r)) = c + o
      <4> HIDE DEF r
      <4> QED
        BY <2>1, <2>2, CountAppend
    <3> QED
      BY <2>1, <3>1
  <2>5. a' = a /\ b' = b /\ Len(bw') = n
    BY <2>1
  <2>6. o \in Nat /\ d' \in Nat
    <3>1. peq' \in Seq(Requests)
      BY <2>1
    <3> QED
      BY <3>1, CountFinite
  <2> HIDE DEF a, b, c, d, n, o
  <2>7. a' + b' + c' + d' + Len(bw') = a + b + c + d + n
    BY <1>1, <2>3, <2>4, <2>5, <2>6
  <2> QED
    BY <1>2, <2>1, <2>7 DEF n
<1>6. CASE clock_posedge
  <2> DEFINE r == Head(completed["memory"])
  <2>1. /\ completed["memory"] \in Seq(OfClass("memory")) /\ completed["memory"] # <<>>
        /\ Release("memory") /\ UNCHANGED <<peq, pending_queue, switching>>
        /\ bw' = IF Answered(r) THEN Append(bw, r) ELSE bw
    BY <1>0, <1>6 DEF clock_posedge, Sorted, threadVars
  <2>2. r \in OfClass("memory")
    BY <2>1
  <2>3. bw' = Append(bw, r)
    BY <2>1, <2>2 DEF AllAnswered
  <2>4. bw' \in Seq(OfClass("memory")) /\ Len(bw') = n + 1
    BY <2>2, <2>3, AppendProperties
  <2>5. a' = a - 1
    BY <1>0, <2>1 DEF Release, TypeOK
  <2>6. b' = b /\ c' = c /\ d' = d
    BY <2>1
  <2> HIDE DEF a, b, c, d, n
  <2>7. a' + b' + c' + d' + Len(bw') = a + b + c + d + n
    BY <1>1, <2>4, <2>5, <2>6
  <2> QED
    BY <1>2, <2>4, <2>7 DEF n
<1>7. CASE clock_negedge
  <2>1. a' = a
    BY <1>0, <1>7 DEF clock_negedge, Release, TypeOK, Class
  <2>2. UNCHANGED <<peq, pending_queue, switching, bw>>
    BY <1>7 DEF clock_negedge, threadVars
  <2> QED
    BY <1>2, <2>1, <2>2
<1>8. CASE \/ Idle \/ Block \/ BridgeComputeDone \/ EndIteration \/ Timeout
           \/ DeliverPendingEvent \/ DeliverResourceEvent
           \/ \E i \in 1..Len(bridge["memory"]) : BridgeCallBack(i)
           \/ \E k \in Class : Elapse(k)
  <2>1. UNCHANGED <<peq, pending_queue, switching, busy_count, bw>>
    BY <1>8 DEF Idle, Block, BridgeComputeDone, EndIteration, Timeout, DeliverPendingEvent,
                DeliverResourceEvent, BridgeCallBack, Elapse, deviceVars, threadVars, outVars
  <2> QED
    BY <2>1 DEF Backlog
<1> QED
  BY <1>3, <1>4, <1>5, <1>6, <1>7, <1>8 DEF Step, Run, Delta, Timed

\* Counting the entries of a class is selecting them.
LEMMA CountOnly ==
  ASSUME NEW c, NEW s \in Seq(Requests)
  PROVE  CountOf(c, s) = Len(Only(s, OfClass(c)))
<1> DEFINE Bad == {n \in Nat : \E t \in Seq(Requests) :
                     Len(t) = n /\ CountOf(c, t) # Len(Only(t, OfClass(c)))}
<1>1. SUFFICES ASSUME Bad # {} PROVE FALSE
  BY DEF Bad
<1>2. PICK n \in Bad : \A y \in Bad : n <= y
  BY <1>1, Least
<1>3. PICK t \in Seq(Requests) : Len(t) = n /\ CountOf(c, t) # Len(Only(t, OfClass(c)))
  BY <1>2
<1>4. ASSUME NEW u \in Seq(Requests), Len(u) < n
      PROVE  CountOf(c, u) = Len(Only(u, OfClass(c)))
  BY <1>2, <1>4
<1> HIDE DEF Bad
<1>5. t # <<>>
  BY <1>3, OnlyEmpty, CountEmpty
<1>6. PICK u \in Seq(Requests), e \in Requests : t = Append(u, e)
  BY <1>5, SequenceEmptyOrAppend
<1>7. Len(u) \in Nat /\ n = Len(u) + 1
  BY <1>3, <1>6, AppendProperties
<1>8. CountOf(c, u) = Len(Only(u, OfClass(c)))
  BY <1>4, <1>7
<1>9. CountOf(c, t) = CountOf(c, u) + (IF ClassOf(e) = c THEN 1 ELSE 0)
  BY <1>6, CountAppend
<1>10. Only(t, OfClass(c))
         = IF e \in OfClass(c) THEN Append(Only(u, OfClass(c)), e) ELSE Only(u, OfClass(c))
  BY <1>6, OnlyAppend
<1>11. e \in OfClass(c) <=> ClassOf(e) = c
  BY DEF OfClass
<1>12. Only(u, OfClass(c)) \in Seq(Requests)
  BY OnlySeq
<1>13. Len(Append(Only(u, OfClass(c)), e)) = Len(Only(u, OfClass(c))) + 1
  BY <1>12, AppendProperties
<1>14. Len(Only(u, OfClass(c))) \in Nat
  BY <1>12
<1> QED
  BY <1>3, <1>8, <1>9, <1>10, <1>11, <1>13, <1>14

\* Counts add up over queues in a row.
LEMMA CountConcat ==
  ASSUME NEW c, NEW s \in Seq(Requests), NEW r \in Seq(Requests)
  PROVE  s \o r \in Seq(Requests) /\ CountOf(c, s \o r) = CountOf(c, s) + CountOf(c, r)
<1>1. s \o r \in Seq(Requests)
  BY ConcatProperties
<1>2. Distributes(Requests, OfClass(c))
  BY OnlyConcat
<1>3. Only(s \o r, OfClass(c)) = Only(s, OfClass(c)) \o Only(r, OfClass(c))
  BY <1>2, Zenon DEF Distributes
<1>4. Only(s, OfClass(c)) \in Seq(Requests) /\ Only(r, OfClass(c)) \in Seq(Requests)
  BY OnlySeq
<1>5. Len(Only(s \o r, OfClass(c))) = Len(Only(s, OfClass(c))) + Len(Only(r, OfClass(c)))
  BY <1>3, <1>4, ConcatProperties
<1> QED
  BY <1>1, <1>5, CountOnly

\* A queue of one class holds nothing else.
LEMMA CountSorted ==
  ASSUME NEW c, NEW k, NEW s \in Seq(OfClass(k))
  PROVE  s \in Seq(Requests) /\ CountOf(c, s) = IF c = k THEN Len(s) ELSE 0
<1>1. OfClass(k) \subseteq Requests
  BY DEF OfClass
<1>2. s \in Seq(Requests)
  BY <1>1, SeqMonotonic
<1>3. \A i \in 1..Len(s) : s[i] \in OfClass(k)
  BY ElementOfSeq
<1>4. CASE c = k
  <2>1. Only(s, OfClass(c)) = s
    BY <1>2, <1>3, <1>4, OnlyAll
  <2> QED
    BY <1>2, <1>4, <2>1, CountOnly
<1>5. CASE c # k
  <2>1. \A i \in 1..Len(s) : s[i] \notin OfClass(c)
    BY <1>3, <1>5 DEF OfClass
  <2>2. Only(s, OfClass(c)) = <<>>
    BY <1>2, <2>1, OnlyNone
  <2>3. Len(<<>>) = 0
    OBVIOUS
  <2> QED
    BY <1>2, <1>5, <2>2, <2>3, CountOnly
<1> QED
  BY <1>2, <1>4, <1>5

\* Every transaction in the wrapper.
Content ==
  peq \o pending_queue \o switching \o bridge_done
  \o fast["memory"] \o bridge["memory"] \o completed["memory"]
  \o fast["compute"] \o bridge["compute"] \o completed["compute"]

\* A class's share of it: what waits and what is in flight.
LEMMA ContentCount ==
  ASSUME IInv, Sorted, NEW c \in Class
  PROVE  /\ Content \in Seq(Requests)
         /\ CountOf(c, Content) = CountOf(c, peq) + CountOf(c, pending_queue)
                                    + CountOf(c, switching) + InFlight(c)
<1>1. /\ peq \in Seq(Requests) /\ pending_queue \in Seq(Requests)
      /\ switching \in Seq(Requests) /\ bridge_done \in Seq(Requests)
  BY DEF IInv, TypeOK
<1>2. ASSUME NEW k \in Class
      PROVE  /\ fast[k] \in Seq(OfClass(k)) /\ bridge[k] \in Seq(OfClass(k))
             /\ completed[k] \in Seq(OfClass(k))
  BY ClassSeq DEF IInv, TypeOK, WellFormed, Sorted
<1>3. ASSUME NEW k \in Class
      PROVE  /\ fast[k] \in Seq(Requests) /\ bridge[k] \in Seq(Requests)
             /\ completed[k] \in Seq(Requests)
             /\ CountOf(c, fast[k]) = IF c = k THEN Len(fast[k]) ELSE 0
             /\ CountOf(c, bridge[k]) = IF c = k THEN Len(bridge[k]) ELSE 0
             /\ CountOf(c, completed[k]) = IF c = k THEN Len(completed[k]) ELSE 0
  BY <1>2, CountSorted
<1>4. "memory" \in Class /\ "compute" \in Class /\ (c = "memory" \/ c = "compute")
  BY DEF Class
<1> DEFINE s1 == peq \o pending_queue  s2 == s1 \o switching  s3 == s2 \o bridge_done
           s4 == s3 \o fast["memory"]  s5 == s4 \o bridge["memory"]
           s6 == s5 \o completed["memory"]  s7 == s6 \o fast["compute"]
           s8 == s7 \o bridge["compute"]  s9 == s8 \o completed["compute"]
<1>5. s1 \in Seq(Requests) /\ CountOf(c, s1) = CountOf(c, peq) + CountOf(c, pending_queue)
  BY <1>1, CountConcat
<1> HIDE DEF s1
<1>6. s2 \in Seq(Requests) /\ CountOf(c, s2) = CountOf(c, s1) + CountOf(c, switching)
  BY <1>1, <1>5, CountConcat
<1> HIDE DEF s2
<1>7. s3 \in Seq(Requests) /\ CountOf(c, s3) = CountOf(c, s2) + CountOf(c, bridge_done)
  BY <1>1, <1>6, CountConcat
<1> HIDE DEF s3
<1>8. s4 \in Seq(Requests) /\ CountOf(c, s4) = CountOf(c, s3) + CountOf(c, fast["memory"])
  BY <1>3, <1>4, <1>7, CountConcat
<1> HIDE DEF s4
<1>9. s5 \in Seq(Requests) /\ CountOf(c, s5) = CountOf(c, s4) + CountOf(c, bridge["memory"])
  BY <1>3, <1>4, <1>8, CountConcat
<1> HIDE DEF s5
<1>10. s6 \in Seq(Requests) /\ CountOf(c, s6) = CountOf(c, s5) + CountOf(c, completed["memory"])
  BY <1>3, <1>4, <1>9, CountConcat
<1> HIDE DEF s6
<1>11. s7 \in Seq(Requests) /\ CountOf(c, s7) = CountOf(c, s6) + CountOf(c, fast["compute"])
  BY <1>3, <1>4, <1>10, CountConcat
<1> HIDE DEF s7
<1>12. s8 \in Seq(Requests) /\ CountOf(c, s8) = CountOf(c, s7) + CountOf(c, bridge["compute"])
  BY <1>3, <1>4, <1>11, CountConcat
<1> HIDE DEF s8
<1>13. s9 \in Seq(Requests) /\ CountOf(c, s9) = CountOf(c, s8) + CountOf(c, completed["compute"])
  BY <1>3, <1>4, <1>12, CountConcat
<1> HIDE DEF s9
<1>14. Content = s9
  BY DEF Content, s1, s2, s3, s4, s5, s6, s7, s8, s9
<1> DEFINE f == Len(fast[c])  b == Len(bridge[c])  k == CountOf(c, bridge_done)
           m == Len(completed[c])
           x == CountOf(c, peq)  y == CountOf(c, pending_queue)  z == CountOf(c, switching)
           fm == CountOf(c, fast["memory"])  fc == CountOf(c, fast["compute"])
           bm == CountOf(c, bridge["memory"])  bc == CountOf(c, bridge["compute"])
           cm == CountOf(c, completed["memory"])  cc == CountOf(c, completed["compute"])
<1>15. /\ f \in Nat /\ b \in Nat /\ k \in Nat /\ m \in Nat
       /\ x \in Nat /\ y \in Nat /\ z \in Nat
  BY <1>1, FlightNat, CountFinite DEF IInv
<1>16. /\ fm \in Nat /\ bm \in Nat /\ cm \in Nat /\ fc \in Nat /\ bc \in Nat /\ cc \in Nat
       /\ fm + fc = f /\ bm + bc = b /\ cm + cc = m
  <2>1. CASE c = "memory"
    <3>1. fm = f /\ fc = 0 /\ bm = b /\ bc = 0 /\ cm = m /\ cc = 0
      BY <1>3, <1>4, <2>1
    <3> HIDE DEF f, b, m, fm, fc, bm, bc, cm, cc
    <3> QED
      BY <1>15, <3>1
  <2>2. CASE c = "compute"
    <3>1. fm = 0 /\ fc = f /\ bm = 0 /\ bc = b /\ cm = 0 /\ cc = m
      BY <1>3, <1>4, <2>2
    <3> HIDE DEF f, b, m, fm, fc, bm, bc, cm, cc
    <3> QED
      BY <1>15, <3>1
  <2> QED
    BY <1>4, <2>1, <2>2
<1>17. CountOf(c, s9) = x + y + z + k + fm + bm + cm + fc + bc + cc
  BY <1>5, <1>6, <1>7, <1>8, <1>9, <1>10, <1>11, <1>12, <1>13
<1>18. InFlight(c) = f + b + k + m
  BY DEF InFlight
<1> HIDE DEF f, b, k, m, x, y, z, fm, fc, bm, bc, cm, cc
<1>19. x + y + z + k + fm + bm + cm + fc + bc + cc = x + y + z + (f + b + k + m)
  BY <1>15, <1>16
<1> QED
  BY <1>13, <1>14, <1>17, <1>18, <1>19 DEF x, y, z

\* The backlog and the line are the two shares.
LEMMA ContentShares ==
  ASSUME IInv, Sorted
  PROVE  /\ Content \in Seq(Requests)
         /\ Len(Only(Content, OfClass("memory"))) = Backlog
         /\ Len(Only(Content, Commands)) = Len(ComputeLine)
         /\ ComputeLine \in Seq(Requests)
<1>0. "memory" \in Class /\ "compute" \in Class /\ TypeOK
  BY DEF Class, IInv
<1>1. Content \in Seq(Requests)
  BY <1>0, ContentCount
<1>2. Len(Only(Content, OfClass("memory"))) = Backlog
  <2> DEFINE x == CountOf("memory", peq)  y == CountOf("memory", pending_queue)
             z == CountOf("memory", switching)  w == busy_count["memory"]
  <2>1. x \in Nat /\ y \in Nat /\ z \in Nat /\ w \in Nat /\ Backlog = w + z + y + x
    BY <1>0, BacklogNat DEF Backlog
  <2>2. CountOf("memory", Content) = x + y + z + w
    BY <1>0, ContentCount DEF IInv, BusyCountExact
  <2>3. CountOf("memory", Content) = Len(Only(Content, OfClass("memory")))
    BY <1>1, CountOnly
  <2> HIDE DEF x, y, z, w
  <2> QED
    BY <2>1, <2>2, <2>3
<1>3. Commands = OfClass("compute")
  BY DEF Commands, OfClass
<1> DEFINE x == CountOf("compute", peq)  y == CountOf("compute", pending_queue)
           z == CountOf("compute", switching)  k == CountOf("compute", bridge_done)
           f == Len(fast["compute"])  b == Len(bridge["compute"])
           m == Len(completed["compute"])
<1>4. /\ f \in Nat /\ b \in Nat /\ k \in Nat /\ m \in Nat
      /\ x \in Nat /\ y \in Nat /\ z \in Nat
  BY <1>0, FlightNat, CountFinite DEF TypeOK
<1>5. Len(Only(Content, Commands)) = x + y + z + (f + b + k + m)
  <2>1. CountOf("compute", Content) = x + y + z + (f + b + k + m)
    BY <1>0, ContentCount DEF InFlight
  <2> QED
    BY <1>1, <1>3, <2>1, CountOnly
<1>6. Len(Awaited) = z + y + x
  <2>1. /\ peq \in Seq(Requests) /\ pending_queue \in Seq(Requests)
        /\ switching \in Seq(Requests)
    BY <1>0 DEF TypeOK
  <2> DEFINE s == switching \o pending_queue
  <2>2. s \in Seq(Requests) /\ CountOf("compute", s) = z + y
    BY <2>1, CountConcat
  <2> HIDE DEF s
  <2>3. s \o peq \in Seq(Requests) /\ CountOf("compute", s \o peq) = z + y + x
    BY <2>1, <2>2, CountConcat
  <2>4. CountOf("compute", s \o peq) = Len(Only(s \o peq, Commands))
    BY <1>3, <2>3, CountOnly
  <2> QED
    BY <2>3, <2>4 DEF Awaited, ComputeOnly, s
<1>7. Len(ComputeOnly(bridge_done)) = k
  BY <1>0, <1>3, CountOnly DEF TypeOK, ComputeOnly
<1>8. /\ completed["compute"] \in Seq(Requests) /\ fast["compute"] \in Seq(Requests)
      /\ bridge["compute"] \in Seq(Requests) /\ ComputeOnly(bridge_done) \in Seq(Requests)
      /\ Awaited \in Seq(Requests)
  BY <1>0, PartTypes
<1> DEFINE p == completed["compute"]  q == ComputeOnly(bridge_done)  g == fast["compute"]
           h == bridge["compute"]
<1>9. ComputeLine = (((p \o q) \o g) \o h) \o Awaited
  BY DEF ComputeLine, Awaited
<1>10. /\ p \in Seq(Requests) /\ Len(p) = m /\ q \in Seq(Requests) /\ Len(q) = k
       /\ g \in Seq(Requests) /\ Len(g) = f /\ h \in Seq(Requests) /\ Len(h) = b
  BY <1>7, <1>8
<1> HIDE DEF p, q, g, h, x, y, z, k, f, b, m
<1> DEFINE u == p \o q  v == u \o g  w == v \o h
<1>11. u \in Seq(Requests) /\ Len(u) = m + k
  BY <1>10, ConcatProperties
<1> HIDE DEF u
<1>12. v \in Seq(Requests) /\ Len(v) = m + k + f
  BY <1>10, <1>11, ConcatProperties
<1> HIDE DEF v
<1>13. w \in Seq(Requests) /\ Len(w) = m + k + f + b
  BY <1>10, <1>12, ConcatProperties, ZenonT(30)
<1> HIDE DEF w
<1>14. ComputeLine \in Seq(Requests) /\ Len(ComputeLine) = m + k + f + b + (z + y + x)
  <2>1. ComputeLine = w \o Awaited
    BY <1>9 DEF u, v, w
  <2> QED
    BY <1>6, <1>8, <1>13, <2>1, ConcatProperties
<1>15. m + k + f + b + (z + y + x) = x + y + z + (f + b + k + m)
  BY <1>4
<1> QED
  BY <1>1, <1>2, <1>5, <1>14, <1>15
=============================================================================
