------------------------- MODULE DramChannel_proofs -------------------------
(***************************************************************************)
(* Proofs about the DRAMsim3 channel for every set of requests and         *)
(* addresses, every number of ranks and banks, and queues of every size.   *)
(***************************************************************************)
EXTENDS DramChannel, Subsequences_proofs, SequenceTheorems, TLAPS

-----------------------------------------------------------------------------
(* The inductive invariant                                                 *)

Commands == [type : {"READ", "WRITE"}, addr : Addrs]

TypeOK ==
  /\ unsent \in SUBSET Requests /\ m_incomingQueue \in Seq(Requests)
  /\ m_readDone \in Seq(Requests) /\ m_writeDone \in Seq(Requests)
  /\ read_queue \in Seq(Addrs) /\ write_buffer \in Seq(Addrs)
  /\ pending_rd_q \in [Addrs -> Nat] /\ pending_wr_q \in SUBSET Addrs
  /\ return_queue \in Seq(Returns)
  /\ queues \in [Queues -> Seq(Commands)]
  /\ open_row \in [Queues -> Nat \cup {Closed}]
  /\ refresh_q \in Seq(Nat) /\ next_rank \in Nat

Held(q) == Entries(queues[q])
RD(a) == [type |-> "READ", addr |-> a]
WR(a) == [type |-> "WRITE", addr |-> a]

\* The command queues hold a command once, in the queue of its bank.
InPlace ==
  \A q \in Queues : /\ Distinct(queues[q])
                    /\ \A c \in Held(q) : Queue(c.addr) = q

\* The reads of an address are merged into one entry of read_queue or one READ,
\* and that entry exists only while some of them wait.
ReadsMerged ==
  /\ Distinct(read_queue)
  /\ \A a \in Entries(read_queue) : pending_rd_q[a] > 0 /\ RD(a) \notin Held(Queue(a))
  /\ \A q \in Queues : \A c \in Held(q) : c.type = "READ" => pending_rd_q[c.addr] > 0

\* The writes of an address are merged into one entry of write_buffer or one
\* WRITE, which is not sent to its bank as long as a read of the address waits.
WritesMerged ==
  /\ Distinct(write_buffer)
  /\ \A a \in Entries(write_buffer) : a \in pending_wr_q /\ WR(a) \notin Held(Queue(a))
  /\ \A q \in Queues : \A c \in Held(q) :
       c.type = "WRITE" => c.addr \in pending_wr_q /\ pending_rd_q[c.addr] = 0

Merged == InPlace /\ ReadsMerged /\ WritesMerged /\ ~exited

\* A request is at one place of the bridge, and m_readDone and m_writeDone hold
\* requests of their kind.
Apart ==
  /\ Distinct(m_incomingQueue)
  /\ \A r \in Entries(m_incomingQueue) :
       r \notin unsent /\ r \notin Entries(m_readDone) /\ r \notin Entries(m_writeDone)
  /\ \A r \in Entries(m_readDone) : ~r.write /\ r \notin unsent
  /\ \A r \in Entries(m_writeDone) : r.write /\ r \notin unsent

\* The queues a refresh holds up are those of the rank it is for.
RankHeld ==
  is_in_ref => refresh_q # <<>> /\ ref_q_indices = GetRefQIndices(Head(refresh_q))

Inv == TypeOK /\ Merged /\ Apart /\ RankHeld /\ NoneForgotten

\* NoneForgotten, address by address.
To(a)      == {r \in Requests : r.addr = a}
ReadsOf(a)  == {t \in Returns : t.addr = a /\ ~t.write}
WritesOf(a) == {t \in Returns : t.addr = a /\ t.write}
Covered(a) ==
  /\ Len(Only(m_readDone, To(a))) <= Len(Only(return_queue, ReadsOf(a))) + pending_rd_q[a]
  /\ Len(Only(m_writeDone, To(a))) <= Len(Only(return_queue, WritesOf(a)))

\* NoneForgotten says Covered of every address, before and after a step.
LEMMA NoneForgottenIsCovered ==
  /\ NoneForgotten <=> \A a \in Addrs : Covered(a)
  /\ NoneForgotten' <=> \A a \in Addrs : Covered(a)'
BY DEF NoneForgotten, Covered, To, ReadsOf, WritesOf

\* The channel starts empty.
LEMMA InitInv == Init => Inv
<1> SUFFICES ASSUME Init PROVE Inv
  OBVIOUS
<1> USE DEF Init
<1>1. /\ m_incomingQueue = <<>> /\ m_readDone = <<>> /\ m_writeDone = <<>>
      /\ read_queue = <<>> /\ write_buffer = <<>> /\ return_queue = <<>> /\ refresh_q = <<>>
      /\ pending_rd_q = [a \in Addrs |-> 0] /\ queues = [q \in Queues |-> <<>>]
  OBVIOUS
<1>2. Entries(<<>>) = {} /\ Distinct(<<>>)
  BY DEF Entries, Distinct
<1>3. TypeOK
  BY DEF TypeOK, Closed
<1>4. Merged
  BY <1>1, <1>2 DEF Merged, InPlace, ReadsMerged, WritesMerged, Held
<1>5. Apart
  BY <1>1, <1>2 DEF Apart
<1>6. RankHeld
  BY DEF RankHeld
<1>7. NoneForgotten
  <2> SUFFICES ASSUME NEW a \in Addrs PROVE Covered(a)
    BY NoneForgottenIsCovered
  <2>1. pending_rd_q[a] = 0
    OBVIOUS
  <2>2. \A S : Len(Only(<<>>, S)) = 0
    BY OnlyEmpty
  <2>3. /\ Len(Only(m_readDone, To(a))) = 0 /\ Len(Only(m_writeDone, To(a))) = 0
        /\ Len(Only(return_queue, ReadsOf(a))) = 0
        /\ Len(Only(return_queue, WritesOf(a))) = 0
    BY <1>1, <2>2, Zenon
  <2>4. 0 <= 0 + 0 /\ 0 <= 0
    OBVIOUS
  <2> QED
    BY <2>1, <2>3, <2>4, Zenon DEF Covered
<1> QED
  BY <1>3, <1>4, <1>5, <1>6, <1>7 DEF Inv
-----------------------------------------------------------------------------
(* Operators of the model                                                  *)

\* RemoveAt of the community modules takes one entry out.
LEMMA RemoveAtIs == \A s, i : RemoveAt(s, i) = Without(s, i)
BY DEF RemoveAt, Without

\* EraseRWCommand finds the command it is called with.
LEMMA EraseFacts ==
  ASSUME TypeOK, NEW q \in Queues, NEW i \in 1..Len(queues[q])
  PROVE  \E k \in 1..Len(queues[q]) : /\ queues[q][k] = queues[q][i]
                                      /\ Erase(q, queues[q][i]) = Without(queues[q], k)
<1> DEFINE s == queues[q]  cmd == s[i]
           P(k) == s[k] = cmd /\ \A j \in 1..(k - 1) : s[j] # cmd
           Same == {k \in 1..Len(s) : s[k] = cmd}
<1>1. s \in Seq(Commands) /\ DOMAIN s = 1..Len(s) /\ Len(s) \in Nat
  BY DEF TypeOK
<1>2. Same \in SUBSET Nat /\ Same # {}
  OBVIOUS
<1>3. PICK k \in Same : \A j \in Same : k <= j
  BY <1>2, Least
<1>4. k \in DOMAIN s /\ P(k)
  BY <1>1, <1>3
<1>5. (CHOOSE m \in DOMAIN s : P(m)) \in DOMAIN s /\ P(CHOOSE m \in DOMAIN s : P(m))
  BY <1>4
<1>6. Erase(q, cmd) = Without(s, CHOOSE m \in DOMAIN s : P(m))
  BY RemoveAtIs DEF Erase
<1> QED
  BY <1>1, <1>5, <1>6

\* The scan of a transaction queue stops at an entry it may schedule.
LEMMA FirstFacts ==
  ASSUME NEW s \in Seq(Addrs), Schedulable(s) # {}
  PROVE  First(Schedulable(s)) \in 1..Len(s)
<1>1. Schedulable(s) \in SUBSET (1..Len(s)) /\ Schedulable(s) \in SUBSET Nat
  BY DEF Schedulable
<1>2. \E i \in Schedulable(s) : \A j \in Schedulable(s) : i <= j
  BY <1>1, Least
<1> QED
  BY <1>1, <1>2 DEF First

\* A callback takes requests of its address out of done, at least one if there
\* is one, and gives back exactly what it takes.
LEMMA AnswerFacts ==
  ASSUME NEW done \in Seq(Requests), NEW a
  PROVE  LET x == Answer(done, a)
         IN /\ x.kept = Only(done, Requests \ x.answered)
            /\ x.answered \in SUBSET (Entries(done) \cap To(a))
            /\ \A i \in 1..Len(done) : done[i].addr = a => x.answered # {}
<1> DEFINE n == Len(done)
<1>1. n \in Nat /\ DOMAIN done = 1..n /\ \A i \in 1..n : done[i] \in Requests
  BY LenProperties, ElementOfSeq
<1>2. \A i \in Erased(done, a) : i \in 1..n /\ done[i].addr = a
  BY <1>1 DEF Erased
<1>3. ASSUME NEW i \in 1..n, done[i].addr = a
      PROVE  Erased(done, a) # {}
  <2> DEFINE M == {k \in 1..n : done[k].addr = a}
  <2>1. M \in SUBSET Nat /\ M # {}
    BY <1>3
  <2>2. PICK k \in M : \A j \in M : k <= j
    BY <2>1, Least
  <2>3. k \in 1..n /\ done[k].addr = a /\ (k > 1 => done[k - 1].addr # a)
    BY <1>1, <2>2
  <2>4. (k - k) % 2 = 0 /\ \A m \in k..k : done[m].addr = a
    BY <2>3
  <2>5. k \in Erased(done, a)
    BY <1>1, <2>3, <2>4 DEF Erased
  <2> QED
    BY <2>5
<1> QED
  BY <1>1, <1>2, <1>3 DEF Answer, Entries, To
-----------------------------------------------------------------------------
(* What a step leaves alone                                                *)

\* The parts of the invariant depend on these variables only.
LEMMA Stable ==
  /\ Merged /\ UNCHANGED <<queues, read_queue, write_buffer, pending_rd_q, pending_wr_q, exited>>
       => Merged'
  /\ Apart /\ UNCHANGED <<unsent, m_incomingQueue, m_readDone, m_writeDone>> => Apart'
  /\ RankHeld /\ UNCHANGED <<is_in_ref, ref_q_indices, refresh_q>> => RankHeld'
  /\ NoneForgotten /\ UNCHANGED <<m_readDone, m_writeDone, return_queue, pending_rd_q>>
       => NoneForgotten'
<1>1. Merged /\ UNCHANGED <<queues, read_queue, write_buffer, pending_rd_q, pending_wr_q, exited>>
        => Merged'
  BY DEF Merged, InPlace, ReadsMerged, WritesMerged, Held
<1>2. Apart /\ UNCHANGED <<unsent, m_incomingQueue, m_readDone, m_writeDone>> => Apart'
  BY DEF Apart
<1>3. RankHeld /\ UNCHANGED <<is_in_ref, ref_q_indices, refresh_q>> => RankHeld'
  BY DEF RankHeld, GetRefQIndices
<1>4. NoneForgotten /\ UNCHANGED <<m_readDone, m_writeDone, return_queue, pending_rd_q>>
        => NoneForgotten'
  BY DEF NoneForgotten
<1> QED
  BY <1>1, <1>2, <1>3, <1>4

\* FinishRefresh marks the queues of the rank at the front.
LEMMA MarkedRank ==
  ASSUME RankHeld, MarkRefresh, UNCHANGED refresh_q
  PROVE  RankHeld'
BY DEF RankHeld, MarkRefresh, HeldUp, GetRefQIndices

-----------------------------------------------------------------------------
(* The steps that only move requests and refreshes                         *)

\* sendCommand only puts a request behind the ones the bridge has.
LEMMA SendKeepsInv ==
  ASSUME Inv, NEW r \in Requests, sendCommand(r)
  PROVE  Inv'
<1>1. /\ r \in unsent /\ unsent' = unsent \ {r}
      /\ m_incomingQueue' = Append(m_incomingQueue, r)
      /\ m_incomingQueue \in Seq(Requests) /\ unsent \in SUBSET Requests
  BY DEF sendCommand, Inv, TypeOK
<1>2. UNCHANGED <<m_readDone, m_writeDone, read_queue, write_buffer, pending_rd_q,
                  pending_wr_q, return_queue, queues, open_row, is_in_ref, ref_q_indices,
                  refresh_q, next_rank, exited>>
  BY DEF sendCommand, transVars, pendingVars, bankVars, refreshVars
<1>3. TypeOK'
  BY <1>1, <1>2 DEF Inv, TypeOK
<1>4. Apart'
  <2>1. /\ Entries(m_incomingQueue') = Entries(m_incomingQueue) \cup {r}
        /\ Distinct(m_incomingQueue) /\ r \notin Entries(m_incomingQueue)
             => Distinct(m_incomingQueue')
    BY <1>1, EntriesAppend
  <2> QED
    BY <1>1, <1>2, <2>1 DEF Inv, Apart
<1> QED
  BY <1>2, <1>3, <1>4, Stable DEF Inv

\* The start of Controller::ClockTick keeps the invariant: entries of the return
\* queue become due, and a refresh is put behind the ones that wait.
LEMMA BeginKeepsInv ==
  ASSUME Inv, BeginController
  PROVE  Inv'
<1>1. UNCHANGED <<unsent, m_incomingQueue, m_readDone, m_writeDone, read_queue, write_buffer,
                  pending_rd_q, pending_wr_q, queues, open_row, is_in_ref, ref_q_indices, exited>>
  BY DEF BeginController, bridgeVars, transVars, bankVars
<1>2. \/ refresh_q' = refresh_q /\ next_rank' = next_rank
      \/ refresh_q' = Append(refresh_q, next_rank) /\ next_rank' = (next_rank + 1) % Ranks
  BY DEF BeginController
<1>3. refresh_q \in Seq(Nat) /\ next_rank \in Nat /\ Ranks \in Nat \ {0}
  BY ChannelAssumption DEF Inv, TypeOK
<1>4. refresh_q' \in Seq(Nat) /\ next_rank' \in Nat
  BY <1>2, <1>3, SMTT(30)
<1>5. RankHeld'
  <2>1. refresh_q # <<>> => refresh_q' # <<>> /\ Head(refresh_q') = Head(refresh_q)
    BY <1>2, <1>3
  <2> QED
    BY <1>1, <2>1 DEF Inv, RankHeld, GetRefQIndices
<1> DEFINE n == Len(return_queue)
<1>6. n \in Nat /\ DOMAIN return_queue = 1..n /\ \A i \in 1..n : return_queue[i] \in Returns
  BY LenProperties, ElementOfSeq DEF Inv, TypeOK
<1>7. /\ return_queue' \in Seq(Returns) /\ Len(return_queue') = n
      /\ \A i \in 1..n : /\ return_queue'[i].addr = return_queue[i].addr
                         /\ return_queue'[i].write = return_queue[i].write
                         /\ return_queue'[i] \in Returns
  <2> DEFINE later(t) == [t EXCEPT !.due = IF @ = "next" THEN "now" ELSE @]
             s == [i \in 1..n |-> later(return_queue[i])]
  <2>1. return_queue' = s
    BY <1>6 DEF BeginController
  <2>2. \A t \in Returns : /\ later(t) \in Returns
                           /\ later(t).addr = t.addr /\ later(t).write = t.write
    BY DEF Returns
  <2>3. \A i \in 1..n : s[i] = later(return_queue[i])
    OBVIOUS
  <2> HIDE DEF later
  <2>4. s \in Seq(Returns) /\ Len(s) = n
    BY <1>6, <2>2
  <2> HIDE DEF s
  <2> QED
    BY <1>6, <2>1, <2>2, <2>3, <2>4
<1>8. TypeOK'
  BY <1>1, <1>4, <1>7 DEF Inv, TypeOK
<1>9. NoneForgotten'
  <2> SUFFICES ASSUME NEW a \in Addrs PROVE Covered(a)'
    BY NoneForgottenIsCovered
  <2>1. return_queue \in Seq(Returns) /\ Len(return_queue') = Len(return_queue)
    BY <1>7 DEF Inv, TypeOK
  <2>3. Len(Only(return_queue, ReadsOf(a))) = Len(Only(return_queue', ReadsOf(a)))
    <3>1. \A i \in 1..n : return_queue[i] \in ReadsOf(a) <=> return_queue'[i] \in ReadsOf(a)
      BY <1>6, <1>7 DEF ReadsOf
    <3> QED
      BY <1>7, <2>1, <3>1, OnlySame
  <2>4. Len(Only(return_queue, WritesOf(a))) = Len(Only(return_queue', WritesOf(a)))
    <3>1. \A i \in 1..n : return_queue[i] \in WritesOf(a) <=> return_queue'[i] \in WritesOf(a)
      BY <1>6, <1>7 DEF WritesOf
    <3> QED
      BY <1>7, <2>1, <3>1, OnlySame
  <2>2. Covered(a)
    BY NoneForgottenIsCovered DEF Inv
  <2> QED
    BY <1>1, <2>2, <2>3, <2>4 DEF Covered
<1> QED
  BY <1>1, <1>5, <1>8, <1>9, Stable DEF Inv

\* FinishRefresh closes a bank or refreshes the rank; the commands stay in place.
LEMMA RefreshKeepsInv ==
  ASSUME Inv, FinishRefresh
  PROVE  Inv'
<1>1. UNCHANGED <<unsent, m_incomingQueue, m_readDone, m_writeDone, read_queue, write_buffer,
                  pending_rd_q, pending_wr_q, return_queue, queues, next_rank, exited>>
  BY DEF FinishRefresh, bridgeVars, transVars, pendingVars
<1>2. refresh_q # <<>> /\ refresh_q \in Seq(Nat)
  BY DEF FinishRefresh, Inv, TypeOK
<1>3. CASE MarkRefresh /\ UNCHANGED refresh_q /\
           \E q \in OpenBanks(Head(refresh_q)) : open_row' = [open_row EXCEPT ![q] = Closed]
  <2>1. open_row' \in [Queues -> Nat \cup {Closed}]
    BY <1>3 DEF Inv, TypeOK
  <2>2. TypeOK'
    BY <1>1, <1>3, <2>1 DEF Inv, TypeOK
  <2>3. RankHeld'
    BY <1>3, MarkedRank DEF Inv
  <2> QED
    BY <1>1, <2>2, <2>3, Stable DEF Inv
<1>4. CASE is_in_ref' = FALSE /\ refresh_q' = Tail(refresh_q) /\ UNCHANGED open_row
  <2>1. TypeOK'
    BY <1>1, <1>2, <1>4 DEF Inv, TypeOK
  <2>2. RankHeld'
    BY <1>4 DEF RankHeld
  <2> QED
    BY <1>1, <2>1, <2>2, Stable DEF Inv
<1> QED
  BY <1>3, <1>4 DEF FinishRefresh, bankVars

\* A phase in which nothing is issued or accepted leaves the queues alone.
LEMMA IdleKeepsInv ==
  ASSUME Inv, IssueNothing \/ AcceptNothing \/ UNCHANGED vars
  PROVE  Inv'
<1>1. UNCHANGED <<unsent, m_incomingQueue, m_readDone, m_writeDone, read_queue, write_buffer,
                  pending_rd_q, pending_wr_q, return_queue, queues, open_row, refresh_q,
                  next_rank, exited>>
  BY DEF IssueNothing, AcceptNothing, vars, bridgeVars, transVars, pendingVars, bankVars,
         refreshVars
<1>2. MarkRefresh \/ UNCHANGED <<is_in_ref, ref_q_indices>>
  BY DEF IssueNothing, AcceptNothing, vars, refreshVars
<1>3. RankHeld'
  BY <1>1, <1>2, MarkedRank, Stable DEF Inv
<1>4. TypeOK'
  BY <1>1 DEF Inv, TypeOK
<1> QED
  BY <1>1, <1>3, <1>4, Stable DEF Inv

-----------------------------------------------------------------------------
(* Callbacks                                                               *)

\* A callback keeps the invariant: it takes at least one of the requests that
\* wait for the entry's address, and the other entries are enough for the rest.
LEMMA ReturnKeepsInv ==
  ASSUME Inv, NEW i \in DOMAIN return_queue, ReturnDone(i)
  PROVE  Inv'
<1> DEFINE t == return_queue[i]
           done == IF t.write THEN m_writeDone ELSE m_readDone
           x == Answer(done, t.addr)
<1>1. /\ return_queue \in Seq(Returns) /\ i \in 1..Len(return_queue) /\ t \in Returns
      /\ t.addr \in Addrs /\ t.write \in BOOLEAN /\ done \in Seq(Requests)
      /\ m_readDone \in Seq(Requests) /\ m_writeDone \in Seq(Requests)
      /\ pending_rd_q \in [Addrs -> Nat]
  <2>1. /\ return_queue \in Seq(Returns) /\ i \in 1..Len(return_queue)
        /\ m_readDone \in Seq(Requests) /\ m_writeDone \in Seq(Requests)
        /\ pending_rd_q \in [Addrs -> Nat]
    BY DEF Inv, TypeOK
  <2>2. t \in Returns
    BY <2>1, ElementOfSeq
  <2>3. t.addr \in Addrs /\ t.write \in BOOLEAN
    BY <2>2 DEF Returns
  <2> QED
    BY <2>1, <2>2, <2>3
<1>2. UNCHANGED <<unsent, m_incomingQueue, read_queue, write_buffer, pending_rd_q, pending_wr_q,
                  queues, open_row, is_in_ref, ref_q_indices, refresh_q, next_rank, exited>>
  BY DEF ReturnDone, transVars, bankVars, refreshVars
<1>3. /\ return_queue' = Without(return_queue, i)
      /\ m_writeDone' = IF t.write THEN x.kept ELSE m_writeDone
      /\ m_readDone' = IF t.write THEN m_readDone ELSE x.kept
  BY RemoveAtIs DEF ReturnDone
<1>4. /\ x.kept = Only(done, Requests \ x.answered)
      /\ x.answered \in SUBSET (Entries(done) \cap To(t.addr))
      /\ \A k \in 1..Len(done) : done[k].addr = t.addr => x.answered # {}
  BY <1>1, AnswerFacts
<1> HIDE DEF t, x
<1>5. x.kept \in Seq(Requests)
  BY <1>1, <1>4, OnlySeq
<1>6. return_queue' \in Seq(Returns)
  BY <1>1, <1>3, WithoutPlaces
<1>7. TypeOK'
  BY <1>2, <1>3, <1>5, <1>6 DEF Inv, TypeOK
<1>8. Apart'
  <2>1. Entries(x.kept) \in SUBSET Entries(done)
    BY <1>1, <1>4, EntriesOnly
  <2>2. /\ Entries(m_readDone') \in SUBSET Entries(m_readDone)
        /\ Entries(m_writeDone') \in SUBSET Entries(m_writeDone)
    BY <1>3, <2>1
  <2> QED
    BY <1>2, <2>2 DEF Inv, Apart
<1>9. NoneForgotten'
  <2> SUFFICES ASSUME NEW a \in Addrs PROVE Covered(a)'
    BY NoneForgottenIsCovered
  <2> DEFINE hadR == Len(Only(return_queue, ReadsOf(a)))
             hasR == Len(Only(return_queue', ReadsOf(a)))
             hadW == Len(Only(return_queue, WritesOf(a)))
             hasW == Len(Only(return_queue', WritesOf(a)))
             old(s) == Len(Only(s, To(a)))
  <2>1. Covered(a)
    BY NoneForgottenIsCovered DEF Inv
  <2>2. /\ hadR \in Nat /\ hasR \in Nat /\ hadR = hasR + (IF t \in ReadsOf(a) THEN 1 ELSE 0)
        /\ hadW \in Nat /\ hasW \in Nat /\ hadW = hasW + (IF t \in WritesOf(a) THEN 1 ELSE 0)
    BY <1>1, <1>3, OnlyWithout DEF t
  <2>3. /\ t \in ReadsOf(a) <=> a = t.addr /\ ~t.write
        /\ t \in WritesOf(a) <=> a = t.addr /\ t.write
    BY <1>1 DEF ReadsOf, WritesOf
  <2>4. /\ old(done) \in Nat /\ old(x.kept) \in Nat
        /\ a # t.addr => old(x.kept) = old(done)
        /\ a = t.addr => old(x.kept) = 0 \/ old(x.kept) < old(done)
    <3>1. old(done) \in Nat /\ old(x.kept) \in Nat
      BY <1>1, <1>5, OnlySeq
    <3>2. ASSUME a # t.addr PROVE old(x.kept) = old(done)
      <4>1. \A e \in Requests : e \in To(a) <=> e \in Requests \ x.answered /\ e \in To(a)
        BY <1>4, <3>2 DEF To
      <4>2. Only(x.kept, To(a)) = Only(done, To(a))
        BY <1>1, <1>4, <4>1, OnlyOnly
      <4> QED
        BY <4>2
    <3>3. ASSUME a = t.addr, x.answered # {} PROVE old(x.kept) < old(done)
      <4>1. PICK r \in x.answered : r \in Entries(done) /\ r \in To(a)
        BY <1>4, <3>3
      <4>2. PICK k \in 1..Len(done) : done[k] = r
        BY <4>1 DEF Entries
      <4> HIDE DEF done
      <4> QED
        BY <1>1, <1>4, <4>1, <4>2, OnlyFewer
    <3>4. ASSUME a = t.addr, x.answered = {} PROVE old(x.kept) = 0
      <4>1. \A k \in 1..Len(x.kept) : x.kept[k] \notin To(a)
        <5> SUFFICES ASSUME NEW k \in 1..Len(x.kept), x.kept[k] \in To(a) PROVE FALSE
          OBVIOUS
        <5>1. x.kept[k] \in Entries(done)
          <6>1. Entries(x.kept) \in SUBSET Entries(done)
            BY <1>1, <1>4, EntriesOnly
          <6>2. x.kept[k] \in Entries(x.kept)
            BY DEF Entries
          <6> QED
            BY <6>1, <6>2
        <5>2. PICK l \in 1..Len(done) : done[l] = x.kept[k]
          BY <5>1 DEF Entries
        <5> QED
          BY <1>4, <3>4, <5>2 DEF To
      <4>2. Only(x.kept, To(a)) = <<>>
        BY <1>5, <4>1, OnlyNone
      <4> QED
        BY <4>2
    <3> QED
      BY <3>1, <3>2, <3>3, <3>4
  <2>5. /\ old(m_readDone) \in Nat /\ old(m_writeDone) \in Nat /\ pending_rd_q[a] \in Nat
    BY <1>1, OnlySeq
  <2>6. old(m_readDone) <= hadR + pending_rd_q[a] /\ old(m_writeDone) <= hadW
    BY <2>1 DEF Covered
  <2>7. pending_rd_q' = pending_rd_q
    BY <1>2
  <2>8. CASE t.write
    <3>1. done = m_writeDone /\ m_writeDone' = x.kept /\ m_readDone' = m_readDone
      BY <1>3, <2>8
    <3>2. /\ hadR = hasR
          /\ a # t.addr => hadW = hasW
          /\ a = t.addr => hadW = hasW + 1
      BY <2>2, <2>3, <2>8
    <3> HIDE DEF old, hadR, hasR, hadW, hasW, done
    <3>3. old(m_readDone') <= hasR + pending_rd_q[a] /\ old(m_writeDone') <= hasW
      BY <2>2, <2>4, <2>5, <2>6, <3>1, <3>2
    <3> QED
      BY <2>7, <3>3 DEF Covered, old, hasR, hasW
  <2>9. CASE ~t.write
    <3>1. done = m_readDone /\ m_readDone' = x.kept /\ m_writeDone' = m_writeDone
      BY <1>3, <2>9
    <3>2. /\ hadW = hasW
          /\ a # t.addr => hadR = hasR
          /\ a = t.addr => hadR = hasR + 1
      BY <2>2, <2>3, <2>9
    <3> HIDE DEF old, hadR, hasR, hadW, hasW, done
    <3>3. old(m_readDone') <= hasR + pending_rd_q[a] /\ old(m_writeDone') <= hasW
      BY <2>2, <2>4, <2>5, <2>6, <3>1, <3>2
    <3> QED
      BY <2>7, <3>3 DEF Covered, old, hasR, hasW
  <2> QED
    BY <1>1, <2>8, <2>9
<1> QED
  BY <1>2, <1>7, <1>8, <1>9, Stable DEF Inv
-----------------------------------------------------------------------------
(* Commands                                                                *)

\* A command of queue q is at one place, and it leaves it when it is erased.
LEMMA EraseKeeps ==
  ASSUME TypeOK, InPlace, NEW q \in Queues, NEW i \in 1..Len(queues[q]),
         queues' = [queues EXCEPT ![q] = Erase(q, queues[q][i])]
  PROVE  /\ queues' \in [Queues -> Seq(Commands)] /\ InPlace'
         /\ Held(q)' = Held(q) \ {queues[q][i]}
         /\ \A p \in Queues \ {q} : Held(p)' = Held(p)
<1> DEFINE s == queues[q]  c == s[i]
<1>1. s \in Seq(Commands) /\ Distinct(s) /\ queues \in [Queues -> Seq(Commands)]
  BY DEF TypeOK, InPlace
<1>2. PICK k \in 1..Len(s) : s[k] = c /\ Erase(q, c) = Without(s, k)
  BY EraseFacts
<1>3. /\ Without(s, k) \in Seq(Commands) /\ Distinct(Without(s, k))
      /\ Entries(Without(s, k)) = Entries(s) \ {c}
  <2> HIDE DEF s, c
  <2>1. Without(s, k) \in Seq(Commands)
    BY <1>1, WithoutPlaces
  <2>2. /\ Entries(s) = Entries(Without(s, k)) \cup {s[k]} /\ Distinct(Without(s, k))
        /\ s[k] \notin Entries(Without(s, k))
    BY <1>1, EntriesWithout
  <2> QED
    BY <1>2, <2>1, <2>2
<1>4. queues'[q] = Without(s, k) /\ \A p \in Queues \ {q} : queues'[p] = queues[p]
  BY <1>1, <1>2
<1>5. queues' \in [Queues -> Seq(Commands)]
  BY <1>1, <1>2, <1>3
<1>6. Held(q)' = Held(q) \ {c} /\ \A p \in Queues \ {q} : Held(p)' = Held(p)
  BY <1>3, <1>4 DEF Held
<1>7. ASSUME NEW p \in Queues
      PROVE  Distinct(queues'[p]) /\ \A d \in Held(p)' : Queue(d.addr) = p
  <2>1. CASE p = q
    BY <1>3, <1>4, <1>6, <2>1 DEF InPlace
  <2>2. CASE p # q
    BY <1>4, <1>6, <2>2 DEF InPlace
  <2> QED
    BY <2>1, <2>2
<1>8. InPlace'
  BY <1>7 DEF InPlace
<1> QED
  BY <1>5, <1>6, <1>8

\* A READ answers the reads of its address; nothing of them is left.
LEMMA IssueReadKeepsInv ==
  ASSUME Inv, NEW q \in Queues, NEW i \in 1..Len(queues[q]), queues[q][i].type = "READ",
         IssueRead(q, queues[q][i]), MarkRefresh,
         UNCHANGED <<bridgeVars, transVars, refresh_q, next_rank, refreshes>>
  PROVE  Inv'
<1> DEFINE c == queues[q][i]  b == c.addr  n == pending_rd_q[b]
           back == [addr |-> b, write |-> FALSE, due |-> "later"]
           more == [m \in 1..n |-> back]
<1>1. /\ queues[q] \in Seq(Commands) /\ c \in Commands /\ b \in Addrs /\ c = RD(b)
      /\ pending_rd_q \in [Addrs -> Nat] /\ n \in Nat /\ return_queue \in Seq(Returns)
  <2>1. queues[q] \in Seq(Commands) /\ pending_rd_q \in [Addrs -> Nat]
        /\ return_queue \in Seq(Returns)
    BY DEF Inv, TypeOK
  <2>2. c \in Commands
    BY <2>1, ElementOfSeq
  <2>3. b \in Addrs /\ c = RD(b)
    BY <2>2 DEF Commands, RD
  <2> QED
    BY <2>1, <2>2, <2>3
<1>2. /\ queues' = [queues EXCEPT ![q] = Erase(q, c)] /\ exited' = (n = 0)
      /\ return_queue' = return_queue \o more
      /\ pending_rd_q' = [pending_rd_q EXCEPT ![b] = 0]
      /\ UNCHANGED <<open_row, pending_wr_q>>
  BY DEF IssueRead
<1>3. UNCHANGED <<unsent, m_incomingQueue, m_readDone, m_writeDone, read_queue, write_buffer>>
  BY DEF bridgeVars, transVars
<1>4. /\ queues' \in [Queues -> Seq(Commands)] /\ InPlace'
      /\ Held(q)' = Held(q) \ {c} /\ \A p \in Queues \ {q} : Held(p)' = Held(p)
  BY <1>2, EraseKeeps DEF Inv, Merged
<1>5. back \in Returns /\ more \in Seq(Returns) /\ Len(more) = n /\ \A m \in 1..n : more[m] = back
  <2>1. back \in Returns
    BY <1>1 DEF Returns
  <2> HIDE DEF back, n
  <2> QED
    BY <1>1, <2>1
<1>6. c \in Held(q) /\ Queue(b) = q /\ n > 0 /\ b \notin Entries(read_queue)
  <2>1. c \in Held(q)
    BY DEF Held, Entries
  <2>2. Queue(b) = q /\ n > 0
    BY <2>1 DEF Inv, Merged, InPlace, ReadsMerged
  <2> QED
    BY <1>1, <2>1, <2>2 DEF Inv, Merged, ReadsMerged
<1>7. \A p \in Queues : \A d \in Held(p)' :
        d \in Held(p) /\ (d.type = "READ" => d.addr # b)
  <2> SUFFICES ASSUME NEW p \in Queues, NEW d \in Held(p)'
               PROVE  d \in Held(p) /\ (d.type = "READ" => d.addr # b)
    OBVIOUS
  <2>1. d \in Held(p)
    BY <1>4
  <2>2. ASSUME d.type = "READ", d.addr = b PROVE FALSE
    <3>1. Queue(d.addr) = p
      BY <2>1 DEF Inv, Merged, InPlace
    <3>2. p = q
      BY <1>6, <2>2, <3>1
    <3>3. d \in Commands
      <4>1. queues[p] \in Seq(Commands)
        BY DEF Inv, TypeOK
      <4> QED
        BY <2>1, <4>1, ElementOfSeq DEF Held, Entries
    <3>4. d = c
      BY <1>1, <2>2, <3>3 DEF Commands, RD
    <3> QED
      BY <1>4, <3>2, <3>4
  <2> QED
    BY <2>1, <2>2
<1>8. \A a \in Addrs : pending_rd_q'[a] = IF a = b THEN 0 ELSE pending_rd_q[a]
  BY <1>1, <1>2
<1> HIDE DEF more, back, n
<1>9. TypeOK'
  <2>1. return_queue' \in Seq(Returns)
    BY <1>1, <1>2, <1>5, ConcatProperties
  <2>2. pending_rd_q' \in [Addrs -> Nat]
    BY <1>1, <1>2
  <2> QED
    BY <1>2, <1>3, <1>4, <2>1, <2>2 DEF Inv, TypeOK
<1>10. Merged'
  <2>0. /\ read_queue \in Seq(Addrs) /\ write_buffer \in Seq(Addrs)
        /\ \A p \in Queues : \A d \in Held(p) : d.addr \in Addrs
    <3>1. \A p \in Queues : \A d \in Held(p) : d \in Commands
      BY ElementOfSeq DEF Inv, TypeOK, Held, Entries
    <3> QED
      BY <3>1 DEF Inv, TypeOK, Commands
  <2>1. ReadsMerged'
    <3>1. \A a \in Entries(read_queue) :
            /\ a \in Addrs /\ a # b /\ pending_rd_q[a] > 0 /\ RD(a) \notin Held(Queue(a))
            /\ Queue(a) \in Queues
      BY <1>6, <2>0, ElementOfSeq, ChannelAssumption DEF Inv, Merged, ReadsMerged, Entries, Queue
    <3>2. \A a \in Entries(read_queue) : pending_rd_q'[a] > 0 /\ RD(a) \notin Held(Queue(a))'
      BY <1>7, <1>8, <3>1
    <3>3. \A p \in Queues : \A d \in Held(p)' : d.type = "READ" => pending_rd_q'[d.addr] > 0
      BY <1>7, <1>8, <2>0 DEF Inv, Merged, ReadsMerged
    <3> QED
      BY <1>3, <3>2, <3>3 DEF Inv, Merged, ReadsMerged
  <2>2. WritesMerged'
    <3>1. \A a \in Entries(write_buffer) :
            a \in Addrs /\ a \in pending_wr_q /\ WR(a) \notin Held(Queue(a)) /\ Queue(a) \in Queues
      BY <2>0, ElementOfSeq, ChannelAssumption DEF Inv, Merged, WritesMerged, Entries, Queue
    <3>2. \A a \in Entries(write_buffer) : a \in pending_wr_q' /\ WR(a) \notin Held(Queue(a))'
      BY <1>2, <1>7, <3>1
    <3>3. \A p \in Queues : \A d \in Held(p)' :
            d.type = "WRITE" => d.addr \in pending_wr_q' /\ pending_rd_q'[d.addr] = 0
      BY <1>2, <1>7, <1>8, <2>0 DEF Inv, Merged, WritesMerged
    <3> QED
      BY <1>3, <3>2, <3>3 DEF Inv, Merged, WritesMerged
  <2>3. ~exited'
    <3>1. n # 0
      BY <1>1, <1>6
    <3> QED
      BY <1>2, <3>1, Zenon
  <2> QED
    BY <1>4, <2>1, <2>2, <2>3 DEF Merged
<1>11. NoneForgotten'
  <2> SUFFICES ASSUME NEW a \in Addrs PROVE Covered(a)'
    BY NoneForgottenIsCovered
  <2>1. Covered(a)
    BY NoneForgottenIsCovered DEF Inv
  <2> DEFINE R == Len(Only(return_queue, ReadsOf(a)))  W == Len(Only(return_queue, WritesOf(a)))
  <2>2. /\ Len(Only(more, WritesOf(a))) = 0
        /\ Len(Only(more, ReadsOf(a))) = IF a = b THEN n ELSE 0
    <3>1. back.addr = b /\ ~back.write
      BY DEF back
    <3>2. back \notin WritesOf(a) /\ (back \in ReadsOf(a) <=> a = b)
      BY <1>5, <3>1 DEF ReadsOf, WritesOf
    <3>3. Only(more, WritesOf(a)) = <<>>
      BY <1>5, <3>2, OnlyNone
    <3>4. CASE a = b
      <4>1. Only(more, ReadsOf(a)) = more
        BY <1>5, <3>2, <3>4, OnlyAll
      <4> QED
        BY <1>5, <3>3, <3>4, <4>1
    <3>5. CASE a # b
      <4>1. Only(more, ReadsOf(a)) = <<>>
        BY <1>5, <3>2, <3>5, OnlyNone
      <4> QED
        BY <3>3, <3>5, <4>1
    <3> QED
      BY <3>4, <3>5
  <2>3. /\ Len(Only(return_queue', ReadsOf(a))) = R + Len(Only(more, ReadsOf(a)))
        /\ Len(Only(return_queue', WritesOf(a))) = W + Len(Only(more, WritesOf(a)))
        /\ R \in Nat /\ W \in Nat
    <3>1. \A S : /\ Len(Only(return_queue \o more, S))
                      = Len(Only(return_queue, S)) + Len(Only(more, S))
                 /\ Len(Only(return_queue, S)) \in Nat
      <4> TAKE S
      <4>1. Distributes(Returns, S)
        BY OnlyConcat
      <4>2. Only(return_queue \o more, S) = Only(return_queue, S) \o Only(more, S)
        BY <1>1, <1>5, <4>1, Zenon DEF Distributes
      <4>3. Only(return_queue, S) \in Seq(Returns) /\ Only(more, S) \in Seq(Returns)
        BY <1>1, <1>5, OnlySeq
      <4> QED
        BY <4>2, <4>3, ConcatProperties, LenProperties
    <3> QED
      BY <1>2, <3>1
  <2>4. Len(Only(m_readDone, To(a))) <= R + pending_rd_q[a] /\ Len(Only(m_writeDone, To(a))) <= W
    BY <2>1 DEF Covered
  <2>5. /\ Len(Only(m_readDone, To(a))) \in Nat /\ Len(Only(m_writeDone, To(a))) \in Nat
        /\ pending_rd_q[a] \in Nat
    BY <1>1, OnlySeq DEF Inv, TypeOK
  <2> HIDE DEF R, W
  <2>6. /\ Len(Only(m_readDone, To(a)))
             <= Len(Only(return_queue', ReadsOf(a))) + pending_rd_q'[a]
        /\ Len(Only(m_writeDone, To(a))) <= Len(Only(return_queue', WritesOf(a)))
    <3>1. CASE a = b
      BY <1>1, <1>8, <2>2, <2>3, <2>4, <2>5, <3>1 DEF n
    <3>2. CASE a # b
      BY <1>1, <1>8, <2>2, <2>3, <2>4, <2>5, <3>2
    <3> QED
      BY <3>1, <3>2
  <2> QED
    BY <1>3, <2>6 DEF Covered
<1>12. RankHeld'
  BY MarkedRank DEF Inv
<1> QED
  BY <1>3, <1>9, <1>10, <1>11, <1>12, Stable DEF Inv

\* The types of what the queues hold.
LEMMA HeldTypes ==
  ASSUME TypeOK
  PROVE  /\ \A p \in Queues : \A d \in Held(p) : d \in Commands /\ d.addr \in Addrs
         /\ \A a \in Entries(read_queue) \cup Entries(write_buffer) :
              a \in Addrs /\ Queue(a) \in Queues
<1>1. \A p \in Queues : \A d \in Held(p) : d \in Commands
  BY ElementOfSeq DEF TypeOK, Held, Entries
<1>2. \A a \in Entries(read_queue) \cup Entries(write_buffer) : a \in Addrs
  BY ElementOfSeq DEF TypeOK, Entries
<1> QED
  BY <1>1, <1>2, ChannelAssumption DEF Commands, Queue

\* A WRITE ends the pending write of its address.
LEMMA IssueWriteKeepsInv ==
  ASSUME Inv, NEW q \in Queues, NEW i \in 1..Len(queues[q]), queues[q][i].type = "WRITE",
         IssueWrite(q, queues[q][i]), MarkRefresh,
         UNCHANGED <<bridgeVars, transVars, refresh_q, next_rank, refreshes>>
  PROVE  Inv'
<1> DEFINE c == queues[q][i]  b == c.addr
<1>1. c \in Commands /\ b \in Addrs /\ c = WR(b) /\ c \in Held(q)
  <2>1. c \in Held(q)
    BY DEF Held, Entries
  <2>2. c \in Commands /\ b \in Addrs
    BY <2>1, HeldTypes DEF Inv
  <2> QED
    BY <2>1, <2>2 DEF Commands, WR
<1>2. /\ queues' = [queues EXCEPT ![q] = Erase(q, c)] /\ exited' = (b \notin pending_wr_q)
      /\ pending_wr_q' = pending_wr_q \ {b}
      /\ UNCHANGED <<open_row, pending_rd_q, return_queue>>
  BY DEF IssueWrite
<1>3. UNCHANGED <<unsent, m_incomingQueue, m_readDone, m_writeDone, read_queue, write_buffer>>
  BY DEF bridgeVars, transVars
<1>4. /\ queues' \in [Queues -> Seq(Commands)] /\ InPlace'
      /\ Held(q)' = Held(q) \ {c} /\ \A p \in Queues \ {q} : Held(p)' = Held(p)
  BY <1>2, EraseKeeps DEF Inv, Merged
<1>5. Queue(b) = q /\ b \in pending_wr_q /\ b \notin Entries(write_buffer)
  <2>1. Queue(b) = q /\ b \in pending_wr_q
    BY <1>1 DEF Inv, Merged, InPlace, WritesMerged
  <2> QED
    BY <1>1, <2>1 DEF Inv, Merged, WritesMerged
<1>6. \A p \in Queues : \A d \in Held(p)' :
        d \in Held(p) /\ (d.type = "WRITE" => d.addr # b)
  <2> SUFFICES ASSUME NEW p \in Queues, NEW d \in Held(p)'
               PROVE  d \in Held(p) /\ (d.type = "WRITE" => d.addr # b)
    OBVIOUS
  <2>1. d \in Held(p)
    BY <1>4
  <2>2. ASSUME d.type = "WRITE", d.addr = b PROVE FALSE
    <3>1. Queue(d.addr) = p /\ d \in Commands
      BY <2>1, HeldTypes DEF Inv, Merged, InPlace
    <3>2. p = q /\ d = c
      BY <1>1, <1>5, <2>2, <3>1 DEF Commands, WR
    <3> QED
      BY <1>4, <3>2
  <2> QED
    BY <2>1, <2>2
<1>7. TypeOK'
  BY <1>2, <1>3, <1>4 DEF Inv, TypeOK
<1>8. Merged'
  <2>1. \A a \in Entries(read_queue) \cup Entries(write_buffer) : Queue(a) \in Queues
    BY HeldTypes DEF Inv
  <2>2. ReadsMerged'
    BY <1>2, <1>3, <1>6, <2>1 DEF Inv, Merged, ReadsMerged
  <2>3. WritesMerged'
    <3>1. \A a \in Entries(write_buffer) :
            a \in pending_wr_q /\ a # b /\ WR(a) \notin Held(Queue(a)) /\ Queue(a) \in Queues
      BY <1>5, <2>1 DEF Inv, Merged, WritesMerged
    <3>2. \A a \in Entries(write_buffer) : a \in pending_wr_q' /\ WR(a) \notin Held(Queue(a))'
      BY <1>2, <1>6, <3>1
    <3>3. \A p \in Queues : \A d \in Held(p)' :
            d.type = "WRITE" => d.addr \in pending_wr_q' /\ pending_rd_q'[d.addr] = 0
      BY <1>2, <1>6 DEF Inv, Merged, WritesMerged
    <3> QED
      BY <1>3, <3>2, <3>3 DEF Inv, Merged, WritesMerged
  <2>4. ~exited'
    BY <1>2, <1>5, Zenon
  <2> QED
    BY <1>4, <2>2, <2>3, <2>4 DEF Merged
<1>9. RankHeld'
  BY MarkedRank DEF Inv
<1> QED
  BY <1>2, <1>3, <1>7, <1>8, <1>9, Stable DEF Inv

\* A command issued from a queue: a row is opened or closed, or the command is
\* served.
LEMMA IssueKeepsInv ==
  ASSUME Inv, NEW q \in Queues, IssueFrom(q)
  PROVE  Inv'
<1>1. PICK i \in DOMAIN queues[q] :
        LET cmd == queues[q][i]  need == Required(q, cmd)
        IN /\ FirstReady(q, i)
           /\ \/ need = "ACTIVATE" /\ Activate(q, cmd)
              \/ need = "PRECHARGE" /\ Precharge(q)
              \/ need = "READ" /\ IssueRead(q, cmd)
              \/ need = "WRITE" /\ IssueWrite(q, cmd)
  BY DEF IssueFrom
<1> DEFINE c == queues[q][i]
<1>2. MarkRefresh /\ UNCHANGED <<bridgeVars, transVars, refresh_q, next_rank, refreshes>>
  BY DEF IssueFrom
<1>3. i \in 1..Len(queues[q]) /\ c \in Commands /\ Row(c.addr) \in Nat
  <2>1. queues[q] \in Seq(Commands)
    BY DEF Inv, TypeOK
  <2>2. i \in 1..Len(queues[q])
    BY <2>1
  <2>3. c \in Commands
    BY <2>1, <2>2, ElementOfSeq
  <2> QED
    BY <2>2, <2>3, ChannelAssumption DEF Commands, Row
<1>4. ASSUME UNCHANGED <<queues, pending_rd_q, pending_wr_q, return_queue, exited>>,
             open_row' \in [Queues -> Nat \cup {Closed}]
      PROVE  Inv'
  <2>1. UNCHANGED <<unsent, m_incomingQueue, m_readDone, m_writeDone, read_queue, write_buffer,
                    refresh_q, next_rank>>
    BY <1>2 DEF bridgeVars, transVars
  <2>2. TypeOK'
    BY <1>4, <2>1 DEF Inv, TypeOK
  <2>3. RankHeld'
    BY <1>2, MarkedRank DEF Inv
  <2> QED
    BY <1>4, <2>1, <2>2, <2>3, Stable DEF Inv
<1>5. CASE Activate(q, c)
  BY <1>3, <1>4, <1>5 DEF Activate, pendingVars, Inv, TypeOK
<1>6. CASE Precharge(q)
  BY <1>4, <1>6 DEF Precharge, pendingVars, Inv, TypeOK
<1>7. Required(q, c) \in {"READ", "WRITE"} => c.type = Required(q, c)
  BY <1>3 DEF Required, Commands
<1>8. CASE Required(q, c) = "READ" /\ IssueRead(q, c)
  BY <1>2, <1>3, <1>7, <1>8, IssueReadKeepsInv
<1>9. CASE Required(q, c) = "WRITE" /\ IssueWrite(q, c)
  BY <1>2, <1>3, <1>7, <1>9, IssueWriteKeepsInv
<1> QED
  BY <1>1, <1>5, <1>6, <1>8, <1>9

-----------------------------------------------------------------------------
(* Transactions                                                            *)

\* AddCommand to the queue of its bank.
LEMMA AddKeeps ==
  ASSUME TypeOK, InPlace, NEW a \in Addrs, NEW c \in Commands, c.addr = a,
         c \notin Held(Queue(a)), queues' = [queues EXCEPT ![Queue(a)] = Append(@, c)]
  PROVE  /\ queues' \in [Queues -> Seq(Commands)] /\ InPlace' /\ Queue(a) \in Queues
         /\ Held(Queue(a))' = Held(Queue(a)) \cup {c}
         /\ \A p \in Queues \ {Queue(a)} : Held(p)' = Held(p)
<1> DEFINE q == Queue(a)  s == queues[q]
<1>1. q \in Queues /\ s \in Seq(Commands) /\ Distinct(s) /\ queues \in [Queues -> Seq(Commands)]
  BY ChannelAssumption DEF TypeOK, InPlace, Queue
<1>2. c \notin Entries(s)
  BY DEF Held
<1> HIDE DEF q, s
<1>3. /\ Append(s, c) \in Seq(Commands) /\ Distinct(Append(s, c))
      /\ Entries(Append(s, c)) = Entries(s) \cup {c}
  BY <1>1, <1>2, EntriesAppend
<1>4. /\ queues'[q] = Append(s, c) /\ \A p \in Queues \ {q} : queues'[p] = queues[p]
      /\ queues' \in [Queues -> Seq(Commands)]
  BY <1>1, <1>3 DEF q, s
<1>5. Held(q)' = Held(q) \cup {c} /\ \A p \in Queues \ {q} : Held(p)' = Held(p)
  BY <1>3, <1>4 DEF Held, s
<1>6. ASSUME NEW p \in Queues
      PROVE  Distinct(queues'[p]) /\ \A d \in Held(p)' : Queue(d.addr) = p
  <2>1. CASE p = q
    BY <1>3, <1>4, <1>5, <2>1 DEF InPlace, q
  <2>2. CASE p # q
    BY <1>4, <1>5, <2>2 DEF InPlace
  <2> QED
    BY <2>1, <2>2
<1>7. InPlace'
  BY <1>6 DEF InPlace
<1> QED
  BY <1>1, <1>4, <1>5, <1>7 DEF q

\* ScheduleTransaction keeps the invariant: an address leaves the read queue or
\* the write buffer as its command enters the queue of its bank.
LEMMA ScheduleKeepsInv ==
  ASSUME Inv, ScheduleTransaction
  PROVE  Inv'
<1>1. UNCHANGED <<unsent, m_incomingQueue, m_readDone, m_writeDone, pending_rd_q, pending_wr_q,
                  return_queue, open_row, is_in_ref, ref_q_indices, refresh_q, next_rank, exited>>
  BY DEF ScheduleTransaction, bridgeVars, pendingVars, bankVars, refreshVars
<1>2. \A a \in Entries(read_queue) \cup Entries(write_buffer) : a \in Addrs /\ Queue(a) \in Queues
  BY HeldTypes DEF Inv
<1>3. ASSUME TypeOK', Merged' PROVE Inv'
  BY <1>1, <1>3, Stable DEF Inv
<1>4. CASE UNCHANGED <<queues, write_buffer, read_queue>>
  <2>1. TypeOK'
    BY <1>1, <1>4 DEF Inv, TypeOK
  <2> QED
    BY <1>1, <1>3, <1>4, <2>1, Stable DEF Inv
<1>5. CASE Schedulable(write_buffer) # {} /\ ScheduleWrite
           /\ ~UNCHANGED <<queues, write_buffer, read_queue>>
  <2>0. PICK i, a : i = First(Schedulable(write_buffer)) /\ a = write_buffer[i]
    OBVIOUS
  <2>1. /\ write_buffer \in Seq(Addrs) /\ i \in 1..Len(write_buffer) /\ a \in Entries(write_buffer)
        /\ a \in Addrs /\ pending_rd_q[a] \in Nat
    BY <1>2, <1>5, <2>0, FirstFacts DEF Inv, TypeOK, Entries
  <2>2. /\ ~(pending_rd_q[a] > 0) /\ queues' = [queues EXCEPT ![Queue(a)] = Append(@, WR(a))]
        /\ write_buffer' = Without(write_buffer, i) /\ read_queue' = read_queue
    BY <1>5, <2>0, RemoveAtIs DEF ScheduleWrite, AddCommand, WR
  <2>3. /\ a \in pending_wr_q /\ WR(a) \notin Held(Queue(a)) /\ Distinct(write_buffer)
        /\ WR(a) \in Commands /\ WR(a).addr = a /\ WR(a).type = "WRITE" /\ pending_rd_q[a] = 0
    BY <2>1, <2>2 DEF Inv, Merged, WritesMerged, WR, Commands
  <2>4. /\ queues' \in [Queues -> Seq(Commands)] /\ InPlace' /\ Queue(a) \in Queues
        /\ Held(Queue(a))' = Held(Queue(a)) \cup {WR(a)}
        /\ \A p \in Queues \ {Queue(a)} : Held(p)' = Held(p)
    BY <2>1, <2>2, <2>3, AddKeeps DEF Inv, Merged
  <2>5. /\ write_buffer' \in Seq(Addrs) /\ Distinct(write_buffer')
        /\ Entries(write_buffer) = Entries(write_buffer') \cup {a} /\ a \notin Entries(write_buffer')
    BY <2>0, <2>1, <2>2, <2>3, WithoutPlaces, EntriesWithout
  <2>6. \A p \in Queues : \A d \in Held(p)' : d \in Held(p) \/ d = WR(a)
    BY <2>4
  <2>7. ReadsMerged'
    <3>1. \A b \in Entries(read_queue) : RD(b) \notin Held(Queue(b))'
      BY <1>2, <2>6 DEF Inv, Merged, ReadsMerged, RD, WR
    <3>2. \A p \in Queues : \A d \in Held(p)' : d.type = "READ" => pending_rd_q[d.addr] > 0
      BY <2>3, <2>6 DEF Inv, Merged, ReadsMerged
    <3> QED
      BY <1>1, <2>2, <3>1, <3>2 DEF Inv, Merged, ReadsMerged
  <2>8. WritesMerged'
    <3>1. \A b \in Entries(write_buffer') : b \in pending_wr_q /\ WR(b) \notin Held(Queue(b))'
      <4> SUFFICES ASSUME NEW b \in Entries(write_buffer')
                   PROVE  b \in pending_wr_q /\ WR(b) \notin Held(Queue(b))'
        OBVIOUS
      <4>1. b \in Entries(write_buffer) /\ b # a /\ Queue(b) \in Queues
        BY <1>2, <2>5
      <4>2. WR(b) # WR(a)
        BY <4>1 DEF WR
      <4> QED
        BY <2>6, <4>1, <4>2 DEF Inv, Merged, WritesMerged
    <3>2. \A p \in Queues : \A d \in Held(p)' :
            d.type = "WRITE" => d.addr \in pending_wr_q /\ pending_rd_q[d.addr] = 0
      BY <2>3, <2>6 DEF Inv, Merged, WritesMerged
    <3> QED
      BY <1>1, <2>5, <3>1, <3>2 DEF WritesMerged
  <2>9. Merged'
    BY <1>1, <2>4, <2>7, <2>8 DEF Inv, Merged
  <2>10. TypeOK'
    BY <1>1, <2>2, <2>4, <2>5 DEF Inv, TypeOK
  <2> QED
    BY <1>3, <2>9, <2>10
<1>6. CASE Schedulable(read_queue) # {} /\ ScheduleRead
  <2>0. PICK i, a : i = First(Schedulable(read_queue)) /\ a = read_queue[i]
    OBVIOUS
  <2>1. /\ read_queue \in Seq(Addrs) /\ i \in 1..Len(read_queue) /\ a \in Entries(read_queue)
        /\ a \in Addrs
    BY <1>2, <1>6, <2>0, FirstFacts DEF Inv, TypeOK, Entries
  <2>2. /\ queues' = [queues EXCEPT ![Queue(a)] = Append(@, RD(a))]
        /\ read_queue' = Without(read_queue, i) /\ write_buffer' = write_buffer
    BY <1>6, <2>0, RemoveAtIs DEF ScheduleRead, AddCommand, RD
  <2>3. /\ pending_rd_q[a] > 0 /\ RD(a) \notin Held(Queue(a)) /\ Distinct(read_queue)
        /\ RD(a) \in Commands /\ RD(a).addr = a /\ RD(a).type = "READ"
    BY <2>1 DEF Inv, Merged, ReadsMerged, RD, Commands
  <2>4. /\ queues' \in [Queues -> Seq(Commands)] /\ InPlace' /\ Queue(a) \in Queues
        /\ Held(Queue(a))' = Held(Queue(a)) \cup {RD(a)}
        /\ \A p \in Queues \ {Queue(a)} : Held(p)' = Held(p)
    BY <2>1, <2>2, <2>3, AddKeeps DEF Inv, Merged
  <2>5. /\ read_queue' \in Seq(Addrs) /\ Distinct(read_queue')
        /\ Entries(read_queue) = Entries(read_queue') \cup {a} /\ a \notin Entries(read_queue')
    BY <2>0, <2>1, <2>2, <2>3, WithoutPlaces, EntriesWithout
  <2>6. \A p \in Queues : \A d \in Held(p)' : d \in Held(p) \/ d = RD(a)
    BY <2>4
  <2>7. WritesMerged'
    <3>1. \A b \in Entries(write_buffer) : WR(b) \notin Held(Queue(b))'
      BY <1>2, <2>6 DEF Inv, Merged, WritesMerged, RD, WR
    <3>2. \A p \in Queues : \A d \in Held(p)' :
            d.type = "WRITE" => d.addr \in pending_wr_q /\ pending_rd_q[d.addr] = 0
      BY <2>3, <2>6 DEF Inv, Merged, WritesMerged
    <3> QED
      BY <1>1, <2>2, <3>1, <3>2 DEF Inv, Merged, WritesMerged
  <2>8. ReadsMerged'
    <3>1. \A b \in Entries(read_queue') : pending_rd_q[b] > 0 /\ RD(b) \notin Held(Queue(b))'
      <4> SUFFICES ASSUME NEW b \in Entries(read_queue')
                   PROVE  pending_rd_q[b] > 0 /\ RD(b) \notin Held(Queue(b))'
        OBVIOUS
      <4>1. b \in Entries(read_queue) /\ b # a /\ Queue(b) \in Queues
        BY <1>2, <2>5
      <4>2. RD(b) # RD(a)
        BY <4>1 DEF RD
      <4> QED
        BY <2>6, <4>1, <4>2 DEF Inv, Merged, ReadsMerged
    <3>2. \A p \in Queues : \A d \in Held(p)' : d.type = "READ" => pending_rd_q[d.addr] > 0
      BY <2>3, <2>6 DEF Inv, Merged, ReadsMerged
    <3> QED
      BY <1>1, <2>5, <3>1, <3>2 DEF ReadsMerged
  <2>9. Merged'
    BY <1>1, <2>4, <2>7, <2>8 DEF Inv, Merged
  <2>10. TypeOK'
    BY <1>1, <2>2, <2>4, <2>5 DEF Inv, TypeOK
  <2> QED
    BY <1>3, <2>9, <2>10
<1> QED
  BY <1>4, <1>5, <1>6 DEF ScheduleTransaction

\* The count of a set after push_back.
LEMMA OnlyPush ==
  ASSUME NEW T, NEW s \in Seq(T), NEW e \in T, NEW S
  PROVE  /\ Len(Only(s, S)) \in Nat /\ Len(Only(Append(s, e), S)) \in Nat
         /\ Len(Only(Append(s, e), S)) = Len(Only(s, S)) + (IF e \in S THEN 1 ELSE 0)
<1>1. Only(Append(s, e), S) = IF e \in S THEN Append(Only(s, S), e) ELSE Only(s, S)
  BY OnlyAppend
<1>2. Only(s, S) \in Seq(T) /\ Len(Only(s, S)) \in Nat
  BY OnlySeq
<1>3. Len(Append(Only(s, S), e)) = Len(Only(s, S)) + 1
  BY <1>2, AppendProperties
<1> QED
  BY <1>1, <1>2, <1>3

\* AddTransaction queues a write once for each address.
LEMMA AddWriteKeepsMerged ==
  ASSUME Inv, NEW r \in Requests, AddWrite(r), UNCHANGED <<queues, exited>>
  PROVE  /\ Merged' /\ write_buffer' \in Seq(Addrs) /\ pending_wr_q' \in SUBSET Addrs
<1> DEFINE b == r.addr
<1>1. b \in Addrs /\ UNCHANGED <<pending_rd_q, read_queue>> /\ write_buffer \in Seq(Addrs)
  BY ChannelAssumption DEF AddWrite, Inv, TypeOK
<1>2. \A p : Held(p)' = Held(p)
  BY DEF Held
<1>3. CASE b \in pending_wr_q
  <2>1. UNCHANGED <<pending_wr_q, write_buffer>>
    BY <1>3 DEF AddWrite
  <2> QED
    BY <1>1, <2>1, Stable DEF Inv, TypeOK
<1>4. CASE b \notin pending_wr_q
  <2>1. pending_wr_q' = pending_wr_q \cup {b} /\ write_buffer' = Append(write_buffer, b)
    BY <1>4 DEF AddWrite
  <2>2. b \notin Entries(write_buffer) /\ WR(b) \notin Held(Queue(b))
    <3>1. Queue(b) \in Queues /\ WR(b).type = "WRITE" /\ WR(b).addr = b
      BY <1>1, ChannelAssumption DEF Queue, WR
    <3> QED
      BY <1>4, <3>1 DEF Inv, Merged, WritesMerged
  <2>3. /\ write_buffer' \in Seq(Addrs) /\ Distinct(write_buffer')
        /\ Entries(write_buffer') = Entries(write_buffer) \cup {b}
    BY <1>1, <2>1, <2>2, EntriesAppend DEF Inv, Merged, WritesMerged
  <2> HIDE DEF b
  <2>4. WritesMerged'
    <3>1. \A a \in Entries(write_buffer') : a \in pending_wr_q' /\ WR(a) \notin Held(Queue(a))'
      BY <1>2, <2>1, <2>2, <2>3 DEF Inv, Merged, WritesMerged
    <3>2. \A p \in Queues : \A d \in Held(p)' :
            d.type = "WRITE" => d.addr \in pending_wr_q' /\ pending_rd_q'[d.addr] = 0
      BY <1>1, <1>2, <2>1 DEF Inv, Merged, WritesMerged
    <3> QED
      BY <2>3, <3>1, <3>2 DEF WritesMerged
  <2>5. InPlace' /\ ReadsMerged'
    BY <1>1, <1>2 DEF Inv, Merged, InPlace, ReadsMerged
  <2> QED
    BY <1>1, <2>1, <2>3, <2>4, <2>5 DEF Inv, Merged, TypeOK
<1> QED
  BY <1>3, <1>4

\* AddTransaction queues a read once for each address, and not while a write
\* of the address is pending.
LEMMA AddReadKeepsMerged ==
  ASSUME Inv, NEW r \in Requests, AddRead(r), UNCHANGED <<queues, exited>>
  PROVE  /\ Merged' /\ read_queue' \in Seq(Addrs) /\ pending_rd_q' \in [Addrs -> Nat]
<1> DEFINE b == r.addr
<1>1. /\ b \in Addrs /\ UNCHANGED <<pending_wr_q, write_buffer>> /\ read_queue \in Seq(Addrs)
      /\ pending_rd_q \in [Addrs -> Nat]
  BY ChannelAssumption DEF AddRead, Inv, TypeOK
<1>2. \A p : Held(p)' = Held(p)
  BY DEF Held
<1>3. CASE b \in pending_wr_q
  <2>1. UNCHANGED <<pending_rd_q, read_queue>>
    BY <1>3 DEF AddRead
  <2> QED
    BY <1>1, <2>1, Stable DEF Inv, TypeOK
<1>4. CASE b \notin pending_wr_q
  <2>1. /\ pending_rd_q' = [pending_rd_q EXCEPT ![b] = @ + 1]
        /\ read_queue' = IF pending_rd_q[b] = 0 THEN Append(read_queue, b) ELSE read_queue
    BY <1>4 DEF AddRead
  <2>2. \A a \in Addrs : pending_rd_q'[a] = IF a = b THEN pending_rd_q[b] + 1 ELSE pending_rd_q[a]
    BY <1>1, <2>1
  <2>3. \A a \in Addrs : pending_rd_q[a] \in Nat
    BY <1>1
  <2>4. pending_rd_q[b] = 0 => b \notin Entries(read_queue) /\ RD(b) \notin Held(Queue(b))
    <3>1. Queue(b) \in Queues /\ RD(b).type = "READ" /\ RD(b).addr = b
      BY <1>1, ChannelAssumption DEF Queue, RD
    <3>2. (\A a \in Entries(read_queue) : pending_rd_q[a] > 0)
          /\ \A d \in Held(Queue(b)) : d.type = "READ" => pending_rd_q[d.addr] > 0
      BY <3>1 DEF Inv, Merged, ReadsMerged
    <3> QED
      BY <3>1, <3>2
  <2>5. /\ read_queue' \in Seq(Addrs) /\ Distinct(read_queue')
        /\ \A a \in Entries(read_queue') :
             a \in Entries(read_queue) \/ (a = b /\ pending_rd_q[b] = 0)
    BY <1>1, <2>1, <2>4, EntriesAppend DEF Inv, Merged, ReadsMerged
  <2>6. /\ \A p \in Queues : \A d \in Held(p) : d.addr \in Addrs
        /\ \A a \in Entries(read_queue) : a \in Addrs
    BY HeldTypes DEF Inv
  <2> HIDE DEF b
  <2>7. ReadsMerged'
    <3>1. \A a \in Entries(read_queue') : pending_rd_q'[a] > 0 /\ RD(a) \notin Held(Queue(a))'
      BY <1>1, <1>2, <2>2, <2>3, <2>4, <2>5, <2>6 DEF Inv, Merged, ReadsMerged
    <3>2. \A p \in Queues : \A d \in Held(p)' : d.type = "READ" => pending_rd_q'[d.addr] > 0
      BY <1>2, <2>2, <2>3, <2>6 DEF Inv, Merged, ReadsMerged
    <3> QED
      BY <2>5, <3>1, <3>2 DEF ReadsMerged
  <2>8. WritesMerged'
    <3>1. \A p \in Queues : \A d \in Held(p)' :
            d.type = "WRITE" => d.addr \in pending_wr_q' /\ pending_rd_q'[d.addr] = 0
      BY <1>1, <1>2, <1>4, <2>2, <2>6 DEF Inv, Merged, WritesMerged, b
    <3> QED
      BY <1>1, <1>2, <3>1 DEF Inv, Merged, WritesMerged
  <2>9. InPlace'
    BY <1>2 DEF Inv, Merged, InPlace
  <2>10. pending_rd_q' \in [Addrs -> Nat]
    BY <1>1, <2>1
  <2> QED
    BY <2>5, <2>7, <2>8, <2>9, <2>10 DEF Inv, Merged
<1> QED
  BY <1>3, <1>4

\* AddTransaction keeps the invariant: a request that is merged has a command
\* or an entry of the return queue that answers it.
LEMMA AcceptKeepsInv ==
  ASSUME Inv, Accept
  PROVE  Inv'
<1>1. PICK r : r = Head(m_incomingQueue)
  OBVIOUS
<1> DEFINE b == r.addr  e == [addr |-> b, write |-> r.write, due |-> "next"]
<1>2. /\ m_incomingQueue \in Seq(Requests) /\ m_incomingQueue # <<>>
      /\ m_incomingQueue' = Tail(m_incomingQueue)
      /\ UNCHANGED <<unsent, queues, open_row, is_in_ref, ref_q_indices, refresh_q, next_rank, exited>>
  BY DEF Inv, TypeOK, Accept, bankVars, refreshVars
<1>3. /\ \/ r.write /\ AddWrite(r) /\ m_writeDone' = Append(m_writeDone, r) /\ m_readDone' = m_readDone
         \/ ~r.write /\ AddRead(r) /\ m_readDone' = Append(m_readDone, r) /\ m_writeDone' = m_writeDone
  BY <1>1 DEF Accept
<1>4. r \in Requests /\ b \in Addrs /\ r.write \in BOOLEAN /\ Tail(m_incomingQueue) \in Seq(Requests)
  <2>1. r \in Requests /\ Tail(m_incomingQueue) \in Seq(Requests)
    BY <1>1, <1>2
  <2> QED
    BY <2>1, ChannelAssumption
<1>5. /\ m_readDone \in Seq(Requests) /\ m_writeDone \in Seq(Requests)
      /\ return_queue \in Seq(Returns) /\ pending_rd_q \in [Addrs -> Nat] /\ e \in Returns
  BY <1>4 DEF Inv, TypeOK, Returns
<1>6. /\ Entries(m_incomingQueue) = {r} \cup Entries(m_incomingQueue')
      /\ Distinct(m_incomingQueue') /\ r \notin Entries(m_incomingQueue')
  BY <1>1, <1>2, EntriesTail DEF Inv, Apart
<1>7. /\ Entries(Append(m_readDone, r)) = Entries(m_readDone) \cup {r}
      /\ Entries(Append(m_writeDone, r)) = Entries(m_writeDone) \cup {r}
      /\ Append(m_readDone, r) \in Seq(Requests) /\ Append(m_writeDone, r) \in Seq(Requests)
      /\ Append(return_queue, e) \in Seq(Returns)
  BY <1>4, <1>5, EntriesAppend, AppendProperties
<1> HIDE DEF e, b
<1>8. CASE r.write
  <2>1. AddWrite(r) /\ m_writeDone' = Append(m_writeDone, r) /\ m_readDone' = m_readDone
    BY <1>3, <1>8
  <2>2. return_queue' = Append(return_queue, e) /\ UNCHANGED <<pending_rd_q, read_queue>>
    BY <2>1 DEF AddWrite, Returned, e, b
  <2>3. Merged' /\ write_buffer' \in Seq(Addrs) /\ pending_wr_q' \in SUBSET Addrs
    BY <1>2, <1>4, <2>1, AddWriteKeepsMerged
  <2>4. TypeOK'
    BY <1>2, <1>4, <1>7, <2>1, <2>2, <2>3 DEF Inv, TypeOK
  <2>5. Apart'
    BY <1>2, <1>6, <1>7, <1>8, <2>1 DEF Inv, Apart
  <2>6. NoneForgotten'
    <3> SUFFICES ASSUME NEW a \in Addrs PROVE Covered(a)'
      BY NoneForgottenIsCovered
    <3>1. Covered(a)
      BY NoneForgottenIsCovered DEF Inv
    <3>2. /\ e \notin ReadsOf(a)
          /\ e \in WritesOf(a) <=> r \in To(a)
      BY <1>4, <1>5, <1>8 DEF ReadsOf, WritesOf, To, e, b
    <3> DEFINE R == Len(Only(return_queue, ReadsOf(a)))  W == Len(Only(return_queue, WritesOf(a)))
               R1 == Len(Only(return_queue', ReadsOf(a)))
               W1 == Len(Only(return_queue', WritesOf(a)))
               D == Len(Only(m_writeDone, To(a)))  D1 == Len(Only(m_writeDone', To(a)))
    <3>3. R \in Nat /\ W \in Nat /\ R1 = R /\ W1 = W + (IF r \in To(a) THEN 1 ELSE 0)
      BY <1>5, <2>2, <3>2, OnlyPush
    <3>4. D \in Nat /\ D1 = D + (IF r \in To(a) THEN 1 ELSE 0)
      BY <1>4, <1>5, <2>1, OnlyPush, SMTT(30)
    <3>5. D <= W
      BY <3>1 DEF Covered
    <3> HIDE DEF W, W1, D, D1
    <3>6. D1 <= W1
      BY <3>3, <3>4, <3>5
    <3> QED
      BY <2>1, <2>2, <3>1, <3>3, <3>6 DEF Covered, W1, D1
  <2> QED
    BY <1>2, <2>3, <2>4, <2>5, <2>6, Stable DEF Inv
<1>9. CASE ~r.write
  <2>1. AddRead(r) /\ m_readDone' = Append(m_readDone, r) /\ m_writeDone' = m_writeDone
    BY <1>3, <1>9
  <2>2. \/ return_queue' = Append(return_queue, e) /\ pending_rd_q' = pending_rd_q
        \/ return_queue' = return_queue /\ pending_rd_q' = [pending_rd_q EXCEPT ![b] = @ + 1]
    BY <2>1 DEF AddRead, Returned, e, b
  <2>3. Merged' /\ read_queue' \in Seq(Addrs) /\ pending_rd_q' \in [Addrs -> Nat]
    BY <1>2, <1>4, <2>1, AddReadKeepsMerged
  <2>4. TypeOK'
    <3>1. UNCHANGED <<pending_wr_q, write_buffer>>
      BY <2>1 DEF AddRead
    <3>2. return_queue' \in Seq(Returns)
      BY <1>5, <1>7, <2>2
    <3> QED
      BY <1>2, <1>4, <1>7, <2>1, <2>3, <3>1, <3>2 DEF Inv, TypeOK
  <2>5. Apart'
    BY <1>2, <1>6, <1>7, <1>9, <2>1 DEF Inv, Apart
  <2>6. NoneForgotten'
    <3> SUFFICES ASSUME NEW a \in Addrs PROVE Covered(a)'
      BY NoneForgottenIsCovered
    <3>1. Covered(a)
      BY NoneForgottenIsCovered DEF Inv
    <3>2. /\ e \notin WritesOf(a)
          /\ e \in ReadsOf(a) <=> a = b
          /\ r \in To(a) <=> a = b
      BY <1>4, <1>5, <1>9 DEF ReadsOf, WritesOf, To, e, b
    <3> DEFINE R == Len(Only(return_queue, ReadsOf(a)))  W == Len(Only(return_queue, WritesOf(a)))
               R1 == Len(Only(return_queue', ReadsOf(a)))
               W1 == Len(Only(return_queue', WritesOf(a)))
               D == Len(Only(m_readDone, To(a)))  D1 == Len(Only(m_readDone', To(a)))
               P == pending_rd_q[a]  P1 == pending_rd_q'[a]
    <3>3. D \in Nat /\ D1 = D + (IF a = b THEN 1 ELSE 0)
      <4>1. D \in Nat /\ D1 = D + (IF r \in To(a) THEN 1 ELSE 0)
        BY <1>4, <1>5, <2>1, OnlyPush, SMTT(30)
      <4> HIDE DEF D, D1
      <4> QED
        BY <3>2, <4>1
    <3>4. R \in Nat /\ W \in Nat /\ P \in Nat
      BY <1>5, OnlySeq
    <3>5. W1 = W /\ R1 + P1 = R + P + (IF a = b THEN 1 ELSE 0) /\ R1 \in Nat /\ P1 \in Nat
      <4>1. CASE return_queue' = Append(return_queue, e) /\ pending_rd_q' = pending_rd_q
        <5>1. W1 = W /\ R1 = R + (IF a = b THEN 1 ELSE 0)
          BY <1>5, <3>2, <4>1, OnlyPush
        <5> HIDE DEF W1, W, R1, R
        <5> QED
          BY <3>4, <4>1, <5>1
      <4>2. CASE return_queue' = return_queue /\ pending_rd_q' = [pending_rd_q EXCEPT ![b] = @ + 1]
        <5>1. W1 = W /\ R1 = R
          BY <4>2
        <5>2. P1 = P + (IF a = b THEN 1 ELSE 0)
          BY <1>4, <1>5, <4>2
        <5> HIDE DEF W1, W, R1, R, P1, P
        <5> QED
          BY <3>4, <5>1, <5>2
      <4> QED
        BY <2>2, <4>1, <4>2
    <3>6. D <= R + P
      BY <3>1 DEF Covered
    <3> HIDE DEF R, R1, D, D1, P, P1
    <3>7. D1 <= R1 + P1
      BY <3>3, <3>4, <3>5, <3>6
    <3> QED
      BY <2>1, <3>1, <3>5, <3>7 DEF Covered, R1, D1, P1
  <2> QED
    BY <1>2, <2>3, <2>4, <2>5, <2>6, Stable DEF Inv
<1> QED
  BY <1>8, <1>9

-----------------------------------------------------------------------------
(* The theorems                                                            *)

\* Every step of the channel preserves the invariant.
LEMMA NextInv == Inv /\ [Next]_vars => Inv'
<1> SUFFICES ASSUME Inv, [Next]_vars PROVE Inv'
  OBVIOUS
<1>1. CASE \E r \in Requests : sendCommand(r)
  BY <1>1, SendKeepsInv
<1>2. CASE \E i \in DOMAIN return_queue : ReturnDone(i)
  BY <1>2, ReturnKeepsInv
<1>3. CASE BeginController
  BY <1>3, BeginKeepsInv
<1>4. CASE FinishRefresh
  BY <1>4, RefreshKeepsInv
<1>5. CASE \E q \in Queues : IssueFrom(q)
  BY <1>5, IssueKeepsInv
<1>6. CASE IssueNothing \/ AcceptNothing \/ UNCHANGED vars
  BY <1>6, IdleKeepsInv
<1>7. CASE ScheduleTransaction
  BY <1>7, ScheduleKeepsInv
<1>8. CASE Accept
  BY <1>8, AcceptKeepsInv
<1> QED
  BY <1>1, <1>2, <1>3, <1>4, <1>5, <1>6, <1>7, <1>8 DEF Next

\* The inductive invariant holds of every behaviour.
THEOREM ChannelInvariance == Spec => []Inv
BY InitInv, NextInv, PTL DEF Spec

\* No lookup by address fails: exit(1) and AbruptExit are out of reach.
THEOREM ChannelNeverExits == Spec => []NeverExits
<1>1. Inv => NeverExits
  BY DEF Inv, Merged, NeverExits
<1> QED
  BY <1>1, ChannelInvariance, PTL

\* A WRITE waits at its bank only when no read of its address does.
THEOREM ChannelOrdersWrites == Spec => []WritesFollowReads
<1>1. Inv => WritesFollowReads
  <2> SUFFICES ASSUME Inv, NEW q \in Queues, NEW i \in DOMAIN queues[q],
                      queues[q][i].type = "WRITE"
               PROVE  pending_rd_q[queues[q][i].addr] = 0
    BY DEF WritesFollowReads
  <2>1. queues[q] \in Seq(Commands)
    BY DEF Inv, TypeOK
  <2>2. queues[q][i] \in Held(q)
    BY <2>1 DEF Held, Entries
  <2> QED
    BY <2>2 DEF Inv, Merged, WritesMerged
<1> QED
  BY <1>1, ChannelInvariance, PTL

\* Every accepted request has a completion under way.
THEOREM ChannelForgetsNone == Spec => []NoneForgotten
<1>1. Inv => NoneForgotten
  BY DEF Inv
<1> QED
  BY <1>1, ChannelInvariance, PTL

\* A rank that waits for its refresh is not opened again.
THEOREM ChannelRefreshes == Spec => RefreshNotPostponed
<1> DEFINE Step == is_in_ref /\ is_in_ref' =>
                     \A q \in Queues : RankOf(q) = Head(refresh_q) /\ open_row[q] = Closed
                                       => open_row'[q] = Closed
<1>1. Inv /\ [Next]_vars => [Step]_vars
  <2> SUFFICES ASSUME Inv, Next, is_in_ref, is_in_ref', NEW q \in Queues,
                      RankOf(q) = Head(refresh_q), open_row[q] = Closed
               PROVE  open_row'[q] = Closed
    OBVIOUS
  <2>1. CASE UNCHANGED open_row
    BY <2>1
  <2>2. CASE \E p \in Queues : open_row' = [open_row EXCEPT ![p] = Closed]
    BY <2>2 DEF Inv, TypeOK
  <2>3. ASSUME NEW p \in Queues, IssueFrom(p) PROVE open_row'[q] = Closed
    <3>1. p \notin HeldUp
      BY <2>3 DEF IssueFrom
    <3>2. p # q
      BY <3>1 DEF Inv, RankHeld, HeldUp, GetRefQIndices
    <3>3. open_row \in [Queues -> Nat \cup {Closed}]
      BY DEF Inv, TypeOK
    <3>4. \/ UNCHANGED open_row
          \/ \E v : open_row' = [open_row EXCEPT ![p] = v]
      BY <2>3 DEF IssueFrom, Activate, Precharge, IssueRead, IssueWrite
    <3> QED
      BY <3>2, <3>3, <3>4
  <2>4. CASE FinishRefresh
    BY <2>1, <2>2, <2>4 DEF FinishRefresh, OpenBanks, bankVars
  <2>5. CASE (\E r \in Requests : sendCommand(r)) \/ (\E i \in DOMAIN return_queue : ReturnDone(i))
             \/ BeginController \/ IssueNothing \/ ScheduleTransaction \/ Accept \/ AcceptNothing
    BY <2>1, <2>5 DEF sendCommand, ReturnDone, BeginController, IssueNothing,
                      ScheduleTransaction, Accept, AcceptNothing, bankVars
  <2> QED
    BY <2>3, <2>4, <2>5 DEF Next
<1>2. Spec => [][Step]_vars
  BY <1>1, ChannelInvariance, PTL DEF Spec
<1> QED
  BY <1>2 DEF RefreshNotPostponed

-----------------------------------------------------------------------------
(* The channel implements the memory port                                  *)

Inside == Entries(m_incomingQueue) \cup Entries(m_readDone) \cup Entries(m_writeDone)

\* The set of the entries of a queue, as the refinement mapping writes it.
LEMMA ToSetIs == \A s \in Seq(Requests) : ToSet(s) = Entries(s)
BY DEF ToSet, Entries

\* Every step of the channel is a step of the port, or is hidden from it: a
\* request enters, a callback gives some back, or none crosses the boundary.
LEMMA PortStep ==
  ASSUME Inv, Next
  PROVE  \/ \E r \in unsent : unsent' = unsent \ {r} /\ Inside' = Inside \cup {r}
                              /\ m_outgoingQueue' = m_outgoingQueue
         \/ \E S \in SUBSET Inside : S # {} /\ Inside' = Inside \ S
                              /\ m_outgoingQueue' = m_outgoingQueue \cup S /\ unsent' = unsent
         \/ Inside' = Inside /\ UNCHANGED <<unsent, m_outgoingQueue>>
<1>1. ASSUME NEW r \in Requests, sendCommand(r)
      PROVE  r \in unsent /\ unsent' = unsent \ {r} /\ Inside' = Inside \cup {r}
             /\ m_outgoingQueue' = m_outgoingQueue
  <2>1. /\ r \in unsent /\ unsent' = unsent \ {r} /\ m_outgoingQueue' = m_outgoingQueue
        /\ m_incomingQueue' = Append(m_incomingQueue, r) /\ m_incomingQueue \in Seq(Requests)
        /\ UNCHANGED <<m_readDone, m_writeDone>>
    BY <1>1 DEF sendCommand, Inv, TypeOK
  <2>2. Entries(m_incomingQueue') = Entries(m_incomingQueue) \cup {r}
    BY <2>1, EntriesAppend
  <2> QED
    BY <2>1, <2>2 DEF Inside
<1>2. ASSUME NEW i \in DOMAIN return_queue, ReturnDone(i)
      PROVE  \E S \in SUBSET Inside : /\ Inside' = Inside \ S /\ unsent' = unsent
                                      /\ m_outgoingQueue' = m_outgoingQueue \cup S
  <2> DEFINE t == return_queue[i]
             done == IF t.write THEN m_writeDone ELSE m_readDone
             x == Answer(done, t.addr)
  <2>1. /\ m_writeDone' = IF t.write THEN x.kept ELSE m_writeDone
        /\ m_readDone' = IF t.write THEN m_readDone ELSE x.kept
        /\ m_outgoingQueue' = m_outgoingQueue \cup x.answered
        /\ UNCHANGED <<unsent, m_incomingQueue>>
    BY <1>2 DEF ReturnDone
  <2>2. m_readDone \in Seq(Requests) /\ m_writeDone \in Seq(Requests) /\ done \in Seq(Requests)
    BY DEF Inv, TypeOK
  <2>3. /\ x.kept = Only(done, Requests \ x.answered)
        /\ x.answered \in SUBSET Entries(done)
    BY <2>2, AnswerFacts
  <2> HIDE DEF t, x
  <2>4. Entries(x.kept) = Entries(done) \ x.answered
    <3>1. Entries(x.kept) = Entries(done) \cap (Requests \ x.answered)
      BY <2>2, <2>3, EntriesOnly
    <3>2. Entries(done) \in SUBSET Requests
      BY <2>2, ElementOfSeq DEF Entries
    <3> QED
      BY <3>1, <3>2
  <2>5. Inside' = Inside \ x.answered /\ x.answered \in SUBSET Inside
    <3>1. CASE t.write
      BY <2>1, <2>3, <2>4, <3>1 DEF Inside, Inv, Apart
    <3>2. CASE ~t.write
      BY <2>1, <2>3, <2>4, <3>2 DEF Inside, Inv, Apart
    <3> QED
      BY <3>1, <3>2
  <2> QED
    BY <2>1, <2>5
<1>3. ASSUME Accept PROVE Inside' = Inside /\ UNCHANGED <<unsent, m_outgoingQueue>>
  <2>1. /\ m_incomingQueue \in Seq(Requests) /\ m_incomingQueue # <<>>
        /\ m_incomingQueue' = Tail(m_incomingQueue) /\ UNCHANGED <<unsent, m_outgoingQueue>>
        /\ m_readDone \in Seq(Requests) /\ m_writeDone \in Seq(Requests)
    BY <1>3 DEF Accept, Inv, TypeOK
  <2>2. PICK r : r = Head(m_incomingQueue)
    OBVIOUS
  <2>3. \/ m_writeDone' = Append(m_writeDone, r) /\ m_readDone' = m_readDone
        \/ m_readDone' = Append(m_readDone, r) /\ m_writeDone' = m_writeDone
    BY <1>3, <2>2 DEF Accept
  <2>4. /\ Entries(m_incomingQueue) = {r} \cup Entries(m_incomingQueue')
        /\ r \in Requests
    BY <2>1, <2>2, EntriesTail
  <2>5. /\ Entries(Append(m_readDone, r)) = Entries(m_readDone) \cup {r}
        /\ Entries(Append(m_writeDone, r)) = Entries(m_writeDone) \cup {r}
    BY <2>1, <2>4, EntriesAppend
  <2> QED
    BY <2>1, <2>3, <2>4, <2>5 DEF Inside
<1>4. CASE BeginController \/ FinishRefresh \/ (\E q \in Queues : IssueFrom(q)) \/ IssueNothing
           \/ ScheduleTransaction \/ AcceptNothing
  <2>1. UNCHANGED bridgeVars
    BY <1>4 DEF BeginController, FinishRefresh, IssueFrom, IssueNothing, ScheduleTransaction,
                AcceptNothing
  <2> QED
    BY <2>1 DEF bridgeVars, Inside
<1>5. CASE \E i \in DOMAIN return_queue : ReturnDone(i)
  <2>1. PICK S \in SUBSET Inside : /\ Inside' = Inside \ S /\ unsent' = unsent
                                   /\ m_outgoingQueue' = m_outgoingQueue \cup S
    BY <1>2, <1>5
  <2>2. CASE S = {}
    BY <2>1, <2>2
  <2>3. CASE S # {}
    BY <2>1, <2>3
  <2> QED
    BY <2>2, <2>3
<1> QED
  BY <1>1, <1>3, <1>4, <1>5 DEF Next

\* Over merging, forwarding, reordering and callbacks by address the channel
\* is a memory port.
THEOREM ChannelImplementsPort == Spec => ImplementsPort
<1>1. Init => Port!Init
  <2>1. ToSet(<<>>) = {}
    BY DEF ToSet
  <2> QED
    BY <2>1 DEF Init, Port!Init
<1>2. Inv /\ Inv' /\ [Next]_vars => [Port!Next]_(Port!portVars)
  <2> SUFFICES ASSUME Inv, Inv', [Next]_vars PROVE [Port!Next]_(Port!portVars)
    OBVIOUS
  <2>0. /\ ToSet(m_incomingQueue) \cup ToSet(m_readDone) \cup ToSet(m_writeDone) = Inside
        /\ (ToSet(m_incomingQueue) \cup ToSet(m_readDone) \cup ToSet(m_writeDone))' = Inside'
    <3>1. /\ m_incomingQueue \in Seq(Requests) /\ m_readDone \in Seq(Requests)
          /\ m_writeDone \in Seq(Requests) /\ m_incomingQueue' \in Seq(Requests)
          /\ m_readDone' \in Seq(Requests) /\ m_writeDone' \in Seq(Requests)
      BY DEF Inv, TypeOK
    <3> QED
      BY <3>1, ToSetIs DEF Inside
  <2>1. CASE UNCHANGED vars
    BY <2>1 DEF vars, bridgeVars, Port!portVars
  <2>2. CASE Next
    BY <2>0, <2>2, PortStep
       DEF Port!Next, Port!sendCommand, Port!CallBack, Port!portVars
  <2> QED
    BY <2>1, <2>2
<1> QED
  BY <1>1, <1>2, ChannelInvariance, PTL DEF Spec, ImplementsPort, Port!Spec
=============================================================================
