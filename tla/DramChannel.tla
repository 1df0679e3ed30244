---------------------------- MODULE DramChannel ----------------------------
(***************************************************************************)
(* One channel of DRAMsim3 behind the bridge that hsim adds to it: the     *)
(* Bridge (bridge.cc), the Controller with its transaction queues          *)
(* (controller.cc), the per-bank command queues (command_queue.cc), the    *)
(* state of the banks (bankstate.cc, channel_state.cc) and refresh         *)
(* (refresh.cc), configured as the LPDDR5 files do: split read and write   *)
(* queues, PER_BANK, OPEN_PAGE, RANK_LEVEL_STAGGERED, no self-refresh.     *)
(*                                                                         *)
(* The timing tables only decide WHEN a command is ready, so a command     *)
(* that the state of its bank allows may be ready or not in any tick; the  *)
(* position of the round-robin scan of the queues is absorbed by that      *)
(* choice.  A tick runs through the phases of `pc', and nothing else runs  *)
(* within a tick.  Statistics and power counters are left out.             *)
(***************************************************************************)
EXTENDS Integers, Sequences, SequencesExt, FiniteSets, Subsequences

CONSTANTS
  Requests,        \* [id, addr, write]: the transactions the wrapper may send
  Place,           \* addr -> [queue, row], Config::AddressMapping
  Ranks, Banks,    \* ranks of the channel, banks of a rank
  TransQueueSize,  \* capacity of read_queue_ and of write_buffer_ (32)
  CmdQueueSize,    \* capacity of the queue of a bank (8)
  DrainLevel,      \* write_buffer_ level that starts an early drain (8)
  RowHitLimit,     \* row hits after which a row conflict may precharge (4)
  MaxIncoming,     \* bound on m_incomingQueue
  MaxRefreshes     \* bound on the refreshes inserted

Queues == 0..(Ranks * Banks - 1)
Addrs  == DOMAIN Place
Closed == -1
Returns == [addr : Addrs, write : BOOLEAN, due : {"next", "now", "later"}]

ASSUME ChannelAssumption ==
  /\ Ranks \in Nat \ {0} /\ Banks \in Nat \ {0} /\ MaxRefreshes \in Nat
  /\ MaxIncoming \in Nat \ {0}
  /\ TransQueueSize \in Nat \ {0} /\ CmdQueueSize \in Nat \ {0}
  /\ \A a \in Addrs : Place[a].queue \in Queues /\ Place[a].row \in Nat
  /\ \A r \in Requests : r.addr \in Addrs /\ r.write \in BOOLEAN

VARIABLES
  unsent,          \* requests that sendCommand has not been called with
  m_incomingQueue, m_readDone, m_writeDone,  \* Bridge
  m_outgoingQueue,               \* Bridge: a set, the wrapper collects it in its own time
  read_queue, write_buffer,      \* Controller: addresses, oldest first
  pending_rd_q,                  \* Controller: how many reads wait for an address
  pending_wr_q,                  \* Controller: the addresses with a pending write
  return_queue,                  \* Controller: a sequence of Returns
  write_draining,
  queues,                        \* CommandQueue: commands [type, addr] of a bank
  is_in_ref, ref_q_indices,      \* CommandQueue: the queues a refresh holds up
  open_row, row_hits,            \* BankState
  refresh_q, next_rank, refreshes, \* ChannelState and Refresh; refreshes inserted
  pc,                            \* phase of the tick
  exited                         \* exit(1) or AbruptExit was called

bridgeVars  == <<unsent, m_incomingQueue, m_readDone, m_writeDone, m_outgoingQueue>>
transVars   == <<read_queue, write_buffer, write_draining>>
pendingVars == <<pending_rd_q, pending_wr_q, return_queue>>
bankVars    == <<open_row, row_hits>>
refreshVars == <<is_in_ref, ref_q_indices, refresh_q, next_rank, refreshes>>
vars == <<bridgeVars, transVars, pendingVars, queues, bankVars, refreshVars, pc, exited>>

Queue(a) == Place[a].queue
Row(a)   == Place[a].row
RankOf(q) == q \div Banks

Init ==
  /\ unsent = Requests /\ m_incomingQueue = <<>> /\ m_readDone = <<>>
  /\ m_writeDone = <<>> /\ m_outgoingQueue = {}
  /\ read_queue = <<>> /\ write_buffer = <<>> /\ write_draining = 0
  /\ pending_rd_q = [a \in Addrs |-> 0] /\ pending_wr_q = {} /\ return_queue = <<>>
  /\ queues = [q \in Queues |-> <<>>]
  /\ is_in_ref = FALSE /\ ref_q_indices = {}
  /\ open_row = [q \in Queues |-> Closed] /\ row_hits = [q \in Queues |-> 0]
  /\ refresh_q = <<>> /\ next_rank = 0 /\ refreshes = 0
  /\ pc = "return" /\ exited = FALSE

-----------------------------------------------------------------------------
(* Between ticks: the wrapper sends a request.                              *)

sendCommand(r) ==
  /\ pc = "return" /\ r \in unsent /\ Len(m_incomingQueue) < MaxIncoming
  /\ unsent' = unsent \ {r}
  /\ m_incomingQueue' = Append(m_incomingQueue, r)
  /\ UNCHANGED <<m_readDone, m_writeDone, m_outgoingQueue, transVars, pendingVars,
                 queues, bankVars, refreshVars, pc, exited>>

-----------------------------------------------------------------------------
(* Phase "return": JedecDRAMSystem::ClockTick calls back once for every     *)
(* transaction that is complete.                                            *)

\* What a callback takes out of m_readDone or m_writeDone.  The loop erases
\* entry i and goes on with i + 1, so that the entry which has moved into
\* place i is passed over: of a run of matches every other one is taken.
Erased(done, a) ==
  {i \in DOMAIN done :
     \E j \in 1..i : /\ \A k \in j..i : done[k].addr = a
                     /\ j > 1 => done[j - 1].addr # a
                     /\ (i - j) % 2 = 0}

\* Mutant of Answer: every match is erased, one is pushed to m_outgoingQueue.
Answer_First(done, a) ==
  LET match == {i \in DOMAIN done : done[i].addr = a}
  IN [kept |-> Only(done, {r \in Requests : r.addr # a}),
      answered |-> {done[i] : i \in {j \in match : \A k \in match : j <= k}}]

\* Requests are distinct, so that the ones to keep are named by a set.
Answer(done, a) ==
  LET answered == {done[i] : i \in Erased(done, a)}
  IN [kept |-> Only(done, Requests \ answered), answered |-> answered]

\* ReturnDoneTrans, then read_callback_ or write_callback_.  An entry pushed when
\* its transaction was accepted is due in the second tick after; one pushed by a
\* READ is due read_delay cycles later, the oldest first.
ReturnDone(i) ==
  LET t == return_queue[i]
      a == Answer(IF t.write THEN m_writeDone ELSE m_readDone, t.addr)
  IN /\ pc = "return"
     /\ t.due # "next" /\ \A j \in 1..(i - 1) : return_queue[j].due # t.due
     /\ return_queue' = RemoveAt(return_queue, i)
     /\ m_outgoingQueue' = m_outgoingQueue \cup a.answered
     /\ m_writeDone' = IF t.write THEN a.kept ELSE m_writeDone
     /\ m_readDone' = IF t.write THEN m_readDone ELSE a.kept
     /\ UNCHANGED <<unsent, m_incomingQueue, transVars, pending_rd_q, pending_wr_q,
                    queues, bankVars, refreshVars, pc, exited>>

\* Nothing else is complete; Controller::ClockTick begins with Refresh::ClockTick,
\* which inserts a refresh of the next rank when the interval is over.
BeginController ==
  /\ pc = "return" /\ ~exited /\ pc' = "issue"
  /\ \A i \in DOMAIN return_queue : return_queue[i].due # "now"
  /\ return_queue' = [i \in DOMAIN return_queue |->
                       [return_queue[i] EXCEPT !.due = IF @ = "next" THEN "now" ELSE @]]
  /\ \/ UNCHANGED <<refresh_q, next_rank, refreshes>>
     \/ /\ refreshes < MaxRefreshes /\ refreshes' = refreshes + 1
        /\ refresh_q' = Append(refresh_q, next_rank)
        /\ next_rank' = (next_rank + 1) % Ranks
  /\ UNCHANGED <<bridgeVars, transVars, pending_rd_q, pending_wr_q, queues, bankVars,
                 is_in_ref, ref_q_indices, exited>>

-----------------------------------------------------------------------------
(* Phase "issue": at most one command goes to the banks.                    *)

\* Mutant of GetRefQIndices: the index of a PER_RANK queue.
GetRefQIndices_PerRank(rank) == {rank}

GetRefQIndices(rank) == {q \in Queues : RankOf(q) = rank}

\* FinishRefresh has found nothing ready, but it has marked the queues.
HeldUp == IF ~is_in_ref /\ refresh_q # <<>> THEN GetRefQIndices(Head(refresh_q))
          ELSE ref_q_indices
MarkRefresh == is_in_ref' = (is_in_ref \/ refresh_q # <<>>) /\ ref_q_indices' = HeldUp

\* ChannelState::GetReadyCommand for a rank: its banks are closed one by one
OpenBanks(rank) == {q \in Queues : RankOf(q) = rank /\ open_row[q] # Closed}

\* FinishRefresh: precharge an open bank of the rank, or refresh the rank.
FinishRefresh ==
  /\ pc = "issue" /\ refresh_q # <<>> /\ pc' = "schedule"
  /\ LET open == OpenBanks(Head(refresh_q))
     IN \/ /\ \E q \in open : /\ open_row' = [open_row EXCEPT ![q] = Closed]
                              /\ row_hits' = [row_hits EXCEPT ![q] = 0]
           /\ MarkRefresh /\ UNCHANGED refresh_q
        \/ /\ open = {}
           /\ is_in_ref' = FALSE /\ ref_q_indices' = {}
           /\ refresh_q' = Tail(refresh_q) /\ UNCHANGED bankVars
  /\ UNCHANGED <<bridgeVars, transVars, pendingVars, queues, next_rank, refreshes, exited>>

\* BankState::GetReadyCommand: what the bank needs first
Required(q, cmd) ==
  CASE open_row[q] = Closed        -> "ACTIVATE"
    [] open_row[q] = Row(cmd.addr) -> cmd.type
    [] OTHER                       -> "PRECHARGE"

\* Every command of a PER_BANK queue is for the same bank.
ArbitratePrecharge(q, i) ==
  /\ i = 1
  /\ \/ \A j \in DOMAIN queues[q] : Row(queues[q][j].addr) # open_row[q]
     \/ row_hits[q] >= RowHitLimit

\* An address is that of one burst: it stands for its bank, row and column.
HasRWDependency(q, i) ==
  \E j \in 1..(i - 1) :
    queues[q][j].type = "READ" /\ queues[q][j].addr = queues[q][i].addr

Allowed(q, i) ==
  LET need == Required(q, queues[q][i])
  IN /\ need = "PRECHARGE" => ArbitratePrecharge(q, i)
     /\ need = "WRITE" => ~HasRWDependency(q, i)

\* GetFirstReadyInQueue: commands that need the same of the bank are ready at
\* the same time, and the oldest of them wins.
FirstReady(q, i) ==
  /\ Allowed(q, i)
  /\ \A j \in 1..(i - 1) :
       Required(q, queues[q][j]) = Required(q, queues[q][i]) => ~Allowed(q, j)

\* EraseRWCommand: the first command of the queue with that type and address
Erase(q, cmd) ==
  RemoveAt(queues[q], CHOOSE i \in DOMAIN queues[q] :
                        /\ queues[q][i] = cmd
                        /\ \A j \in 1..(i - 1) : queues[q][j] # cmd)

\* BankState::UpdateState
Activate(q, cmd) ==
  /\ open_row' = [open_row EXCEPT ![q] = Row(cmd.addr)]
  /\ UNCHANGED <<row_hits, queues, pendingVars, exited>>
Precharge(q) ==
  /\ open_row' = [open_row EXCEPT ![q] = Closed]
  /\ row_hits' = [row_hits EXCEPT ![q] = 0]
  /\ UNCHANGED <<queues, pendingVars, exited>>
Hit(q) ==   \* row_hit_count_++, which is only compared with the limit
  row_hits' = [row_hits EXCEPT ![q] = IF @ < RowHitLimit THEN @ + 1 ELSE @]

\* Mutant of IssueRead: all the reads of the address are taken out, one is answered.
IssueRead_AnswersOne(q, cmd) ==
  /\ queues' = [queues EXCEPT ![q] = Erase(q, cmd)]
  /\ exited' = (pending_rd_q[cmd.addr] = 0)
  /\ return_queue' = Append(return_queue, [addr |-> cmd.addr, write |-> FALSE, due |-> "later"])
  /\ pending_rd_q' = [pending_rd_q EXCEPT ![cmd.addr] = 0]
  /\ Hit(q) /\ UNCHANGED <<open_row, pending_wr_q>>

\* Mutant of IssueRead: one READ answers one of the reads of its address.
IssueRead_One(q, cmd) ==
  /\ queues' = [queues EXCEPT ![q] = Erase(q, cmd)]
  /\ exited' = (pending_rd_q[cmd.addr] = 0)
  /\ return_queue' = Append(return_queue, [addr |-> cmd.addr, write |-> FALSE, due |-> "later"])
  /\ pending_rd_q' = [pending_rd_q EXCEPT ![cmd.addr] = IF @ = 0 THEN 0 ELSE @ - 1]
  /\ Hit(q) /\ UNCHANGED <<open_row, pending_wr_q>>

\* IssueCommand: a READ answers every read that waits for its address
IssueRead(q, cmd) ==
  /\ queues' = [queues EXCEPT ![q] = Erase(q, cmd)]
  /\ exited' = (pending_rd_q[cmd.addr] = 0)
  /\ return_queue' = return_queue \o
       [n \in 1..pending_rd_q[cmd.addr] |-> [addr |-> cmd.addr, write |-> FALSE, due |-> "later"]]
  /\ pending_rd_q' = [pending_rd_q EXCEPT ![cmd.addr] = 0]
  /\ Hit(q) /\ UNCHANGED <<open_row, pending_wr_q>>

IssueWrite(q, cmd) ==
  /\ queues' = [queues EXCEPT ![q] = Erase(q, cmd)]
  /\ exited' = (cmd.addr \notin pending_wr_q)
  /\ pending_wr_q' = pending_wr_q \ {cmd.addr}
  /\ Hit(q) /\ UNCHANGED <<open_row, pending_rd_q, return_queue>>

\* GetCommandToIssue finds a ready command in queue q, and it is issued.
IssueFrom(q) ==
  /\ pc = "issue" /\ q \notin HeldUp /\ MarkRefresh /\ pc' = "schedule"
  /\ \E i \in DOMAIN queues[q] :
       LET cmd == queues[q][i]  need == Required(q, cmd)
       IN /\ FirstReady(q, i)
          /\ \/ need = "ACTIVATE" /\ Activate(q, cmd)
             \/ need = "PRECHARGE" /\ Precharge(q)
             \/ need = "READ" /\ IssueRead(q, cmd)
             \/ need = "WRITE" /\ IssueWrite(q, cmd)
  /\ UNCHANGED <<bridgeVars, transVars, refresh_q, next_rank, refreshes>>

IssueNothing ==
  /\ pc = "issue" /\ MarkRefresh /\ pc' = "schedule"
  /\ UNCHANGED <<bridgeVars, transVars, pendingVars, queues, bankVars, refresh_q,
                 next_rank, refreshes, exited>>

-----------------------------------------------------------------------------
(* Phase "schedule": ScheduleTransaction moves one transaction to its bank. *)

Schedulable(s) == {i \in DOMAIN s : Len(queues[Queue(s[i])]) < CmdQueueSize}
First(S) == CHOOSE i \in S : \A j \in S : i <= j

StartDrain ==
  /\ write_draining = 0
  /\ \/ Len(write_buffer) >= TransQueueSize
     \/ Len(write_buffer) > DrainLevel /\ \A q \in Queues : queues[q] = <<>>
     \/ read_queue = <<>>

Draining == IF StartDrain THEN Len(write_buffer) ELSE write_draining

AddCommand(type, a) ==
  queues' = [queues EXCEPT ![Queue(a)] = Append(@, [type |-> type, addr |-> a])]

\* Mutant of ScheduleWrite: a write does not wait for earlier reads.
ScheduleWrite_Unordered ==
  LET i == First(Schedulable(write_buffer))  a == write_buffer[i]
  IN /\ write_draining' = Draining - 1 /\ AddCommand("WRITE", a)
     /\ write_buffer' = RemoveAt(write_buffer, i) /\ UNCHANGED read_queue

\* R->W dependency: a write waits for the reads of its address, and the drain ends
ScheduleWrite ==
  LET i == First(Schedulable(write_buffer))  a == write_buffer[i]
  IN IF pending_rd_q[a] > 0
     THEN write_draining' = 0 /\ UNCHANGED <<queues, write_buffer, read_queue>>
     ELSE /\ write_draining' = Draining - 1 /\ AddCommand("WRITE", a)
          /\ write_buffer' = RemoveAt(write_buffer, i) /\ UNCHANGED read_queue

ScheduleRead ==
  LET i == First(Schedulable(read_queue))
  IN /\ write_draining' = Draining /\ AddCommand("READ", read_queue[i])
     /\ read_queue' = RemoveAt(read_queue, i) /\ UNCHANGED write_buffer

ScheduleTransaction ==
  /\ pc = "schedule" /\ pc' = "accept"
  /\ \/ Draining > 0 /\ Schedulable(write_buffer) # {} /\ ScheduleWrite
     \/ Draining = 0 /\ Schedulable(read_queue) # {} /\ ScheduleRead
     \/ /\ Schedulable(IF Draining > 0 THEN write_buffer ELSE read_queue) = {}
        /\ write_draining' = Draining /\ UNCHANGED <<queues, write_buffer, read_queue>>
  /\ UNCHANGED <<bridgeVars, pendingVars, bankVars, refreshVars, exited>>

-----------------------------------------------------------------------------
(* Phase "accept": Bridge::ClockTick hands over the front request, if the   *)
(* controller takes it.                                                     *)

Returned(r) == return_queue' = Append(return_queue, [addr |-> r.addr, write |-> r.write, due |-> "next"])

\* AddTransaction, write: merged with a pending write, answered at once
AddWrite(r) ==
  /\ IF r.addr \in pending_wr_q THEN UNCHANGED <<pending_wr_q, write_buffer>>
     ELSE /\ pending_wr_q' = pending_wr_q \cup {r.addr}
          /\ write_buffer' = Append(write_buffer, r.addr)
  /\ Returned(r) /\ UNCHANGED <<pending_rd_q, read_queue>>

\* Mutant of AddRead: a second read of an address is queued again.
AddRead_Unmerged(r) ==
  /\ IF r.addr \in pending_wr_q
     THEN Returned(r) /\ UNCHANGED <<pending_rd_q, read_queue>>
     ELSE /\ pending_rd_q' = [pending_rd_q EXCEPT ![r.addr] = @ + 1]
          /\ read_queue' = Append(read_queue, r.addr)
          /\ UNCHANGED return_queue
  /\ UNCHANGED <<pending_wr_q, write_buffer>>

\* AddTransaction, read: from the write buffer, or with the reads of its address
AddRead(r) ==
  /\ IF r.addr \in pending_wr_q
     THEN Returned(r) /\ UNCHANGED <<pending_rd_q, read_queue>>
     ELSE /\ pending_rd_q' = [pending_rd_q EXCEPT ![r.addr] = @ + 1]
          /\ read_queue' = IF pending_rd_q[r.addr] = 0 THEN Append(read_queue, r.addr) ELSE read_queue
          /\ UNCHANGED return_queue
  /\ UNCHANGED <<pending_wr_q, write_buffer>>

WillAcceptTransaction(r) == Len(IF r.write THEN write_buffer ELSE read_queue) < TransQueueSize

Accept ==
  /\ pc = "accept" /\ pc' = "return"
  /\ m_incomingQueue # <<>> /\ WillAcceptTransaction(Head(m_incomingQueue))
  /\ LET r == Head(m_incomingQueue)
     IN \/ /\ r.write /\ AddWrite(r)
           /\ m_writeDone' = Append(m_writeDone, r) /\ UNCHANGED m_readDone
        \/ /\ ~r.write /\ AddRead(r)
           /\ m_readDone' = Append(m_readDone, r) /\ UNCHANGED m_writeDone
  /\ m_incomingQueue' = Tail(m_incomingQueue)
  /\ UNCHANGED <<unsent, m_outgoingQueue, write_draining, queues, bankVars, refreshVars, exited>>

AcceptNothing ==
  /\ pc = "accept" /\ pc' = "return"
  /\ m_incomingQueue # <<>> => ~WillAcceptTransaction(Head(m_incomingQueue))
  /\ UNCHANGED <<bridgeVars, transVars, pendingVars, queues, bankVars, refreshVars, exited>>

Next ==
  \/ \E r \in Requests : sendCommand(r)
  \/ \E i \in DOMAIN return_queue : ReturnDone(i)
  \/ BeginController
  \/ FinishRefresh \/ (\E q \in Queues : IssueFrom(q)) \/ IssueNothing
  \/ ScheduleTransaction
  \/ Accept \/ AcceptNothing

Spec == Init /\ [][Next]_vars

\* The wrapper ticks the bridge, and timing constraints expire: what waits in
\* the return queue comes back, and when again and again some command could be
\* issued, some command is.  Nothing is assumed of any one queue.
Tick == BeginController \/ IssueNothing \/ ScheduleTransaction \/ Accept \/ AcceptNothing
Issue == FinishRefresh \/ \E q \in Queues : IssueFrom(q)

Fairness ==
  /\ WF_vars(Tick)
  /\ SF_vars(\E i \in DOMAIN return_queue : ReturnDone(i))
  /\ SF_vars(Issue)

FairSpec == Spec /\ Fairness

-----------------------------------------------------------------------------
\* The lookups by address that end in exit(1) never fail: for every READ that
\* is issued a read waits, for every WRITE a write is pending, although reads
\* are merged, writes are merged and the queues are reordered
\* (controller.cc:255-258, 272-275).
NeverExits == ~exited

\* Every request at the bridge that has been accepted has a completion under
\* way: a callback is found by address only, passes over entries while it
\* erases, and may answer two requests at once, yet none is left behind
\* (bridge.cc:54-76).
NoneForgotten ==
  \A a \in Addrs :
    LET to(s) == Len(Only(s, {r \in Requests : r.addr = a}))
        reads  == Len(Only(return_queue, {t \in Returns : t.addr = a /\ ~t.write}))
        writes == Len(Only(return_queue, {t \in Returns : t.addr = a /\ t.write}))
    IN to(m_readDone) <= reads + pending_rd_q[a] /\ to(m_writeDone) <= writes

\* A write is sent to its bank only when no read of the address that was
\* accepted before it still waits, in either queue (controller.cc:231-235).
WritesFollowReads ==
  \A q \in Queues : \A i \in DOMAIN queues[q] :
    queues[q][i].type = "WRITE" => pending_rd_q[queues[q][i].addr] = 0

\* The channel is a memory port: over merging, forwarding, reordering and
\* callbacks by address every request stays inside until it is given back, and
\* that happens once (bridge.cc:8-93).
Port == INSTANCE MemoryPort WITH
  inside <- ToSet(m_incomingQueue) \cup ToSet(m_readDone) \cup ToSet(m_writeDone),
  out <- m_outgoingQueue
ImplementsPort == Port!Spec

\* While a refresh waits for its rank no bank of the rank is opened: the
\* traffic of the rank cannot put the refresh off (command_queue.cc:36-75).
RefreshNotPostponed ==
  [][is_in_ref /\ is_in_ref' =>
       \A q \in Queues : RankOf(q) = Head(refresh_q) /\ open_row[q] = Closed
                         => open_row'[q] = Closed]_vars

\* The write buffer is full and the write that ScheduleTransaction comes to
\* waits for a read that is still in read_queue: the drain begins again in
\* every tick, and no read is scheduled any more (controller.cc:214-240).
Jammed ==
  /\ Len(write_buffer) = TransQueueSize /\ Schedulable(write_buffer) # {}
  /\ LET a == write_buffer[First(Schedulable(write_buffer))]
     IN \E i \in DOMAIN read_queue : read_queue[i] = a

Waiting == m_incomingQueue # <<>> \/ m_readDone # <<>> \/ m_writeDone # <<>>

\* Every request that is sent reaches m_outgoingQueue, past refreshes, row
\* conflicts, drains and full queues; a jammed write buffer is the only thing
\* that can keep it.
AnsweredUnlessJammed == Waiting ~> (~Waiting \/ Jammed)
=============================================================================
