----------------------------- MODULE MemClient ------------------------------
(***************************************************************************)
(* The DRAM wrapper under its clients: the interconnect delivers each of   *)
(* Requests once, in any order and at any time, takes the responses, and   *)
(* the clients stop once all their work is answered.                       *)
(***************************************************************************)
EXTENDS MemWrapper

VARIABLE sent   \* the requests delivered so far

clientVars == <<vars, sent>>

ClientInit == Init /\ sent = {}

Deliver ==
  \E r \in Requests \ sent :
    /\ nb_transport_fw(r)
    /\ sent' = sent \cup {r}

TakeResponse ==
  /\ Yielded /\ bw # <<>>
  /\ bw' = Tail(bw)
  /\ UNCHANGED <<queueVars, deviceVars, pc, memory_event, active, sent>>

InWrapper(r) ==
  \E s \in {peq, fw_queue, mem_request, fast, bridge, bridge_done, bw_queue} :
    \E i \in 1..Len(s) : s[i] = r

Stop ==
  /\ Yielded /\ active
  /\ sent = Requests /\ \A r \in Requests : ~InWrapper(r)
  /\ bw = <<>>
  /\ active' = FALSE
  /\ UNCHANGED <<queueVars, deviceVars, pc, memory_event, bw, sent>>

Clients == Deliver \/ TakeResponse \/ Stop

ClientNext == Clients \/ (UNCHANGED sent /\ (Run \/ Delta \/ Timed))

ClientSpec == ClientInit /\ [][ClientNext]_clientVars

\* The kernel never stops while a process can run, clocks tick, completion
\* times are reached, DRAMsim3 returns what it is ticked for, and the clients
\* go on; the running thread excludes these steps for a moment.
FairClientSpec ==
  /\ ClientSpec
  /\ WF_clientVars(ClientNext)
  /\ SF_clientVars((UNCHANGED sent /\ Advance) \/ Clients)

\* Every request that reaches the DRAM is answered or, for a host write,
\* retired, and then the thread ends: m_outstanding returns to zero.
ServedThenStops ==
  /\ \A r \in Requests : InWrapper(r) ~> ~InWrapper(r)
  /\ <>(pc = "done")
=============================================================================
