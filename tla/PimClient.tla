----------------------------- MODULE PimClient ------------------------------
(***************************************************************************)
(* The PIM wrapper under its clients: the interconnect delivers each of    *)
(* Requests once, in any order and at any time, takes the responses, and   *)
(* the clients stop (active_host = active_core = 0) once all their work is *)
(* answered, as the Host and the NPU do.                                   *)
(***************************************************************************)
EXTENDS PimWrapper

VARIABLE sent   \* the requests delivered so far

clientVars == <<vars, sent>>

ClientInit == Init /\ sent = {}

Deliver ==
  \E r \in Requests \ sent :
    /\ nb_transport_fw(r)
    /\ sent' = sent \cup {r}

\* The interconnect takes a response; the Host's barrier takes the event.
TakeResponse ==
  /\ Yielded /\ bw # <<>>
  /\ bw' = Tail(bw)
  /\ UNCHANGED <<peq, pending_queue, deviceVars, threadVars, eventVars,
                 trace_done, active, sent>>

TakeTraceDone ==
  /\ Yielded /\ trace_done
  /\ trace_done' = FALSE
  /\ UNCHANGED <<peq, pending_queue, deviceVars, threadVars, eventVars,
                 bw, active, sent>>

Stop ==
  /\ Yielded /\ active
  /\ sent = Requests /\ \A r \in Requests : ~InWrapper(r)
  /\ bw = <<>> /\ ~trace_done
  /\ active' = FALSE
  /\ UNCHANGED <<peq, pending_queue, deviceVars, threadVars, eventVars,
                 bw, trace_done, sent>>

Clients == Deliver \/ TakeResponse \/ TakeTraceDone \/ Stop

ClientNext == Clients \/ (Step /\ UNCHANGED sent)

ClientSpec == ClientInit /\ [][ClientNext]_clientVars

\* The kernel never stops while a process can run, clocks tick, completion
\* times are reached, DRAMsim3 returns what it is ticked for, and the clients
\* go on.  The running thread excludes these steps (~Yielded), so they are
\* enabled again and again rather than continuously: strong fairness.  Each of
\* them is taken at most once per request, so fairness of their disjunction
\* is fairness of each.
FairClientSpec ==
  /\ ClientSpec
  /\ WF_clientVars(ClientNext)
  /\ SF_clientVars((Advance /\ UNCHANGED sent) \/ Clients)
=============================================================================
