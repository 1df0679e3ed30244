------------------------------ MODULE Arbiter -------------------------------
(***************************************************************************)
(* The interconnect of hsim (components/arbiter.cpp): a request queue and  *)
(* a response queue, each moving one transaction per clock cycle.  Its     *)
(* initiators are the Host and the NPU, its targets DRAM and PIM.          *)
(***************************************************************************)
EXTENDS Sequences

CONSTANT DramEnabled   \* Configurations::dram_enabled()

VARIABLES
  peq_fw, peq_bw,  \* notified, not yet delivered
  fw_queue,        \* <<request, target>> waiting for a falling edge
  bw_queue         \* <<response, initiator>> waiting for a rising edge

vars == <<peq_fw, peq_bw, fw_queue, bw_queue>>

Init == peq_fw = <<>> /\ peq_bw = <<>> /\ fw_queue = <<>> /\ bw_queue = <<>>

DeltaPending == peq_fw # <<>> \/ peq_bw # <<>>

\* An initiator sends the requests of s.  END_RESP calls change nothing.
nb_transport_fw(s) ==
  /\ peq_fw' = peq_fw \o s
  /\ UNCHANGED <<peq_bw, fw_queue, bw_queue>>

\* The only target is PIM unless there is a DRAM.
Target(r) == IF DramEnabled THEN r.dst ELSE "PIM"

peq_fw_cb ==
  /\ peq_fw # <<>>
  /\ peq_fw' = Tail(peq_fw)
  /\ fw_queue' = Append(fw_queue, <<Head(peq_fw), Target(Head(peq_fw))>>)
  /\ UNCHANGED <<peq_bw, bw_queue>>

peq_bw_cb ==
  /\ peq_bw # <<>>
  /\ peq_bw' = Tail(peq_bw)
  /\ bw_queue' = Append(bw_queue,
       <<Head(peq_bw), IF Head(peq_bw).src = "HOST" THEN "HOST" ELSE "NPU">>)
  /\ UNCHANGED <<peq_fw, fw_queue>>

\* A request leaves for its target.
clock_negedge(r, target) ==
  /\ fw_queue # <<>> /\ Head(fw_queue) = <<r, target>>
  /\ fw_queue' = Tail(fw_queue)
  /\ UNCHANGED <<peq_fw, peq_bw, bw_queue>>

\* A response leaves for its initiator.
clock_posedge(r, initiator) ==
  /\ bw_queue # <<>> /\ Head(bw_queue) = <<r, initiator>>
  /\ bw_queue' = Tail(bw_queue)
  /\ UNCHANGED <<peq_fw, peq_bw, fw_queue>>
=============================================================================
