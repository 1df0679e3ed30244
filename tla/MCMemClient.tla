---------------------------- MODULE MCMemClient -----------------------------
EXTENDS MemClient

Req(id, cmd, src, macro) == [id |-> id, cmd |-> cmd, src |-> src, macro |-> macro]

\* Tensor transfers of the NPU.
MacroRequests ==
  { Req(1, "READ", "NPU", TRUE), Req(2, "WRITE", "NPU", TRUE),
    Req(3, "READ", "NPU", TRUE) }
=============================================================================
