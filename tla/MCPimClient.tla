---------------------------- MODULE MCPimClient -----------------------------
EXTENDS PimClient

Req(id, cmd, src, macro, last) ==
  [id |-> id, cmd |-> cmd, src |-> src, macro |-> macro, last |-> last]

\* Fast-layer mode: draft macros from the Host, tensor transfers of the NPU.
FastRequests ==
  { Req(1, "PIM", "HOST", TRUE, FALSE), Req(2, "PIM", "HOST", TRUE, TRUE),
    Req(3, "READ", "NPU", TRUE, FALSE), Req(4, "WRITE", "NPU", TRUE, FALSE) }
=============================================================================
