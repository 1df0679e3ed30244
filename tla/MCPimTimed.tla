----------------------------- MODULE MCPimTimed -----------------------------
EXTENDS PimTimed

Macro(id, ptr, ns, last) ==
  [id |-> id, cmd |-> "PIM", src |-> "HOST", macro |-> TRUE, last |-> last,
   ptr |-> ptr, layer |-> <<"draft_pim", id>>, ns |-> ns, bytes |-> 0]

Transfer(id, ptr, cmd, bytes) ==
  [id |-> id, cmd |-> cmd, src |-> "NPU", macro |-> TRUE, last |-> FALSE,
   ptr |-> ptr, layer |-> <<"target_npu", id>>, bytes |-> bytes,
   data_length |-> data_length(bytes), bst_size |-> bst_size(bytes)]

\* Two draft macros and three tensors; the NPU has one transfer under way at a
\* time and uses its payload again.  The second tensor exceeds Word.
TimedRequests ==
  { Macro(1, "p1", 1, FALSE), Macro(2, "p2", 0, TRUE),
    Transfer(3, "q", "READ", 3), Transfer(4, "q", "WRITE", 5), Transfer(5, "q", "READ", 1) }

TimedDelay == [c \in Class |-> 1]
MeasuredFirst == [cmd \in {"READ", "WRITE"} |-> 2]
MeasuredTrain == [cmd \in {"READ", "WRITE"} |-> 3]
=============================================================================
