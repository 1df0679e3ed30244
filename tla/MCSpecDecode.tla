---------------------------- MODULE MCSpecDecode ----------------------------
EXTENDS SpecDecode

Draft(n, macro) ==
  [i \in 1..n |-> [cmd |-> "PIM", src |-> "HOST", dst |-> "PIM",
                   macro |-> macro, last |-> i = n]]

Control(n, macro, context, query) ==
  [args |-> [context |-> context, query |-> query, kv_write |-> query],
   draft |-> Draft(n, macro)]

\* Two episodes of a fast-layer run: one macro per operation and step.
FastControls == << Control(2, TRUE, 2, 1), Control(1, TRUE, 3, 1) >>

\* Two episodes of a detailed run.
DetailedControls == << Control(2, FALSE, 2, 1), Control(1, FALSE, 1, 1) >>

\* One operation reads its weights, one the KV cache, one appends to it.
FullProfile ==
  << [name |-> "v_proj", weight |-> 1, compute |-> 1],
     [name |-> "qkt", weight |-> 0, compute |-> 0] >>

\* A transfer larger than the window, which is left of a weight that exceeds
\* Word, and no compute phase.
BurstProfile == << [name |-> "gate", weight |-> 23, compute |-> 0] >>
=============================================================================
