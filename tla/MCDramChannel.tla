--------------------------- MODULE MCDramChannel ---------------------------
(* Two ranks of two banks.  Two rows of one bank conflict, a third address  *)
(* lies in the other bank of the rank; reads and writes of one address meet. *)
EXTENDS DramChannel

MCPlace ==
  [a \in {"A", "B", "C"} |->
    CASE a = "A" -> [queue |-> 0, row |-> 0]
      [] a = "B" -> [queue |-> 0, row |-> 1]
      [] a = "C" -> [queue |-> 1, row |-> 0]]

Req(id, addr, write) == [id |-> id, addr |-> addr, write |-> write]
MCRequests ==
  {Req(1, "A", FALSE), Req(2, "A", FALSE), Req(3, "A", TRUE), Req(4, "B", FALSE), Req(5, "C", TRUE)}
=============================================================================
