--------------------------- MODULE Subsequences ----------------------------
(***************************************************************************)
(* The entries of a queue that belong to a given set, in their order.      *)
(* SelectSeq with a set in place of an operator: a set can be instantiated *)
(* in a proof.                                                             *)
(***************************************************************************)
EXTENDS Integers, Sequences

Only(s, S) ==
  LET upTo[i \in 0..Len(s)] ==
        IF i = 0 THEN <<>>
        ELSE IF s[i] \in S THEN Append(upTo[i - 1], s[i]) ELSE upTo[i - 1]
  IN upTo[Len(s)]
=============================================================================
