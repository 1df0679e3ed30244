-------------------------------- MODULE Maps --------------------------------
(***************************************************************************)
(* std::unordered_map as a function from the keys it holds.                *)
(***************************************************************************)

\* try_emplace and emplace: a key that is already there keeps its value
Emplaced(f, x, e) == [y \in DOMAIN f \cup {x} |-> IF y \in DOMAIN f THEN f[y] ELSE e]

\* erase
Forget(f, x) == [y \in DOMAIN f \ {x} |-> f[y]]
=============================================================================
