--------------------------- MODULE MemPool_proofs ---------------------------
(***************************************************************************)
(* The pool hands every payload to one holder at a time, for any number of *)
(* payloads and any order of allocate and release.  EveryPayloadAccounted  *)
(* is not inductive alone: which payload leaves or enters the free part    *)
(* depends on the links and on the cursor, which is what ListShape adds.   *)
(***************************************************************************)
EXTENDS MemPool, TLAPS

\* The pool starts with no cell, no payload and both pointers null.
LEMMA PoolInit == Init => PoolInv
  BY PoolAssumption DEF Init, PoolInv, TypeOK, ListShape, EveryPayloadAccounted, FreePayloads

\* Handing out the first free payload moves both pointers one cell down.
LEMMA AllocateFreeStep == PoolInv /\ AllocateFree => PoolInv'
<1> SUFFICES ASSUME PoolInv, AllocateFree PROVE PoolInv'
  OBVIOUS
<1> USE DEF PoolInv
<1>1. /\ cells \in Nat /\ free_list \in 1..cells
      /\ empties' = free_list /\ free_list' = free_list - 1
      /\ held' = held \cup {trans[free_list]} /\ created' = created
      /\ cells' = cells /\ trans' = trans /\ next' = next /\ prev' = prev
  BY DEF AllocateFree, cellVars, TypeOK, ListShape
<1>2. trans[free_list] \in 1..created
  BY <1>1 DEF TypeOK
<1>3. TypeOK'
  <2>1. held' \subseteq 1..created'
    BY <1>1, <1>2 DEF TypeOK
  <2>2. free_list' \in 0..cells' /\ empties' \in 0..cells'
    BY <1>1
  <2> QED BY <1>1, <2>1, <2>2, Zenon DEF TypeOK
<1>4. ListShape'
  BY <1>1 DEF ListShape
<1>5. FreePayloads' = FreePayloads \ {trans[free_list]}
  BY <1>1 DEF FreePayloads, EveryPayloadAccounted
<1>6. trans[free_list] \in FreePayloads
  BY <1>1 DEF FreePayloads
<1>7. EveryPayloadAccounted'
  <2>1. \A c, d \in 1..free_list' : trans'[c] = trans'[d] => c = d
    BY <1>1 DEF EveryPayloadAccounted
  <2>2. held' \cup FreePayloads' = 1..created'
    BY <1>1, <1>5, <1>6, Zenon DEF EveryPayloadAccounted
  <2>3. held' \cap FreePayloads' = {}
    BY <1>1, <1>5, <1>6 DEF EveryPayloadAccounted
  <2> QED BY <2>1, <2>2, <2>3 DEF EveryPayloadAccounted
<1> QED BY <1>3, <1>4, <1>7

\* A payload is created only when no cell holds a free one.
LEMMA AllocateNewStep == PoolInv /\ AllocateNew => PoolInv'
<1> SUFFICES ASSUME PoolInv, AllocateNew PROVE PoolInv'
  OBVIOUS
<1> USE DEF PoolInv
<1>1. /\ free_list = 0 /\ created \in Nat /\ created' = created + 1
      /\ held' = held \cup {created + 1}
      /\ cells' = cells /\ trans' = trans /\ next' = next /\ prev' = prev
      /\ free_list' = free_list /\ empties' = empties
  BY DEF AllocateNew, cellVars, TypeOK
<1>2. TypeOK'
  BY <1>1 DEF TypeOK
<1>3. ListShape'
  BY <1>1 DEF ListShape
<1>4. FreePayloads = {} /\ FreePayloads' = {}
  BY <1>1 DEF FreePayloads
<1>5. EveryPayloadAccounted'
  BY <1>1, <1>4 DEF EveryPayloadAccounted
<1> QED BY <1>2, <1>3, <1>5

\* Filling the cell above the free part with a payload that was held extends
\* the free part by that payload.
LEMMA FreePartGrows ==
  ASSUME PoolInv, NEW t \in held,
         free_list' = free_list + 1, created' = created,
         \A c \in 1..free_list : trans'[c] = trans[c],
         trans'[free_list'] = t,
         held' = held \ {t}
  PROVE  EveryPayloadAccounted'
<1>1. free_list \in Nat /\ t \in 1..created
  BY DEF PoolInv, TypeOK
<1>2. FreePayloads' = FreePayloads \cup {t}
  BY <1>1 DEF FreePayloads
<1>3. t \notin FreePayloads
  BY DEF PoolInv, EveryPayloadAccounted
<1>4. \A c \in 1..free_list : trans[c] # t
  BY <1>3 DEF FreePayloads
<1>5. \A c, d \in 1..free_list' : trans'[c] = trans'[d] => c = d
  <2> SUFFICES ASSUME NEW c \in 1..free_list', NEW d \in 1..free_list',
                      trans'[c] = trans'[d]
               PROVE  c = d
    OBVIOUS
  <2>1. CASE c \in 1..free_list /\ d \in 1..free_list
    BY <2>1 DEF PoolInv, EveryPayloadAccounted
  <2>2. CASE c = free_list' \/ d = free_list'
    BY <1>1, <1>4, <2>2
  <2> QED BY <1>1, <2>1, <2>2
<1>6. held' \cup FreePayloads' = 1..created'
  <2>1. held \cup FreePayloads = 1..created
    BY DEF PoolInv, EveryPayloadAccounted
  <2> QED BY <1>2, <2>1, Zenon
<1>7. held' \cap FreePayloads' = {}
  BY <1>2 DEF PoolInv, EveryPayloadAccounted
<1> QED BY <1>5, <1>6, <1>7 DEF EveryPayloadAccounted

\* With an empty cell, release fills it and the cursor moves one cell up.
LEMMA FreeIntoCellStep ==
  ASSUME PoolInv, NEW t \in held, FreeIntoCell(t),
         held' = held \ {t}, created' = created
  PROVE  PoolInv'
<1> USE DEF PoolInv
<1>1. /\ cells \in Nat /\ free_list \in 0..cells
      /\ free_list < cells /\ empties = free_list + 1
      /\ free_list' = free_list + 1
      /\ trans' = [trans EXCEPT ![empties] = t]
      /\ cells' = cells /\ next' = next /\ prev' = prev
      /\ t \in 1..created
  BY DEF FreeIntoCell, TypeOK, ListShape
<1>2. empties' = IF free_list + 1 < cells THEN free_list + 2 ELSE 0
  BY <1>1 DEF FreeIntoCell, ListShape
<1>3. TypeOK'
  BY <1>1, <1>2, SMTT(30) DEF TypeOK
<1>4. ListShape'
  BY <1>1, <1>2 DEF ListShape
<1>5. trans'[free_list'] = t /\ \A c \in 1..free_list : trans'[c] = trans[c]
  BY <1>1 DEF TypeOK
<1>6. EveryPayloadAccounted'
  BY <1>1, <1>5, FreePartGrows
<1> QED BY <1>3, <1>4, <1>6

\* With no empty cell all cells are free, and a new one goes in front of them.
LEMMA FreeIntoNewCellStep ==
  ASSUME PoolInv, NEW t \in held, FreeIntoNewCell(t),
         held' = held \ {t}, created' = created
  PROVE  PoolInv'
<1> USE DEF PoolInv
<1>1. /\ cells \in Nat /\ free_list = cells /\ t \in 1..created
      /\ cells' = cells + 1 /\ free_list' = cells + 1 /\ empties' = 0
      /\ trans' = [c \in 1..(cells + 1) |-> IF c = cells + 1 THEN t ELSE trans[c]]
      /\ next' = [c \in 1..(cells + 1) |-> IF c = cells + 1 THEN cells ELSE next[c]]
      /\ prev' = [c \in 1..(cells + 1) |-> IF c = cells + 1 THEN 0
                                           ELSE IF c = cells THEN cells + 1 ELSE prev[c]]
  BY DEF FreeIntoNewCell, TypeOK, ListShape
<1>2. TypeOK'
  BY <1>1 DEF TypeOK
<1>3. ListShape'
  BY <1>1 DEF ListShape, TypeOK
<1>4. trans'[free_list'] = t /\ \A c \in 1..free_list : trans'[c] = trans[c]
  BY <1>1
<1>5. EveryPayloadAccounted'
  BY <1>1, <1>4, FreePartGrows
<1> QED BY <1>2, <1>3, <1>5

\* Whatever sequence of allocations and releases the components make, the pool
\* is a well-formed list and every payload is held or free, never both.
THEOREM PoolInvariance == Spec => []PoolInv
<1>1. Init => PoolInv
  BY PoolInit
<1>2. PoolInv /\ [Next]_vars => PoolInv'
  <2> SUFFICES ASSUME PoolInv, [Next]_vars PROVE PoolInv'
    OBVIOUS
  <2>1. CASE AllocateFree
    BY <2>1, AllocateFreeStep
  <2>2. CASE AllocateNew
    BY <2>2, AllocateNewStep
  <2>3. CASE \E t \in held : Release(t)
    <3>1. PICK t \in held : Release(t)
      BY <2>3
    <3>2. held' = held \ {t} /\ created' = created
      BY <3>1 DEF Release
    <3>3. CASE FreeIntoNewCell(t)
      BY <3>2, <3>3, FreeIntoNewCellStep
    <3>4. CASE FreeIntoCell(t)
      BY <3>2, <3>4, FreeIntoCellStep
    <3> QED BY <3>1, <3>3, <3>4 DEF Release
  <2>4. CASE UNCHANGED vars
    BY <2>4 DEF vars,  PoolInv, TypeOK, ListShape, EveryPayloadAccounted, FreePayloads
  <2> QED BY <2>1, <2>2, <2>3, <2>4 DEF Next
<1> QED BY <1>1, <1>2, PTL DEF Spec

\* No payload is lost, kept twice, or handed out while a component holds it.
THEOREM PoolAccounts == Spec => []EveryPayloadAccounted
<1>1. PoolInv => EveryPayloadAccounted
  BY DEF PoolInv
<1> QED BY <1>1, PoolInvariance, PTL

\* A payload is created only when all the others are held.
THEOREM PoolGrowsOnlyWhenAllHeld == Spec => GrowsOnlyWhenAllHeld
<1>1. PoolInv /\ [Next]_vars => [created' > created => held = 1..created]_vars
  <2> SUFFICES ASSUME PoolInv, Next, created' > created PROVE held = 1..created
    OBVIOUS
  <2>1. created \in Nat
    BY DEF PoolInv, TypeOK
  <2>2. AllocateNew
    BY <2>1 DEF Next, AllocateFree, Release
  <2>3. FreePayloads = {}
    BY <2>2 DEF AllocateNew, FreePayloads
  <2> QED BY <2>3 DEF PoolInv, EveryPayloadAccounted
<1> QED BY <1>1, PoolInvariance, PTL DEF Spec, GrowsOnlyWhenAllHeld
=============================================================================
