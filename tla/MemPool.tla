------------------------------ MODULE MemPool ------------------------------
(***************************************************************************)
(* The transaction pool `mm' (utilities/mm.cpp) from which Host and NPU    *)
(* take every TLM payload.  It keeps list cells in one doubly linked list: *)
(* free_list points at the first cell that holds a free payload, empties   *)
(* at the cell before it, the nearest one whose payload was handed out.    *)
(* allocate and free move both pointers along the list and never look at   *)
(* the cells between, so one wrong link hands a payload out twice while    *)
(* its first user still has it on the interconnect.                        *)
(*                                                                         *)
(* Cells and payloads are numbered in the order of their creation; 0 is    *)
(* the null pointer.                                                       *)
(***************************************************************************)
EXTENDS Integers

CONSTANT MaxPayloads     \* bound on the payloads ever created

ASSUME PoolAssumption == MaxPayloads \in Nat

VARIABLES
  cells,      \* number of access cells created
  trans,      \* the fields of a cell: its payload,
  next,       \* the next cell or 0,
  prev,       \* the previous cell or 0
  free_list,  \* first cell with a free payload, or 0
  empties,    \* the cell before it, or 0
  created,    \* number of payloads created
  held        \* payloads some component has acquired and not released
cellVars == <<cells, trans, next, prev>>
vars == <<cells, trans, next, prev, free_list, empties, created, held>>

Init ==
  /\ cells = 0 /\ trans = <<>> /\ next = <<>> /\ prev = <<>>
  /\ free_list = 0 /\ empties = 0
  /\ created = 0 /\ held = {}

\* mm.cpp:8-11: the first free payload is handed out and its cell becomes empty
AllocateFree ==
  /\ free_list # 0
  /\ held' = held \cup {trans[free_list]}
  /\ empties' = free_list
  /\ free_list' = next[free_list]
  /\ UNCHANGED <<cellVars, created>>

\* Mutant of AllocateNew: the pool grows although a payload is free.
AllocateNew_Always ==
  /\ created < MaxPayloads
  /\ created' = created + 1
  /\ held' = held \cup {created + 1}
  /\ UNCHANGED <<cellVars, free_list, empties>>

\* mm.cpp:12-14: none is free, a payload is created
AllocateNew ==
  /\ free_list = 0 /\ created < MaxPayloads
  /\ created' = created + 1
  /\ held' = held \cup {created + 1}
  /\ UNCHANGED <<cellVars, free_list, empties>>

\* mm.cpp:21-27, 29-31: no empty cell, a new one goes to the front of the list
FreeIntoNewCell(t) ==
  /\ empties = 0
  /\ cells' = cells + 1
  /\ trans' = [c \in 1..cells' |-> IF c = cells' THEN t ELSE trans[c]]
  /\ next' = [c \in 1..cells' |-> IF c = cells' THEN free_list ELSE next[c]]
  /\ prev' = [c \in 1..cells' |-> IF c = cells' THEN 0
                                  ELSE IF c = free_list THEN cells' ELSE prev[c]]
  /\ free_list' = cells'
  /\ empties' = 0

\* Mutant of FreeIntoCell: the cursor stays where it is.
FreeIntoCell_KeepsCursor(t) ==
  /\ empties # 0
  /\ trans' = [trans EXCEPT ![empties] = t]
  /\ free_list' = empties
  /\ UNCHANGED <<cells, next, prev, empties>>

\* mm.cpp:29-31: the nearest empty cell takes the payload
FreeIntoCell(t) ==
  /\ empties # 0
  /\ trans' = [trans EXCEPT ![empties] = t]
  /\ free_list' = empties
  /\ empties' = prev[empties]
  /\ UNCHANGED <<cells, next, prev>>

\* release() drops the last reference (tlm_gp.h) and calls mm::free
Release(t) ==
  /\ t \in held
  /\ FreeIntoNewCell(t) \/ FreeIntoCell(t)
  /\ held' = held \ {t}
  /\ UNCHANGED created

Next == AllocateFree \/ AllocateNew \/ \E t \in held : Release(t)

Spec == Init /\ [][Next]_vars

-----------------------------------------------------------------------------
(* Newest cell first, the list is cells, ..., 2, 1.  The cells from          *)
(* free_list on hold free payloads.                                         *)

\* Cells hold payloads that exist and links to cells that exist.
TypeOK ==
  /\ cells \in Nat /\ created \in Nat
  /\ trans \in [1..cells -> 1..created]
  /\ next \in [1..cells -> 0..cells] /\ prev \in [1..cells -> 0..cells]
  /\ free_list \in 0..cells /\ empties \in 0..cells
  /\ held \subseteq 1..created

FreePayloads == {trans[c] : c \in 1..free_list}

\* Every payload is either held or free, in one cell only: the pool leaks
\* nothing, holds nothing twice and never hands out a payload that a component
\* still has, in whatever order payloads are released.
EveryPayloadAccounted ==
  /\ held \cup FreePayloads = 1..created
  /\ held \cap FreePayloads = {}
  /\ \A c, d \in 1..free_list : trans[c] = trans[d] => c = d

\* The links between the cells, and the cursor next to the first free cell.
ListShape ==
  /\ \A c \in 1..cells :
       /\ next[c] = c - 1
       /\ prev[c] = IF c < cells THEN c + 1 ELSE 0
  /\ empties = IF free_list < cells THEN free_list + 1 ELSE 0

PoolInv == TypeOK /\ ListShape /\ EveryPayloadAccounted

\* The pool creates a payload only when every other one is held: a payload
\* given back is used again before the process grows.
GrowsOnlyWhenAllHeld == [][created' > created => held = 1..created]_vars
=============================================================================
