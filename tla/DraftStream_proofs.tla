------------------------ MODULE DraftStream_proofs --------------------------
(***************************************************************************)
(* Proofs about the draft's command stream for every control record, model *)
(* profile and granularity: the counting loops and the emission loops agree *)
(* on the last command, and a macro command lasts as long as what it       *)
(* stands for.                                                             *)
(***************************************************************************)
EXTENDS DraftStream, Subsequences_proofs

WorkItem == [context_tokens: Nat, tree_step: Nat, branch_depth: Nat, branch_index: Nat]
Burst    == [op: DOMAIN Profiles, delay: Nat]
Command  == [op: DOMAIN Profiles, delay: Nat, item: WorkItem, last: BOOLEAN]

\* unsigned int arithmetic yields a natural number, and loses nothing that fits.
LEMMA U32Facts == \A n \in Nat : U32(n) \in Nat /\ (n < Word => U32(n) = n)
BY DraftAssumption DEF U32

\* Sum over a list adds up its entries from the first to the last.
LEMMA SumIsSumTo ==
  ASSUME NEW s, NEW n \in Nat, DOMAIN s = 1..n
  PROVE  Sum(s) = SumTo(s, n)
BY DEF Sum, SumFunction, SumTo

-----------------------------------------------------------------------------
(* The operators the loops are built from.                                 *)

\* One step of the fan-out tree.
LEMMA TreeStepType ==
  ASSUME NEW c \in Controls, NEW step \in Nat
  PROVE  TreeStep(c, step) \in Seq(WorkItem)
<1> DEFINE fan == c.draft_fan_out_list
           Item(depth, branch) ==
             [context_tokens |-> U32(c.draft_kv_cache_tokens + (depth - 1) + step),
              tree_step |-> step, branch_depth |-> depth - 1, branch_index |-> branch - 1]
           Level(depth) == [branch \in 1..fan[depth] |-> Item(depth, branch)]
           levels == [depth \in DOMAIN fan |-> Level(depth)]
<1>1. fan \in Seq(Nat) /\ c.draft_kv_cache_tokens \in Nat
  BY DraftAssumption
<1>2. /\ DOMAIN fan = 1..Len(fan) /\ Len(fan) \in Nat
      /\ \A depth \in 1..Len(fan) : fan[depth] \in Nat
  BY <1>1
<1>3. ASSUME NEW depth \in 1..Len(fan) PROVE Level(depth) \in Seq(WorkItem)
  <2>1. depth - 1 \in Nat /\ c.draft_kv_cache_tokens + (depth - 1) + step \in Nat
    BY <1>1, <1>2, SMTT(60)
  <2>2. U32(c.draft_kv_cache_tokens + (depth - 1) + step) \in Nat
    BY <2>1, U32Facts
  <2>3. \A branch \in 1..fan[depth] : Item(depth, branch) \in WorkItem
    BY <2>1, <2>2 DEF WorkItem
  <2>4. fan[depth] \in Nat
    BY <1>2
  <2> HIDE DEF Item
  <2> QED
    BY <2>3, <2>4
<1> HIDE DEF Level
<1>4. levels \in Seq(Seq(WorkItem))
  BY <1>2, <1>3
<1>5. TreeStep(c, step) = FlattenSeq(levels)
  BY DEF TreeStep, Level
<1> QED
  BY <1>4, <1>5, FlattenType

\* The work items of a control record.
LEMMA WorkItemsType ==
  ASSUME NEW c \in Controls
  PROVE  DraftWorkItems(c) \in Seq(WorkItem)
<1>1. CASE c.algorithm = "ssd"
  <2> DEFINE steps == [step \in 1..c.draft_tree_steps |-> TreeStep(c, step - 1)]
  <2>1. c.draft_tree_steps \in Nat
    BY DraftAssumption
  <2>2. \A step \in 1..c.draft_tree_steps : TreeStep(c, step - 1) \in Seq(WorkItem)
    BY <2>1, TreeStepType
  <2>3. steps \in Seq(Seq(WorkItem))
    BY <2>1, <2>2
  <2>4. DraftWorkItems(c) = FlattenSeq(steps)
    BY <1>1 DEF DraftWorkItems
  <2> QED
    BY <2>3, <2>4, FlattenType
<1>2. CASE c.algorithm # "ssd"
  <2> DEFINE n == c.draft_proposal_count
             Item(p) == [context_tokens |-> U32(c.draft_kv_cache_tokens + p - 1),
                         tree_step |-> 0, branch_depth |-> p - 1, branch_index |-> 0]
  <2>1. n \in Nat /\ c.draft_kv_cache_tokens \in Nat
    BY DraftAssumption
  <2>2. ASSUME NEW p \in 1..n PROVE Item(p) \in WorkItem
    <3>1. p - 1 \in Nat /\ c.draft_kv_cache_tokens + p - 1 \in Nat
      BY <2>1
    <3>2. U32(c.draft_kv_cache_tokens + p - 1) \in Nat
      BY <3>1, U32Facts
    <3> QED
      BY <3>1, <3>2 DEF WorkItem
  <2>3. DraftWorkItems(c) = [p \in 1..n |-> Item(p)]
    BY <1>2 DEF DraftWorkItems
  <2> HIDE DEF Item
  <2> QED
    BY <2>1, <2>2, <2>3
<1> QED
  BY <1>1, <1>2

\* The fields of a profile.
LEMMA ProfileType ==
  ASSUME NEW op \in DOMAIN Profiles
  PROVE  /\ Profiles[op].tiles \in Nat /\ Profiles[op].num \in Nat
         /\ Profiles[op].den \in Nat \ {0}
         /\ Len(Profiles[op].cmds) \in Nat /\ DOMAIN Profiles[op].cmds = 1..Len(Profiles[op].cmds)
         /\ \A i \in 1..Len(Profiles[op].cmds) :
              /\ Profiles[op].cmds[i].count \in Nat
              /\ Profiles[op].cmds[i].delay \in Nat
<1> DEFINE P == [tiles: Nat, num: Nat, den: Nat \ {0}, cmds: Seq([delay: Nat, count: Nat])]
<1>1. Profiles[op] \in P
  BY DraftAssumption
<1>2. \A p \in P : /\ p.tiles \in Nat /\ p.num \in Nat /\ p.den \in Nat \ {0}
                   /\ p.cmds \in Seq([delay: Nat, count: Nat])
  OBVIOUS
<1> HIDE DEF P
<1>3. Profiles[op].cmds \in Seq([delay: Nat, count: Nat])
  BY <1>1, <1>2
<1>4. \A s \in Seq([delay: Nat, count: Nat]) :
        /\ Len(s) \in Nat /\ DOMAIN s = 1..Len(s)
        /\ \A i \in 1..Len(s) : s[i].count \in Nat /\ s[i].delay \in Nat
  <2> DEFINE C == [delay: Nat, count: Nat]
  <2>1. \A x \in C : x.count \in Nat /\ x.delay \in Nat
    OBVIOUS
  <2> HIDE DEF C
  <2>2. \A s \in Seq(C) : Len(s) \in Nat /\ DOMAIN s = 1..Len(s) /\ \A i \in 1..Len(s) : s[i] \in C
    OBVIOUS
  <2>3. \A s \in Seq(C) :
          /\ Len(s) \in Nat /\ DOMAIN s = 1..Len(s)
          /\ \A i \in 1..Len(s) : s[i].count \in Nat /\ s[i].delay \in Nat
    BY <2>1, <2>2
  <2> QED
    BY <2>3 DEF C
<1> QED
  BY <1>1, <1>2, <1>3, <1>4

\* The counts of an operation are natural numbers.
LEMMA CountTypes ==
  ASSUME NEW op \in DOMAIN Profiles, NEW item \in WorkItem
  PROVE  /\ CommandsPerTile(op) \in Nat
         /\ DraftAttentionTiles(op, item) \in Nat
         /\ TileCount(op, item) \in Nat
<1> DEFINE n == Len(Profiles[op].cmds)
           counts == [i \in DOMAIN Profiles[op].cmds |-> Profiles[op].cmds[i].count]
<1>1. CommandsPerTile(op) \in Nat
  <2>1. n \in Nat /\ DOMAIN counts = 1..n /\ \A i \in 1..n : counts[i] \in Nat
    BY ProfileType
  <2>2. CommandsPerTile(op) = Sum(counts)
    BY DEF CommandsPerTile
  <2> HIDE DEF counts, n
  <2> QED
    BY <2>1, <2>2, SumIsSumTo, SumToType
<1>2. DraftAttentionTiles(op, item) \in Nat
  <2> DEFINE a == U32(item.context_tokens + TileTokens - 1)
  <2>1. item.context_tokens + TileTokens - 1 \in Nat
    BY DraftAssumption DEF WorkItem
  <2>2. a \in Nat
    BY <2>1, U32Facts
  <2> HIDE DEF a
  <2>3. a \div TileTokens \in Int
    BY <2>2, DraftAssumption
  <2>4. MaxOf(1, a \div TileTokens) \in Nat
    BY <2>3 DEF MaxOf
  <2> QED
    BY <2>4 DEF DraftAttentionTiles, a
<1>3. Profiles[op].tiles * DraftAttentionTiles(op, item) \in Nat
  <2>1. Profiles[op].tiles \in Nat
    BY ProfileType
  <2> QED
    BY <1>2, <2>1
<1> QED
  BY <1>1, <1>2, <1>3, U32Facts DEF TileCount

\* The delay of a micro command is a natural number.
LEMMA ScaledDelayType ==
  ASSUME NEW op \in DOMAIN Profiles, NEW i \in 1..Len(Profiles[op].cmds)
  PROVE  U32(ScaledDelay(op, Profiles[op].cmds[i])) \in Nat
<1> DEFINE x == Profiles[op].cmds[i].delay  n == Profiles[op].num  d == Profiles[op].den
<1>1. x \in Nat /\ n \in Nat /\ d \in Nat \ {0}
  BY ProfileType
<1>2. ScaledDelay(op, Profiles[op].cmds[i]) = MaxOf(1, Round(x * n, d))
  BY DEF ScaledDelay
<1> HIDE DEF x, n, d
<1>3. x * n \in Nat
  BY <1>1
<1>4. Round(x * n, d) \in Int
  <2> DEFINE y == x * n
  <2> HIDE DEF y
  <2>1. \A z \in Nat : (2 * z + d) \div (2 * d) \in Int
    BY <1>1
  <2> QED
    BY <1>3, <2>1 DEF Round
<1>5. MaxOf(1, Round(x * n, d)) \in Nat
  BY <1>4 DEF MaxOf
<1> QED
  BY <1>2, <1>5, U32Facts

\* The micro commands of one tile, as many as were counted.
LEMMA TileBurstsFacts ==
  ASSUME NEW op \in DOMAIN Profiles
  PROVE  TileBursts(op) \in Seq(Burst) /\ Len(TileBursts(op)) = CommandsPerTile(op)
<1> DEFINE cmds == Profiles[op].cmds
           n == Len(cmds)
           Bursts(i) == [burst \in 1..cmds[i].count |-> [op |-> op, delay |-> U32(ScaledDelay(op, cmds[i]))]]
           seqs == [i \in DOMAIN cmds |-> Bursts(i)]
           counts == [i \in DOMAIN cmds |-> cmds[i].count]
<1>1. /\ n \in Nat /\ DOMAIN cmds = 1..n /\ \A i \in 1..n : cmds[i].count \in Nat
  BY ProfileType
<1>2. ASSUME NEW i \in 1..n PROVE Bursts(i) \in Seq(Burst) /\ Len(Bursts(i)) = cmds[i].count
  <2> DEFINE b == [op |-> op, delay |-> U32(ScaledDelay(op, cmds[i]))]
  <2>1. b \in Burst
    BY ScaledDelayType DEF Burst
  <2>2. cmds[i].count \in Nat
    BY <1>1
  <2> HIDE DEF b
  <2>3. Bursts(i) = [burst \in 1..cmds[i].count |-> b]
    BY DEF b
  <2> HIDE DEF Bursts
  <2> QED
    BY <2>1, <2>2, <2>3
<1>3. TileBursts(op) = FlattenSeq(seqs)
  BY DEF TileBursts
<1>4. CommandsPerTile(op) = Sum(counts)
  BY DEF CommandsPerTile
<1> HIDE DEF Bursts, n
<1>5. seqs \in Seq(Seq(Burst)) /\ Len(seqs) = n
  BY <1>1, <1>2
<1>6. \A i \in 1..n : counts[i] = Len(seqs[i])
  BY <1>1, <1>2
<1>7. DOMAIN counts = 1..n
  BY <1>1
<1> HIDE DEF seqs, counts
<1>8. Len(FlattenSeq(seqs)) = SumTo(counts, n)
  BY <1>5, <1>6, FlattenLength
<1> QED
  BY <1>1, <1>3, <1>4, <1>5, <1>7, <1>8, FlattenType, SumIsSumTo

\* The micro commands of all the tiles, as many as were counted.
LEMMA MicroFacts ==
  ASSUME NEW op \in DOMAIN Profiles, NEW tiles \in Nat
  PROVE  /\ MicroTransactions(op, tiles) \in Seq(Burst)
         /\ Len(MicroTransactions(op, tiles)) = tiles * CommandsPerTile(op)
<1> DEFINE b == TileBursts(op)  c == CommandsPerTile(op)
           seqs == [tile \in 1..tiles |-> b]  counts == [tile \in 1..tiles |-> c]
<1>1. b \in Seq(Burst) /\ Len(b) = c /\ c \in Nat
  <2>1. b \in Seq(Burst) /\ Len(b) = c
    BY TileBurstsFacts
  <2> QED
    BY <2>1
<1>2. MicroTransactions(op, tiles) = FlattenSeq(seqs)
  BY DEF MicroTransactions
<1> HIDE DEF b, c
<1>3. seqs \in Seq(Seq(Burst)) /\ Len(seqs) = tiles
  BY <1>1
<1>4. \A i \in 1..tiles : counts[i] = Len(seqs[i]) /\ counts[i] = c
  BY <1>1
<1> HIDE DEF seqs, counts
<1>5. Len(FlattenSeq(seqs)) = SumTo(counts, tiles)
  BY <1>3, <1>4, FlattenLength
<1>6. SumTo(counts, tiles) = tiles * c
  BY <1>1, <1>4, SumToConstant
<1> QED
  BY <1>2, <1>3, <1>5, <1>6, FlattenType DEF c

-----------------------------------------------------------------------------
(* The counting loops.                                                     *)

\* What each operation adds to the count of a work item, and each work item
\* to the count of a decoder layer.
OpCounts(item)    == [o \in DOMAIN Operations |-> OpTransactions(Operations[o], item)]
ItemCounts(items) == [w \in DOMAIN items |-> Sum(OpCounts(items[w]))]

\* Both factors of the layers are positive.
LEMMA LayerTypes == SimulatedLayers \in Nat \ {0} /\ LayerMultiplier \in Nat \ {0}
BY DraftAssumption DEF SimulatedLayers, LayerMultiplier

\* The counts are natural numbers, and a work item's is the sum of its operations'.
LEMMA CountingFacts ==
  ASSUME NEW items \in Seq(WorkItem), NEW w \in 1..Len(items)
  PROVE  /\ Len(Operations) \in Nat
         /\ \A o \in 1..Len(Operations) :
              /\ OpCounts(items[w])[o] = OpTransactions(Operations[o], items[w])
              /\ OpCounts(items[w])[o] \in Nat
         /\ ItemCounts(items)[w] = SumTo(OpCounts(items[w]), Len(Operations))
         /\ ItemCounts(items)[w] \in Nat
<1> DEFINE n == Len(Operations)  oc == OpCounts(items[w])
<1>1. n \in Nat /\ DOMAIN Operations = 1..n
  BY DraftAssumption
<1>2. items[w] \in WorkItem /\ w \in DOMAIN items
  OBVIOUS
<1>3. ASSUME NEW o \in 1..n
      PROVE  oc[o] = OpTransactions(Operations[o], items[w]) /\ oc[o] \in Nat
  <2>1. oc[o] = OpTransactions(Operations[o], items[w])
    BY <1>1 DEF OpCounts
  <2>2. CASE Profiled(Operations[o])
    <3>1. Operations[o] \in DOMAIN Profiles
      BY <2>2 DEF Profiled
    <3>2. TileCount(Operations[o], items[w]) \in Nat /\ CommandsPerTile(Operations[o]) \in Nat
      BY <1>2, <3>1, CountTypes
    <3>3. TileCount(Operations[o], items[w]) * CommandsPerTile(Operations[o]) \in Nat
      BY <3>2
    <3> QED
      BY <2>1, <3>3 DEF OpTransactions
  <2>3. CASE ~Profiled(Operations[o])
    BY <2>1, <2>3 DEF OpTransactions
  <2> QED
    BY <2>1, <2>2, <2>3
<1>4. DOMAIN oc = 1..n
  BY <1>1 DEF OpCounts
<1>5. ItemCounts(items)[w] = Sum(oc)
  BY <1>2 DEF ItemCounts
<1> HIDE DEF n, oc
<1>6. Sum(oc) = SumTo(oc, n) /\ SumTo(oc, n) \in Nat
  BY <1>1, <1>3, <1>4, SumIsSumTo, SumToType
<1> QED
  BY <1>1, <1>3, <1>5, <1>6 DEF n, oc

\* The count of the whole draft; without operations nothing is counted.
LEMMA TotalFacts ==
  ASSUME NEW items \in Seq(WorkItem)
  PROVE  /\ TotalTransactions(items) = SimulatedLayers * SumTo(ItemCounts(items), Len(items))
         /\ TotalTransactions(items) \in Nat
         /\ Len(Operations) = 0 => TotalTransactions(items) = 0
<1> DEFINE n == Len(items)  ic == ItemCounts(items)
<1>1. n \in Nat /\ DOMAIN ic = 1..n
  BY DEF ItemCounts
<1>2. \A w \in 1..n : ic[w] \in Nat
  BY CountingFacts
<1>3. TotalTransactions(items) = SimulatedLayers * Sum(ic)
  BY DEF TotalTransactions, ItemCounts, OpCounts
<1>4. ASSUME Len(Operations) = 0 PROVE \A w \in 1..n : ic[w] = 0
  <2>1. ASSUME NEW w \in 1..n PROVE ic[w] = 0
    <3>1. ic[w] = SumTo(OpCounts(items[w]), 0)
      BY <1>4, CountingFacts
    <3>2. SumTo(OpCounts(items[w]), 0) = 0
      BY SumToType
    <3> QED
      BY <3>1, <3>2
  <2> QED
    BY <2>1
<1> HIDE DEF n, ic
<1>5. Sum(ic) = SumTo(ic, n) /\ SumTo(ic, n) \in Nat
  BY <1>1, <1>2, SumIsSumTo, SumToType
<1>6. Len(Operations) = 0 => SumTo(ic, n) = 0
  <2>1. ASSUME Len(Operations) = 0 PROVE SumTo(ic, n) = n * 0
    BY <1>1, <1>4, <2>1, SumToConstant
  <2> QED
    BY <1>1, <2>1
<1>7. SimulatedLayers \in Nat
  BY LayerTypes
<1>8. SimulatedLayers * Sum(ic) \in Nat /\ (Sum(ic) = 0 => SimulatedLayers * Sum(ic) = 0)
  <2> DEFINE a == SimulatedLayers  b == Sum(ic)
  <2>1. a \in Nat /\ b \in Nat
    BY <1>5, <1>7
  <2> HIDE DEF a, b
  <2>2. a * b \in Nat /\ (b = 0 => a * b = 0)
    BY <2>1
  <2> QED
    BY <2>2 DEF a, b
<1> QED
  BY <1>3, <1>5, <1>6, <1>8 DEF n, ic

-----------------------------------------------------------------------------
(* The emission loops.                                                     *)

\* How many commands are queued when the synthetic emission loop is at work
\* item w, layer l and operation o.
Emitted(items, w, l, o) ==
  SimulatedLayers * SumTo(ItemCounts(items), w - 1) +
  IF w <= Len(items)
  THEN (l - 1) * ItemCounts(items)[w] + SumTo(OpCounts(items[w]), o - 1)
  ELSE 0

\* Where the loop nest goes next, and how many commands are queued by then.
LEMMA EmittedStep ==
  ASSUME NEW items \in Seq(WorkItem), NEW w \in 1..Len(items), NEW l \in 1..SimulatedLayers,
         NEW o \in 1..Len(Operations)
  PROVE  LET e == Emitted(items, w, l, o) + OpTransactions(Operations[o], items[w])
         IN /\ Emitted(items, w, l, o) \in Nat
            /\ o < Len(Operations) => Emitted(items, w, l, o + 1) = e
            /\ o = Len(Operations) /\ l < SimulatedLayers => Emitted(items, w, l + 1, 1) = e
            /\ o = Len(Operations) /\ l = SimulatedLayers => Emitted(items, w + 1, 1, 1) = e
<1> DEFINE L == SimulatedLayers  n == Len(items)  m == Len(Operations)
           ic == ItemCounts(items)  oc == OpCounts(items[w])
           x == ic[w]  y == SumTo(ic, w - 1)  z == SumTo(oc, o - 1)  t == oc[o]
<1>1. /\ L \in Nat \ {0} /\ n \in Nat /\ m \in Nat
      /\ x \in Nat /\ x = SumTo(oc, m) /\ t \in Nat /\ t = OpTransactions(Operations[o], items[w])
  BY LayerTypes, CountingFacts
<1>2. w - 1 \in Nat /\ (w - 1) + 1 = w /\ o - 1 \in Nat /\ (o - 1) + 1 = o /\ l \in Nat
      /\ (o + 1) - 1 = o /\ (w + 1) - 1 = w /\ (l + 1) - 1 = l
  BY <1>1
<1>3. y \in Nat /\ SumTo(ic, w) = y + x
  <2>1. \A v \in 1..w : ic[v] \in Nat
    BY CountingFacts
  <2> QED
    BY <1>2, <2>1, SumToStep
<1>4. z \in Nat /\ SumTo(oc, o) = z + t /\ SumTo(oc, 0) = 0
  <2>1. \A v \in 1..o : oc[v] \in Nat
    BY CountingFacts
  <2> QED
    BY <1>2, <2>1, SumToStep
<1>5. Emitted(items, w, l, o) = L * y + ((l - 1) * x + z)
  BY DEF Emitted
<1>6. Emitted(items, w, l, o + 1) = L * y + ((l - 1) * x + (z + t))
  BY <1>2, <1>4 DEF Emitted
<1>7. Emitted(items, w, l + 1, 1) = L * y + (l * x + 0)
  BY <1>2, <1>4 DEF Emitted
<1>8. Emitted(items, w + 1, 1, 1) = L * (y + x)
  <2>1. Emitted(items, w + 1, 1, 1) = L * (y + x) + 0
    <3>1. CASE w + 1 <= n
      <4>1. w + 1 \in 1..n
        BY <1>1, <3>1
      <4>2. ItemCounts(items)[w + 1] \in Nat /\ SumTo(OpCounts(items[w + 1]), 0) = 0
        BY <4>1, CountingFacts, SumToType
      <4>3. (1 - 1) * ItemCounts(items)[w + 1] + SumTo(OpCounts(items[w + 1]), 1 - 1) = 0
        BY <4>2
      <4> QED
        BY <1>2, <1>3, <3>1, <4>3 DEF Emitted
    <3> QED
      BY <1>2, <1>3, <3>1 DEF Emitted
  <2>2. L * (y + x) \in Nat
    BY <1>1, <1>3
  <2> QED
    BY <2>1, <2>2
<1> HIDE DEF L, n, m, x, y, z, t
<1>9. L * y \in Nat /\ (l - 1) * x \in Nat /\ l * x = (l - 1) * x + x /\ L * x = (L - 1) * x + x
      /\ L * (y + x) = L * y + L * x
  <2>1. l - 1 \in Nat /\ L - 1 \in Nat
    BY <1>1
  <2>2. \A a, b \in Nat : a * b \in Nat
    OBVIOUS
  <2>3. l * x = (l - 1) * x + x
    BY <1>1, <1>2
  <2>4. L * x = (L - 1) * x + x
    BY <1>1
  <2>5. L * (y + x) = L * y + L * x
    BY <1>1, <1>3
  <2> QED
    BY <1>1, <1>3, <2>1, <2>2, <2>3, <2>4, <2>5
<1>10. o = m => x = z + t
  BY <1>1, <1>4
<1>11. Emitted(items, w, l, o) \in Nat
  <2> DEFINE p == L * y  q == (l - 1) * x
  <2>1. p \in Nat /\ q \in Nat
    BY <1>9
  <2> HIDE DEF p, q
  <2>2. p + (q + z) \in Nat
    BY <1>4, <2>1
  <2> QED
    BY <1>5, <2>2 DEF p, q
<1>12. L * y + ((l - 1) * x + (z + t)) = L * y + ((l - 1) * x + z) + t
  <2> DEFINE p == L * y  q == (l - 1) * x
  <2>1. p \in Nat /\ q \in Nat
    BY <1>9
  <2> HIDE DEF p, q
  <2>2. p + (q + (z + t)) = p + (q + z) + t
    BY <1>1, <1>4, <2>1, SMTT(60)
  <2> QED
    BY <2>2 DEF p, q
<1>13. o = m => L * y + (l * x + 0) = L * y + ((l - 1) * x + z) + t
  <2> DEFINE p == L * y  q == (l - 1) * x
  <2>1. p \in Nat /\ q \in Nat /\ l * x = q + x
    BY <1>9
  <2> HIDE DEF p, q
  <2>2. o = m => p + (l * x + 0) = p + (q + z) + t
    BY <1>1, <1>4, <1>10, <2>1, SMTT(60)
  <2> QED
    BY <2>2 DEF p, q
<1>14. o = m /\ l = L => L * (y + x) = L * y + ((l - 1) * x + z) + t
  <2> DEFINE p == L * y  q == (l - 1) * x
  <2>1. p \in Nat /\ q \in Nat /\ (l = L => L * (y + x) = p + (q + x))
    BY <1>9
  <2> HIDE DEF p, q
  <2>2. o = m /\ l = L => L * (y + x) = p + (q + z) + t
    BY <1>1, <1>4, <1>10, <2>1, SMTT(60)
  <2> QED
    BY <2>2 DEF p, q
<1>15. t = OpTransactions(Operations[o], items[w])
  BY <1>1
<1> QED
  BY <1>5, <1>6, <1>7, <1>8, <1>11, <1>12, <1>13, <1>14, <1>15 DEF L, m

-----------------------------------------------------------------------------
(* The invariant of the stream.                                            *)

\* generate_trans appends the commands it is given, and marks the one whose
\* index is the total.
LEMMA QueueFacts ==
  ASSUME pending \in Seq(Command), NEW item \in WorkItem, NEW new \in Seq(Burst), total \in Nat
  PROVE  /\ Queue(item, new) \in Seq(Command)
         /\ Len(Queue(item, new)) = Len(pending) + Len(new)
         /\ \A i \in 1..Len(pending) : Queue(item, new)[i] = pending[i]
         /\ \A i \in 1..Len(new) :
              Queue(item, new)[Len(pending) + i] =
                [op |-> new[i].op, delay |-> new[i].delay, item |-> item,
                 last |-> Len(pending) + i = total]
<1> DEFINE C(i) == [op |-> new[i].op, delay |-> new[i].delay, item |-> item,
                    last |-> Len(pending) + i = total]
           more == [i \in DOMAIN new |-> C(i)]
<1>1. ASSUME NEW i \in 1..Len(new) PROVE C(i) \in Command
  <2>1. new[i] \in Burst
    OBVIOUS
  <2> QED
    BY <2>1 DEF Burst, Command
<1>2. Queue(item, new) = pending \o more
  BY DEF Queue
<1> HIDE DEF C
<1>3. /\ more \in Seq(Command) /\ Len(more) = Len(new)
      /\ \A i \in 1..Len(new) : more[i] = C(i)
  BY <1>1
<1> HIDE DEF more
<1>4. /\ pending \o more \in Seq(Command) /\ Len(pending \o more) = Len(pending) + Len(more)
      /\ \A i \in 1..(Len(pending) + Len(more)) :
           (pending \o more)[i] = IF i <= Len(pending) THEN pending[i] ELSE more[i - Len(pending)]
  BY <1>3, ConcatProperties
<1>5. Len(pending) \in Nat /\ Len(more) \in Nat
  BY <1>3
<1>6. \A i \in 1..Len(pending) : (pending \o more)[i] = pending[i]
  BY <1>4, <1>5
<1>7. \A i \in 1..Len(more) : (pending \o more)[Len(pending) + i] = more[i]
  <2>1. ASSUME NEW i \in 1..Len(more)
        PROVE  (pending \o more)[Len(pending) + i] = more[i]
    <3>1. /\ Len(pending) + i \in 1..(Len(pending) + Len(more))
          /\ ~(Len(pending) + i <= Len(pending)) /\ (Len(pending) + i) - Len(pending) = i
      BY <1>5
    <3> QED
      BY <1>4, <3>1
  <2> QED
    BY <2>1
<1> QED
  BY <1>2, <1>3, <1>4, <1>6, <1>7 DEF C

Items == DraftWorkItems(control)

\* The totals that the counting loops leave behind.
CountedInv ==
  pc \in {"emit", "wait"} =>
    /\ granularity # "template" => total = TotalTransactions(Items) /\ total # 0
    /\ granularity = "template" => template \in DOMAIN Profiles /\ total = TotalBursts(Items)

\* The emission loops are inside their bounds, and have queued what the
\* counting loops counted up to the same point.
EmittedInv ==
  pc = "emit" =>
    /\ pos \in Seq(Nat) /\ Len(pos) = 3 /\ pos[1] \in 1..(Len(Items) + 1)
    /\ granularity # "template" =>
         /\ pos[2] \in 1..SimulatedLayers /\ pos[3] \in 1..Len(Operations)
         /\ Len(pending) = Emitted(Items, pos[1], pos[2], pos[3])
    /\ granularity = "template" =>
         Len(pending) = (pos[1] - 1) * (Profiles[template].tiles * CommandsPerTile(template))

\* Every queued macro has the delay of the operation and the item it was made for.
MacroInv ==
  AggregateMicro =>
    \A i \in 1..Len(pending) :
      pending[i].delay = U32(MacroDelay(pending[i].op, TileCount(pending[i].op, pending[i].item)))

StreamInv ==
  /\ control \in Controls /\ granularity \in Granularities
  /\ total \in Nat /\ pending \in Seq(Command)
  /\ \A i \in 1..Len(pending) : pending[i].last <=> i = total
  /\ pc = "count" => pending = <<>> /\ pos = <<1, 1, 1>>
  /\ CountedInv /\ EmittedInv /\ MacroInv
  /\ pc = "wait" => Len(pending) = total

\* The delay of a macro command is a natural number.
LEMMA MacroType ==
  ASSUME NEW op \in DOMAIN Profiles, NEW tiles \in Nat
  PROVE  /\ MacroTransaction(op, tiles) \in Seq(Burst) /\ Len(MacroTransaction(op, tiles)) = 1
         /\ MacroTransaction(op, tiles)[1].delay = U32(MacroDelay(op, tiles))
         /\ MacroTransaction(op, tiles)[1].op = op
<1> DEFINE p == Profiles[op]  n == Len(p.cmds)
           delays == [i \in DOMAIN p.cmds |-> p.cmds[i].delay * p.cmds[i].count]
           above == ScaledTotal(op, tiles) - p.den
<1>1. p.num \in Nat /\ p.den \in Nat \ {0} /\ n \in Nat /\ DOMAIN delays = 1..n
  BY ProfileType
<1>2. \A i \in 1..n : delays[i] \in Nat
  <2>1. ASSUME NEW i \in 1..n PROVE delays[i] \in Nat
    <3>1. p.cmds[i].delay \in Nat /\ p.cmds[i].count \in Nat
      BY ProfileType
    <3>2. delays[i] = p.cmds[i].delay * p.cmds[i].count
      BY <1>1
    <3> QED
      BY <3>1, <3>2
  <2> QED
    BY <2>1
<1>3. Sum(delays) \in Nat
  <2> HIDE DEF delays, n
  <2> QED
    BY <1>1, <1>2, SumIsSumTo, SumToType
<1>4. SummedDelay(op, tiles) \in Nat
  <2>1. SummedDelay(op, tiles) = Sum(delays) * tiles * LayerMultiplier
    BY DEF SummedDelay
  <2>2. \A a, b, c \in Nat : a * b * c \in Nat
    OBVIOUS
  <2> QED
    BY <1>3, <2>1, <2>2, LayerTypes
<1>5. MicroCommands(op, tiles) \in Nat
  <2>1. CommandsPerTile(op) \in Nat
    <3>1. TileBursts(op) \in Seq(Burst) /\ Len(TileBursts(op)) = CommandsPerTile(op)
      BY TileBurstsFacts
    <3> QED
      BY <3>1
  <2>2. \A a, b, c \in Nat : a * b * c \in Nat
    OBVIOUS
  <2> QED
    BY <2>1, <2>2, LayerTypes DEF MicroCommands
<1>6. above \in Int
  <2>1. \A a, b, c, d \in Nat : (2 * a + b) * c - d \in Int
    OBVIOUS
  <2> QED
    BY <1>1, <1>4, <1>5, <2>1 DEF ScaledTotal
<1>7. MacroDelay(op, tiles) \in Nat
  <2>1. MacroDelay(op, tiles) = IF above <= 0 THEN 0 ELSE Round(above, 2 * p.den)
    BY DEF MacroDelay
  <2>2. \A a \in Int, d \in Nat \ {0} : a > 0 => (2 * a + 2 * d) \div (2 * (2 * d)) \in Nat
    OBVIOUS
  <2> HIDE DEF above
  <2> QED
    BY <1>1, <1>6, <2>1, <2>2 DEF Round
<1>8. U32(MacroDelay(op, tiles)) \in Nat
  BY <1>7, U32Facts
<1>9. MacroTransaction(op, tiles) = <<[op |-> op, delay |-> U32(MacroDelay(op, tiles))]>>
  BY DEF MacroTransaction
<1> QED
  BY <1>8, <1>9 DEF Burst

\* What the stream is when commands have been queued: the marks and the macro
\* delays of the old commands and of the new ones.
LEMMA QueueKeeps ==
  ASSUME StreamInv, NEW item \in WorkItem, NEW new \in Seq(Burst), pending' = Queue(item, new),
         UNCHANGED <<control, granularity, template, pc, total>>,
         AggregateMicro => \A i \in 1..Len(new) :
           new[i].delay = U32(MacroDelay(new[i].op, TileCount(new[i].op, item)))
  PROVE  /\ pending' \in Seq(Command) /\ Len(pending') = Len(pending) + Len(new)
         /\ \A i \in 1..Len(pending') : pending'[i].last <=> i = total
         /\ MacroInv'
<1>1. /\ pending' \in Seq(Command)
      /\ Len(pending') = Len(pending) + Len(new)
      /\ \A i \in 1..Len(pending) : pending'[i] = pending[i]
      /\ \A i \in 1..Len(new) : pending'[Len(pending) + i] =
           [op |-> new[i].op, delay |-> new[i].delay, item |-> item,
            last |-> Len(pending) + i = total]
  BY QueueFacts DEF StreamInv
<1>2. Len(pending) \in Nat /\ Len(new) \in Nat
  BY DEF StreamInv
<1>3. ASSUME NEW i \in 1..Len(pending'), i \notin 1..Len(pending)
      PROVE  \E j \in 1..Len(new) :
               /\ i = Len(pending) + j
               /\ pending'[i] = [op |-> new[j].op, delay |-> new[j].delay, item |-> item,
                                 last |-> Len(pending) + j = total]
  <2>1. i - Len(pending) \in 1..Len(new) /\ Len(pending) + (i - Len(pending)) = i
    BY <1>1, <1>2, <1>3
  <2> QED
    BY <1>1, <2>1
<1>4. ASSUME NEW i \in 1..Len(pending') PROVE pending'[i].last <=> i = total
  <2>1. CASE i \in 1..Len(pending)
    BY <1>1, <2>1 DEF StreamInv
  <2>2. CASE i \notin 1..Len(pending)
    <3>1. PICK j \in 1..Len(new) :
            /\ i = Len(pending) + j
            /\ pending'[i] = [op |-> new[j].op, delay |-> new[j].delay, item |-> item,
                              last |-> Len(pending) + j = total]
      BY <1>3, <2>2
    <3>2. pending'[i].last = (Len(pending) + j = total)
      BY <3>1
    <3> QED
      BY <3>1, <3>2, Zenon
  <2> QED
    BY <2>1, <2>2
<1>5. MacroInv'
  <2>1. AggregateMicro' = AggregateMicro /\ LayerMultiplier' = LayerMultiplier
    BY DEF AggregateMicro, LayerMultiplier, CollapseLayers
  <2>2. ASSUME AggregateMicro, NEW i \in 1..Len(pending')
        PROVE  pending'[i].delay =
                 U32(MacroDelay(pending'[i].op, TileCount(pending'[i].op, pending'[i].item)))
    <3>1. CASE i \in 1..Len(pending)
      BY <1>1, <2>2, <3>1 DEF StreamInv, MacroInv
    <3>2. CASE i \notin 1..Len(pending)
      <4>1. PICK j \in 1..Len(new) :
              pending'[i] = [op |-> new[j].op, delay |-> new[j].delay, item |-> item,
                             last |-> Len(pending) + j = total]
        BY <1>3, <3>2
      <4>2. pending'[i].op = new[j].op /\ pending'[i].delay = new[j].delay /\ pending'[i].item = item
        BY <4>1
      <4> QED
        BY <2>2, <4>2
    <3> QED
      BY <3>1, <3>2
  <2> QED
    BY <2>1, <2>2, ZenonT(60) DEF MacroInv, MacroDelay, ScaledTotal, SummedDelay, MicroCommands
<1> QED
  BY <1>1, <1>4, <1>5

\* While commands are queued the work items and the totals stay as counted.
LEMMA CountedStays ==
  ASSUME CountedInv, UNCHANGED <<control, granularity, template, total>>, pc = "emit",
         pc' \in {"emit", "wait"}
  PROVE  CountedInv' /\ Items' = Items
<1>1. Items' = Items
  BY DEF Items, DraftWorkItems, TreeStep
<1>2. TotalTransactions(Items)' = TotalTransactions(Items)
  BY <1>1 DEF TotalTransactions, OpTransactions, AggregateMicro, SimulatedLayers, CollapseLayers
<1>3. TotalBursts(Items)' = TotalBursts(Items)
  BY <1>1 DEF TotalBursts
<1> QED
  BY <1>1, <1>2, <1>3 DEF CountedInv

\* The stream's invariant holds of the empty stream and is kept by every step.
LEMMA StreamStart == Init => StreamInv
<1> SUFFICES ASSUME Init PROVE StreamInv
  OBVIOUS
<1>1. pending = <<>> /\ pending \in Seq(Command) /\ Len(pending) = 0
  BY DEF Init
<1> QED
  BY <1>1 DEF Init, StreamInv, CountedInv, EmittedInv, MacroInv

\* The delays depend on the queue and the granularity alone.
LEMMA MacroKept ==
  ASSUME MacroInv, UNCHANGED <<granularity, pending>>
  PROVE  MacroInv'
BY ZenonT(90) DEF MacroInv, AggregateMicro, MacroDelay, ScaledTotal, SummedDelay, MicroCommands, LayerMultiplier,
   CollapseLayers

\* Every step keeps the invariant of the stream.
LEMMA StreamStep == StreamInv /\ [Next]_vars => StreamInv'
<1> SUFFICES ASSUME StreamInv, [Next]_vars PROVE StreamInv'
  OBVIOUS
<1>0. Items \in Seq(WorkItem) /\ Len(Items) \in Nat
  BY WorkItemsType DEF StreamInv, Items
<1>1. ASSUME pc' # "emit", UNCHANGED <<control, granularity, template, total, pos, pending>>,
             pc' = "thrown"
      PROVE  StreamInv'
  <2>1. MacroInv'
    BY <1>1, MacroKept DEF StreamInv
  <2> QED
    BY <1>1, <2>1 DEF StreamInv, CountedInv, EmittedInv
<1>2. CASE MissingTemplate
  BY <1>1, <1>2 DEF MissingTemplate
<1>3. CASE CountSynthetic
  <2>0. USE <1>3 DEF CountSynthetic
  <2>1. /\ UNCHANGED <<control, granularity, template, pos, pending>>
        /\ pending = <<>> /\ pos = <<1, 1, 1>> /\ granularity # "template"
        /\ total' = TotalTransactions(Items)
        /\ pc' = IF total' = 0 THEN "thrown" ELSE "emit"
    BY DEF StreamInv, Items
  <2>2. Items' = Items /\ TotalTransactions(Items)' = TotalTransactions(Items)
        /\ SimulatedLayers' = SimulatedLayers
    BY <2>1 DEF Items, DraftWorkItems, TreeStep, TotalTransactions, OpTransactions, AggregateMicro,
                SimulatedLayers, CollapseLayers
  <2>3. /\ total' \in Nat /\ (total' # 0 => Len(Operations) # 0) /\ Len(Operations) \in Nat
        /\ SimulatedLayers \in Nat \ {0}
    BY <1>0, <2>1, TotalFacts, LayerTypes, DraftAssumption
  <2>4. CountedInv'
    BY <2>1, <2>2 DEF CountedInv
  <2>5. EmittedInv'
    <3>1. SUFFICES ASSUME pc' = "emit" PROVE EmittedInv'
      BY DEF EmittedInv
    <3>2. Len(Operations) # 0
      BY <2>1, <2>3, <3>1
    <3>3. Emitted(Items, 1, 1, 1)' = 0
      <4>1. Emitted(Items, 1, 1, 1) = 0
        <5>1. SumTo(ItemCounts(Items), 0) = 0 /\ SimulatedLayers * 0 = 0
          BY <2>3, SumToType
        <5>2. CASE 1 <= Len(Items)
          <6>1. ItemCounts(Items)[1] \in Nat /\ SumTo(OpCounts(Items[1]), 0) = 0
            BY <1>0, <5>2, CountingFacts, SumToType
          <6>2. (1 - 1) * ItemCounts(Items)[1] + SumTo(OpCounts(Items[1]), 1 - 1) = 0
            BY <6>1
          <6> QED
            BY <5>1, <6>2 DEF Emitted
        <5> QED
          BY <5>1, <5>2 DEF Emitted
      <4>2. Emitted(Items, 1, 1, 1)' = Emitted(Items, 1, 1, 1)
        BY <2>1, <2>2 DEF Emitted, ItemCounts, OpCounts, OpTransactions, AggregateMicro
      <4> QED
        BY <4>1, <4>2
    <3>4. pos' = <<1, 1, 1>> /\ Len(pending') = 0
      BY <2>1
    <3> QED
      BY <1>0, <2>1, <2>2, <2>3, <3>2, <3>3, <3>4 DEF EmittedInv
  <2>6. MacroInv' /\ Len(pending') = 0
    BY <2>1 DEF MacroInv
  <2> QED
    BY <2>1, <2>3, <2>4, <2>5, <2>6 DEF StreamInv
<1>4. CASE CountTemplate
  <2>0. USE <1>4 DEF CountTemplate
  <2>1. /\ UNCHANGED <<control, granularity, template, pos, pending>>
        /\ pending = <<>> /\ pos = <<1, 1, 1>> /\ granularity = "template"
        /\ template \in DOMAIN Profiles /\ total' = TotalBursts(Items) /\ pc' = "emit"
    BY DEF StreamInv, Items, Profiled
  <2>2. Items' = Items /\ TotalBursts(Items)' = TotalBursts(Items)
    BY <2>1 DEF Items, DraftWorkItems, TreeStep, TotalBursts
  <2>3. Profiles[template].tiles \in Nat /\ CommandsPerTile(template) \in Nat
    <3>1. TileBursts(template) \in Seq(Burst) /\ Len(TileBursts(template)) = CommandsPerTile(template)
      BY <2>1, TileBurstsFacts
    <3> QED
      BY <2>1, <3>1, ProfileType
  <2>4. total' \in Nat
    <3>1. \A a, b, c \in Nat : a * b * c \in Nat
      OBVIOUS
    <3> QED
      BY <1>0, <2>1, <2>3, <3>1 DEF TotalBursts
  <2>5. EmittedInv'
    <3>1. \A a, b \in Nat : (1 - 1) * (a * b) = 0
      OBVIOUS
    <3>2. pos' = <<1, 1, 1>> /\ Len(pending') = 0
      BY <2>1
    <3> QED
      BY <1>0, <2>1, <2>2, <2>3, <3>1, <3>2 DEF EmittedInv
  <2>6. MacroInv' /\ Len(pending') = 0
    BY <2>1 DEF MacroInv
  <2> QED
    BY <2>1, <2>2, <2>4, <2>5, <2>6 DEF StreamInv, CountedInv
<1>5. CASE EmitOperation
  <2>0. USE <1>5 DEF EmitOperation
  <2> DEFINE op == Operations[pos[3]]  item == Items[pos[1]]  tiles == TileCount(op, item)
  <2>1. /\ UNCHANGED <<control, granularity, template, pc, total>> /\ pc = "emit"
        /\ granularity # "template" /\ pos' = NextPos
        /\ pending' = IF ~Profiled(op) THEN pending
                      ELSE Queue(item, IF AggregateMicro THEN MacroTransaction(op, tiles)
                                       ELSE MicroTransactions(op, tiles))
    BY DEF Items
  <2>2. CountedInv' /\ Items' = Items
    BY <2>1, CountedStays DEF StreamInv
  <2>3. /\ pos[1] \in 1..Len(Items) /\ pos[2] \in 1..SimulatedLayers /\ pos[3] \in 1..Len(Operations)
        /\ Len(pending) = Emitted(Items, pos[1], pos[2], pos[3])
    BY <1>0, <2>1 DEF StreamInv, EmittedInv, Items
  <2>4. item \in WorkItem
    BY <1>0, <2>3
  <2>5. /\ pending' \in Seq(Command) /\ Len(pending') = Len(pending) + OpTransactions(op, item)
        /\ \A i \in 1..Len(pending') : pending'[i].last <=> i = total
        /\ MacroInv'
    <3> HIDE DEF item, tiles
    <3>1. CASE ~Profiled(op)
      <4>1. pending' = pending /\ OpTransactions(op, item) = 0
        BY <2>1, <3>1 DEF OpTransactions
      <4>2. MacroInv'
        BY <2>1, <4>1, ZenonT(60) DEF StreamInv, MacroInv, AggregateMicro, MacroDelay, ScaledTotal,
                          SummedDelay, MicroCommands, LayerMultiplier, CollapseLayers
      <4> QED
        BY <4>1, <4>2 DEF StreamInv
    <3>2. CASE Profiled(op) /\ AggregateMicro
      <4>1. op \in DOMAIN Profiles /\ tiles \in Nat
        BY <2>4, <3>2, CountTypes DEF Profiled, tiles
      <4> DEFINE new == MacroTransaction(op, tiles)
      <4>2. /\ new \in Seq(Burst) /\ Len(new) = 1
            /\ new[1].delay = U32(MacroDelay(op, tiles)) /\ new[1].op = op
        BY <4>1, MacroType
      <4>3. pending' = Queue(item, new) /\ OpTransactions(op, item) = 1
        BY <2>1, <3>2 DEF OpTransactions
      <4> HIDE DEF new, op
      <4>4. \A i \in 1..Len(new) :
              new[i].delay = U32(MacroDelay(new[i].op, TileCount(new[i].op, item)))
        BY <4>2 DEF tiles
      <4> QED
        BY <2>1, <2>4, <4>2, <4>3, <4>4, QueueKeeps
    <3>3. CASE Profiled(op) /\ ~AggregateMicro
      <4>1. op \in DOMAIN Profiles /\ tiles \in Nat
        BY <2>4, <3>3, CountTypes DEF Profiled, tiles
      <4> DEFINE new == MicroTransactions(op, tiles)
      <4>2. new \in Seq(Burst) /\ Len(new) = tiles * CommandsPerTile(op)
        BY <4>1, MicroFacts
      <4>3. pending' = Queue(item, new) /\ OpTransactions(op, item) = tiles * CommandsPerTile(op)
        BY <2>1, <3>3 DEF OpTransactions, tiles
      <4> HIDE DEF new, op
      <4> QED
        BY <2>1, <2>4, <3>3, <4>2, <4>3, QueueKeeps
    <3> QED
      BY <3>1, <3>2, <3>3
  <2>6. EmittedInv'
    <3> DEFINE w == pos[1]  l == pos[2]  o == pos[3]
               e == Emitted(Items, w, l, o) + OpTransactions(Operations[o], Items[w])
    <3>1. Len(pending') = e
      BY <2>3, <2>5
    <3>2. /\ o < Len(Operations) => Emitted(Items, w, l, o + 1) = e
          /\ o = Len(Operations) /\ l < SimulatedLayers => Emitted(Items, w, l + 1, 1) = e
          /\ o = Len(Operations) /\ l = SimulatedLayers => Emitted(Items, w + 1, 1, 1) = e
      BY <1>0, <2>3, EmittedStep
    <3>3. \A a, b, c : Emitted(Items, a, b, c)' = Emitted(Items, a, b, c)
      BY <2>1, <2>2 DEF Emitted, ItemCounts, OpCounts, OpTransactions, AggregateMicro,
                        SimulatedLayers, CollapseLayers
    <3>4. SimulatedLayers' = SimulatedLayers /\ SimulatedLayers \in Nat \ {0}
          /\ Len(Operations) \in Nat
      BY <2>1, LayerTypes, DraftAssumption DEF SimulatedLayers, CollapseLayers
    <3>5. NextPos = IF o < Len(Operations) THEN <<w, l, o + 1>>
                    ELSE IF l < SimulatedLayers THEN <<w, l + 1, 1>>
                    ELSE <<w + 1, 1, 1>>
      BY <2>1 DEF NextPos
    <3> HIDE DEF e
    <3>6. /\ pos' \in Seq(Nat) /\ Len(pos') = 3 /\ pos'[1] \in 1..(Len(Items) + 1)
          /\ pos'[2] \in 1..SimulatedLayers /\ pos'[3] \in 1..Len(Operations)
          /\ Emitted(Items, pos'[1], pos'[2], pos'[3]) = e
      <4>1. CASE o < Len(Operations)
        <5>1. pos' = <<w, l, o + 1>>
          BY <2>1, <3>5, <4>1
        <5> QED
          BY <1>0, <2>3, <3>2, <3>4, <4>1, <5>1, SMTT(60)
      <4>2. CASE o = Len(Operations) /\ l < SimulatedLayers
        <5>1. pos' = <<w, l + 1, 1>>
          BY <2>1, <2>3, <3>4, <3>5, <4>2
        <5> QED
          BY <1>0, <2>3, <3>2, <3>4, <4>2, <5>1, SMTT(60)
      <4>3. CASE o = Len(Operations) /\ l = SimulatedLayers
        <5>1. pos' = <<w + 1, 1, 1>>
          BY <2>1, <2>3, <3>4, <3>5, <4>3
        <5> QED
          BY <1>0, <2>3, <3>2, <3>4, <4>3, <5>1
      <4> QED
        BY <2>3, <3>4, <4>1, <4>2, <4>3
    <3> QED
      BY <2>1, <2>2, <3>1, <3>3, <3>4, <3>6 DEF EmittedInv
  <2> QED
    BY <2>1, <2>2, <2>5, <2>6 DEF StreamInv
<1>6. CASE EmitTemplate
  <2>0. USE <1>6 DEF EmitTemplate
  <2> DEFINE item == Items[pos[1]]  tiles == Profiles[template].tiles
             new == MicroTransactions(template, tiles)  c == CommandsPerTile(template)
  <2>1. /\ UNCHANGED <<control, granularity, template, pc, total>> /\ pc = "emit"
        /\ granularity = "template" /\ pos' = NextPos /\ pending' = Queue(item, new)
        /\ ~AggregateMicro
    BY DEF Items, AggregateMicro
  <2>2. CountedInv' /\ Items' = Items
    BY <2>1, CountedStays DEF StreamInv
  <2>3. /\ pos[1] \in 1..Len(Items) /\ template \in DOMAIN Profiles
        /\ Len(pending) = (pos[1] - 1) * (tiles * c)
    BY <1>0, <2>1 DEF StreamInv, EmittedInv, CountedInv, Items
  <2>4. item \in WorkItem
    BY <1>0, <2>3
  <2>5. tiles \in Nat /\ c \in Nat /\ new \in Seq(Burst) /\ Len(new) = tiles * c
    <3>1. tiles \in Nat
      BY <2>3, ProfileType
    <3> QED
      BY <2>3, <2>4, <3>1, MicroFacts, CountTypes
  <2>6. /\ pending' \in Seq(Command) /\ Len(pending') = Len(pending) + Len(new)
        /\ \A i \in 1..Len(pending') : pending'[i].last <=> i = total
        /\ MacroInv'
    <3> HIDE DEF item, new
    <3> QED
      BY <2>1, <2>4, <2>5, QueueKeeps
  <2>7. EmittedInv'
    <3>1. pos' = <<pos[1] + 1, 1, 1>>
      BY <2>1 DEF NextPos
    <3>2. Len(pending') = (pos[1] + 1 - 1) * (tiles * c)
      <4> DEFINE w == pos[1]  t == tiles * c
      <4>1. w \in Nat /\ t \in Nat /\ Len(pending') = (w - 1) * t + t
        BY <1>0, <2>3, <2>5, <2>6
      <4> HIDE DEF w, t
      <4>2. (w - 1) * t + t = (w + 1 - 1) * t
        BY <4>1
      <4> QED
        BY <4>1, <4>2 DEF w, t
    <3> QED
      BY <1>0, <2>1, <2>2, <2>3, <3>1, <3>2, SMTT(60) DEF EmittedInv
  <2> QED
    BY <2>1, <2>2, <2>6, <2>7 DEF StreamInv
<1>7. CASE ReachBarrier
  <2>0. USE <1>7 DEF ReachBarrier
  <2>1. /\ UNCHANGED <<control, granularity, template, total, pos, pending>> /\ pc = "emit"
        /\ pc' = "wait" /\ pos[1] > Len(Items)
    BY DEF Items
  <2>2. CountedInv' /\ Items' = Items
    BY <2>1, CountedStays DEF StreamInv
  <2>3. MacroInv'
    BY <2>1, MacroKept DEF StreamInv
  <2>4. pos[1] = Len(Items) + 1
    BY <1>0, <2>1, SMTT(60) DEF StreamInv, EmittedInv
  <2>5. Len(pending) = total
    <3>1. CASE granularity # "template"
      <4>1. Len(pending) = SimulatedLayers * SumTo(ItemCounts(Items), Len(Items)) + 0
        <5>1. ~(Len(Items) + 1 <= Len(Items)) /\ Len(Items) + 1 - 1 = Len(Items)
          BY <1>0
        <5> QED
          BY <2>1, <2>4, <3>1, <5>1 DEF StreamInv, EmittedInv, Emitted
      <4>2. total = SimulatedLayers * SumTo(ItemCounts(Items), Len(Items)) /\ total \in Nat
        BY <1>0, <2>1, <3>1, TotalFacts DEF StreamInv, CountedInv
      <4> QED
        BY <4>1, <4>2
    <3>2. CASE granularity = "template"
      <4> DEFINE n == Len(Items)  a == Profiles[template].tiles  b == CommandsPerTile(template)
      <4>1. total = n * a * b /\ template \in DOMAIN Profiles
        BY <2>1, <3>2 DEF StreamInv, CountedInv, TotalBursts
      <4>2. Len(pending) = (n + 1 - 1) * (a * b)
        BY <2>1, <2>4, <3>2 DEF StreamInv, EmittedInv
      <4>3. a \in Nat /\ b \in Nat /\ n \in Nat
        <5>1. TileBursts(template) \in Seq(Burst) /\ Len(TileBursts(template)) = b
          BY <4>1, TileBurstsFacts
        <5> QED
          BY <1>0, <4>1, <5>1, ProfileType
      <4> HIDE DEF n, a, b
      <4>4. (n + 1 - 1) * (a * b) = n * a * b
        BY <4>3
      <4> QED
        BY <4>1, <4>2, <4>4
    <3> QED
      BY <3>1, <3>2
  <2> QED
    BY <2>1, <2>2, <2>3, <2>5 DEF StreamInv, EmittedInv
<1>8. CASE UNCHANGED vars
  <2>0. USE <1>8 DEF vars
  <2>1. MacroInv'
    BY MacroKept DEF StreamInv
  <2>2. CountedInv'
    BY ZenonT(60) DEF StreamInv, CountedInv, Items, DraftWorkItems, TreeStep, TotalBursts, TotalTransactions,
           OpTransactions, AggregateMicro, SimulatedLayers, CollapseLayers
  <2>3. EmittedInv'
    <3>1. Items' = Items
      BY DEF Items, DraftWorkItems, TreeStep
    <3>2. \A a, b, c : Emitted(Items, a, b, c)' = Emitted(Items, a, b, c)
      BY <3>1 DEF Emitted, ItemCounts, OpCounts, OpTransactions, AggregateMicro,
                  SimulatedLayers, CollapseLayers
    <3>3. SimulatedLayers' = SimulatedLayers
      BY DEF SimulatedLayers, CollapseLayers
    <3> QED
      BY <3>1, <3>2, <3>3 DEF StreamInv, EmittedInv
  <2> QED
    BY <2>1, <2>2, <2>3 DEF StreamInv
<1> QED
  BY <1>2, <1>3, <1>4, <1>5, <1>6, <1>7, <1>8 DEF Next

\* When Host waits at the barrier exactly the final draft command carries
\* `last' (host.cpp:298 and 344), for every control record, model profile and
\* granularity: the loops that count and the loops that emit agree.
THEOREM DraftEndsOnce == Spec => []LastMarksTheEnd
<1>1. StreamInv => LastMarksTheEnd
  <2> SUFFICES ASSUME StreamInv, pc = "wait"
               PROVE  /\ \A i \in DOMAIN pending : pending[i].last <=> i = Len(pending)
                      /\ granularity # "template" => pending # <<>>
    BY DEF LastMarksTheEnd
  <2>1. DOMAIN pending = 1..Len(pending) /\ Len(pending) = total
    BY DEF StreamInv
  <2>2. granularity # "template" => Len(pending) # 0
    BY <2>1 DEF StreamInv, CountedInv
  <2> QED
    BY <2>1, <2>2 DEF StreamInv
<1> QED
  BY <1>1, StreamStart, StreamStep, PTL DEF Spec

-----------------------------------------------------------------------------
(* The latency of a macro command.                                         *)

\* Twice the latency of the commands of one tile, with the half nanosecond of each.
Halves(op) == [k \in DOMAIN Profiles[op].cmds |->
                 Profiles[op].cmds[k].count * (2 * Profiles[op].cmds[k].delay + 1)]

\* The sums of the delays and of the counts are the sum of the halves.
LEMMA HalvesSum ==
  ASSUME NEW op \in DOMAIN Profiles, NEW tiles \in Nat
  PROVE  /\ Sum(Halves(op)) \in Nat
         /\ ScaledTotal(op, tiles) = LayerMultiplier * tiles * Profiles[op].num * Sum(Halves(op))
<1> DEFINE p == Profiles[op]  n == Len(p.cmds)
           delays == [i \in DOMAIN p.cmds |-> p.cmds[i].delay * p.cmds[i].count]
           counts == [i \in DOMAIN p.cmds |-> p.cmds[i].count]
           halves == Halves(op)
<1>1. /\ p.num \in Nat /\ n \in Nat /\ DOMAIN p.cmds = 1..n
      /\ DOMAIN delays = 1..n /\ DOMAIN counts = 1..n /\ DOMAIN halves = 1..n
  BY ProfileType DEF Halves
<1>2. ASSUME NEW i \in 1..n
      PROVE  /\ delays[i] \in Nat /\ counts[i] \in Nat /\ halves[i] \in Nat
             /\ halves[i] = 2 * delays[i] + counts[i]
  <2> DEFINE x == p.cmds[i].delay  y == p.cmds[i].count
  <2>1. x \in Nat /\ y \in Nat
    BY ProfileType
  <2>2. delays[i] = x * y /\ counts[i] = y /\ halves[i] = y * (2 * x + 1)
    BY <1>1 DEF Halves
  <2> HIDE DEF x, y, delays, counts, halves
  <2>3. x * y \in Nat /\ y * (2 * x + 1) = 2 * (x * y) + y
    BY <2>1
  <2> DEFINE z == x * y
  <2>4. z \in Nat /\ 2 * z + y \in Nat
    BY <2>1, <2>3
  <2> QED
    BY <2>1, <2>2, <2>3, <2>4
<1>3. SummedDelay(op, tiles) = Sum(delays) * tiles * LayerMultiplier
  BY DEF SummedDelay
<1>4. MicroCommands(op, tiles) = Sum(counts) * tiles * LayerMultiplier
  BY DEF MicroCommands, CommandsPerTile
<1> HIDE DEF delays, counts, halves, n
<1>5. Sum(delays) = SumTo(delays, n) /\ Sum(counts) = SumTo(counts, n) /\ Sum(halves) = SumTo(halves, n)
  BY <1>1, SumIsSumTo
<1>6. Sum(delays) \in Nat /\ Sum(counts) \in Nat /\ Sum(halves) \in Nat
  BY <1>1, <1>2, <1>5, SumToType
<1>7. SumTo(halves, n) = 2 * SumTo(delays, n) + SumTo(counts, n)
  <2>1. Linear(2, delays, counts, halves, n)
    BY <1>2 DEF Linear
  <2> QED
    BY <1>1, <2>1, SumToLinear
<1>8. Sum(halves) = 2 * Sum(delays) + Sum(counts)
  BY <1>5, <1>7
<1>9. \A d, c, t, m, x \in Nat :
        (2 * (d * t * m) + c * t * m) * x = m * t * x * (2 * d + c)
  OBVIOUS
<1> QED
  BY <1>1, <1>3, <1>4, <1>6, <1>8, <1>9, LayerTypes, SMTT(60) DEF ScaledTotal, halves

\* Rounding: the delay of a macro, in half nanoseconds and scaled back, is the
\* latency it stands for to within half a nanosecond.
LEMMA MacroRounds ==
  ASSUME NEW m \in Nat, NEW d \in Nat \ {0}, NEW q,
         q = IF m - d <= 0 THEN 0 ELSE Round(m - d, 2 * d)
  PROVE  /\ q \in Nat /\ d * (2 * q + 1) - m \in -d..d
         /\ \A w \in Nat \ {0} : m < 2 * d * w => q < w
<1>1. CASE m - d <= 0
  <2>1. q = 0
    BY <1>1
  <2> QED
    BY <1>1, <2>1
<1>2. CASE ~(m - d <= 0)
  <2> DEFINE e == 2 * d  r == m % e  v == m \div e
  <2>1. q = (2 * (m - d) + 2 * d) \div (2 * (2 * d))
    BY <1>2 DEF Round
  <2>2. e \in Nat \ {0} /\ 2 * (m - d) + 2 * d = 2 * m /\ 2 * (2 * d) = 2 * e
    OBVIOUS
  <2> HIDE DEF e
  <2>3. v \in Int /\ r \in 0..(e - 1) /\ m = e * v + r
    BY <2>2
  <2> HIDE DEF v, r
  <2>4. q = (2 * m) \div (2 * e)
    BY <2>1, <2>2
  <2>5. q = v
    <3> DEFINE a == 2 * m  b == 2 * e  x == a \div b  y == a % b
    <3>1. a \in Nat /\ b \in Nat \ {0} /\ a = b * v + 2 * r
      BY <2>2, <2>3
    <3>2. 2 * r \in 0..(b - 1)
      BY <2>2, <2>3
    <3> HIDE DEF a, b
    <3>3. x \in Int /\ y \in 0..(b - 1) /\ a = b * x + y
      BY <3>1
    <3> HIDE DEF x, y
    <3>4. b * (x - v) = 2 * r - y
      BY <2>3, <3>1, <3>3
    <3> DEFINE z == x - v
    <3>5. z \in Int /\ b * z < b /\ b * z > -b
      BY <2>3, <3>1, <3>2, <3>3, <3>4
    <3> HIDE DEF z
    <3>6. z = 0
      BY <3>1, <3>5
    <3>7. x = v
      BY <2>3, <3>3, <3>6 DEF z
    <3> QED
      BY <2>4, <3>7 DEF a, b, x
  <2>6. v \in Nat
    <3>1. ~(v <= -1)
      <4> SUFFICES ASSUME v <= -1 PROVE FALSE
        OBVIOUS
      <4>1. e * v <= -e
        BY <2>2, <2>3
      <4> QED
        BY <2>2, <2>3, <4>1
    <3> QED
      BY <2>3, <3>1
  <2>7. d * (2 * q + 1) = e * v + d
    BY <2>5, <2>6 DEF e
  <2>8. d * (2 * q + 1) - m \in -d..d
    <3> DEFINE y == e * v
    <3>1. y \in Nat
      BY <2>2, <2>6
    <3> HIDE DEF y
    <3>2. d * (2 * q + 1) - m = d - r /\ r \in 0..(2 * d - 1)
      BY <2>3, <2>7, <3>1 DEF y, e
    <3> QED
      BY <3>2
  <2>9. ASSUME NEW w \in Nat \ {0}, m < 2 * d * w PROVE q < w
    <3>1. m < e * w
      BY <2>9 DEF e
    <3>2. e * v < e * w
      <4> DEFINE y == e * v  z == e * w
      <4>1. y \in Nat /\ z \in Nat
        BY <2>2, <2>6
      <4> HIDE DEF y, z
      <4>2. y < z
        BY <2>3, <3>1, <4>1 DEF y, z
      <4> QED
        BY <4>2 DEF y, z
    <3>3. v < w
      <4> SUFFICES ASSUME w <= v PROVE FALSE
        BY <2>6
      <4>1. e * w <= e * v
        BY <2>2, <2>6
      <4> QED
        BY <2>2, <2>6, <3>2, <4>1
    <3> QED
      BY <2>5, <3>3
  <2> QED
    BY <2>5, <2>6, <2>8, <2>9
<1> QED
  BY <1>1, <1>2

\* Every queued macro command lasts as long as the micro commands it stands
\* for, to within half a nanosecond (host.cpp:284-297), for every profile,
\* scale and context whose tile count and latency fit in an unsigned int.
THEOREM MacroLatencyKept == Spec => []MacroKeepsLatency
<1>1. StreamInv => MacroKeepsLatency
  <2> SUFFICES ASSUME StreamInv, AggregateMicro, NEW i \in DOMAIN pending
               PROVE  LET t     == pending[i]
                          p     == Profiles[t.op]
                          tiles == p.tiles * DraftAttentionTiles(t.op, t.item)
                          micro == LayerMultiplier * tiles * p.num *
                                   Sum([k \in DOMAIN p.cmds |-> p.cmds[k].count * (2 * p.cmds[k].delay + 1)])
                          macro == p.den * (2 * t.delay + 1)
                      IN tiles < Word /\ micro < 2 * p.den * Word => macro - micro \in -p.den..p.den
    BY Zenon DEF MacroKeepsLatency
  <2> DEFINE t == pending[i]  op == t.op  p == Profiles[op]
             tiles == p.tiles * DraftAttentionTiles(op, t.item)
             micro == LayerMultiplier * tiles * p.num * Sum(Halves(op))
             delay == MacroDelay(op, tiles)
  <2>1. i \in 1..Len(pending) /\ t \in Command
    BY DEF StreamInv
  <2>2. op \in DOMAIN Profiles /\ t.item \in WorkItem
    BY <2>1 DEF Command
  <2>3. p.den \in Nat \ {0} /\ p.num \in Nat /\ p.tiles \in Nat
    BY <2>2, ProfileType
  <2>4. DraftAttentionTiles(op, t.item) \in Nat
    BY <2>2, CountTypes
  <2>5. tiles \in Nat
    BY <2>3, <2>4
  <2>6. tiles < Word => t.delay = U32(delay)
    <3>1. tiles < Word => TileCount(op, t.item) = tiles
      BY <2>5, U32Facts DEF TileCount
    <3> QED
      BY <2>1, <3>1 DEF StreamInv, MacroInv
  <2>7. micro = ScaledTotal(op, tiles) /\ Sum(Halves(op)) \in Nat
    BY <2>2, <2>5, HalvesSum
  <2>8. micro \in Nat
    <3>1. \A a, b, c, d \in Nat : a * b * c * d \in Nat
      OBVIOUS
    <3> QED
      BY <2>3, <2>5, <2>7, <3>1, LayerTypes
  <2>9. delay = IF micro - p.den <= 0 THEN 0 ELSE Round(micro - p.den, 2 * p.den)
    BY <2>7 DEF MacroDelay
  <2>10. /\ delay \in Nat /\ p.den * (2 * delay + 1) - micro \in -p.den..p.den
         /\ micro < 2 * p.den * Word => delay < Word
    <3> DEFINE d == p.den
    <3>1. d \in Nat \ {0} /\ delay = IF micro - d <= 0 THEN 0 ELSE Round(micro - d, 2 * d)
      BY <2>3, <2>9
    <3> HIDE DEF delay, micro, d
    <3>2. /\ delay \in Nat /\ d * (2 * delay + 1) - micro \in -d..d
          /\ \A w \in Nat \ {0} : micro < 2 * d * w => delay < w
      BY <2>8, <3>1, MacroRounds
    <3> QED
      BY <3>2, DraftAssumption DEF d
  <2>11. tiles < Word /\ micro < 2 * p.den * Word => t.delay = delay
    BY <2>6, <2>10, U32Facts
  <2> QED
    BY <2>10, <2>11 DEF Halves
<1> QED
  BY <1>1, StreamStart, StreamStep, PTL DEF Spec
=============================================================================
