------------------------ MODULE Subsequences_proofs -------------------------
(***************************************************************************)
(* What Only computes, for every sequence and every set, and the lemmas    *)
(* about sequences and sums that the proofs of several components share.   *)
(*                                                                         *)
(* Induction is done by the least counterexample: a set of naturals that   *)
(* is not empty has a least element (Least), which needs no operator       *)
(* parameter.                                                              *)
(***************************************************************************)
EXTENDS Subsequences, SequencesExt, Functions, FiniteSetTheorems, SequenceTheorems,
        WellFoundedInduction, TLAPS

\* Every non-empty set of natural numbers has a least element.
LEMMA Least ==
  ASSUME NEW T \in SUBSET Nat, T # {}
  PROVE  \E x \in T : \A y \in T : x <= y
<1>1. \E x \in T : \A y \in T : ~(<<y, x>> \in OpToRel(<, Nat))
  BY WFMin, NatLessThanWellFounded, Zenon
<1>2. ASSUME NEW x \in Nat, NEW y \in Nat, ~(<<y, x>> \in OpToRel(<, Nat))
      PROVE  x <= y
  <2>1. ~(y < x)
    BY <1>2, Zenon DEF OpToRel
  <2> QED
    BY <2>1
<1> QED
  BY <1>1, <1>2

-----------------------------------------------------------------------------
(* Concatenation, each law under a name: the provers instantiate a law for *)
(* a set of entries once its body is hidden.                               *)

Concatenates(T)      == \A v, w \in Seq(T) : v \o w \in Seq(T)
Associates(T)  == \A u, v, w \in Seq(T) : (u \o v) \o w = u \o (v \o w)
HasUnit(T)     == \A v \in Seq(T) : v \o <<>> = v /\ <<>> \o v = v
PushesLast(T)  == \A v, w \in Seq(T) : \A e \in T : Append(v \o w, e) = v \o Append(w, e)
PopsFirst(T)   == \A v, w \in Seq(T) : v # <<>> => Tail(v \o w) = Tail(v) \o w
SplitsFirst(T) == \A v \in Seq(T) :
                    v # <<>> => /\ Head(v) \in T /\ Tail(v) \in Seq(T)
                                /\ <<Head(v)>> \in Seq(T) /\ v = <<Head(v)>> \o Tail(v)

\* The laws of concatenation, push_back and pop_front.
LEMMA ConcatLaws ==
  \A T : /\ Concatenates(T) /\ Associates(T) /\ HasUnit(T)
         /\ PushesLast(T) /\ PopsFirst(T) /\ SplitsFirst(T)
<1> TAKE T
<1>1. Concatenates(T)
  BY DEF Concatenates
<1>2. Associates(T)
  BY DEF Associates
<1>3. HasUnit(T)
  BY DEF HasUnit
<1>4. PushesLast(T)
  BY DEF PushesLast
<1>5. PopsFirst(T)
  BY DEF PopsFirst
<1>6. SplitsFirst(T)
  BY DEF SplitsFirst
<1> QED
  BY <1>1, <1>2, <1>3, <1>4, <1>5, <1>6

\* The first of a queue joins the back of the one before it.
PushesBetween(T) == \A u, v, w \in Seq(T) : \A e \in T :
  (u \o Append(v, e)) \o w = (u \o v) \o (<<e>> \o w)

\* Pushing at the end of the left part is pushing at the front of the right part.
LEMMA PushLaw == \A T : PushesBetween(T)
<1> TAKE T
<1>0. Associates(T) /\ Concatenates(T)
  BY ConcatLaws
<1>1. ASSUME NEW u \in Seq(T), NEW v \in Seq(T), NEW w \in Seq(T), NEW e \in T
      PROVE  (u \o Append(v, e)) \o w = (u \o v) \o (<<e>> \o w)
  <2>1. <<e>> \in Seq(T) /\ Append(v, e) = v \o <<e>>
    BY AppendIsConcat
  <2>2. u \o (v \o <<e>>) = (u \o v) \o <<e>> /\ u \o v \in Seq(T)
    BY <1>0, <2>1, ZenonT(30) DEF Associates, Concatenates
  <2>3. ((u \o v) \o <<e>>) \o w = (u \o v) \o (<<e>> \o w)
    BY <1>0, <2>1, <2>2, Zenon DEF Associates
  <2> QED
    BY <2>1, <2>2, <2>3, Zenon
<1> QED
  BY <1>1, Zenon DEF PushesBetween

\* A queue is what is taken from its front followed by what is left.
LEMMA CutSeq ==
  ASSUME NEW T, NEW s \in Seq(T), NEW d \in 0..Len(s)
  PROVE  /\ SubSeq(s, 1, d) \in Seq(T) /\ Len(SubSeq(s, 1, d)) = d
         /\ SubSeq(s, d + 1, Len(s)) \in Seq(T)
         /\ Len(SubSeq(s, d + 1, Len(s))) = Len(s) - d
         /\ SubSeq(s, 1, d) \o SubSeq(s, d + 1, Len(s)) = s
<1> DEFINE n == Len(s)
<1>1. n \in Nat /\ d \in 0..n /\ \A i \in 1..n : s[i] \in T
  BY LenProperties, ElementOfSeq
<1> HIDE DEF n
<1> DEFINE p == SubSeq(s, 1, d)  q == SubSeq(s, d + 1, n)
<1>2. p \in Seq(T) /\ Len(p) = d /\ \A i \in 1..d : p[i] = s[i]
  BY <1>1, SubSeqProperties
<1>3. q \in Seq(T) /\ Len(q) = n - d /\ \A i \in 1..(n - d) : q[i] = s[d + i]
  <2>1. \A i \in (d + 1)..n : s[i] \in T
    BY <1>1
  <2>2. /\ q \in Seq(T) /\ Len(q) = IF d + 1 <= n THEN n - (d + 1) + 1 ELSE 0
        /\ \A i \in 1..(n - (d + 1) + 1) : q[i] = s[(d + 1) + i - 1]
    <3>1. d + 1 \in Int /\ n \in Int
      BY <1>1
    <3> QED
      BY <2>1, <3>1, SubSeqProperties
  <2> HIDE DEF q
  <2> QED
    BY <1>1, <2>2
<1> HIDE DEF p, q
<1>4. /\ p \o q \in Seq(T) /\ Len(p \o q) = n
      /\ \A i \in 1..n : (p \o q)[i] = IF i <= d THEN p[i] ELSE q[i - d]
  <2>1. /\ p \o q \in Seq(T) /\ Len(p \o q) = Len(p) + Len(q)
        /\ \A i \in 1..(Len(p) + Len(q)) :
             (p \o q)[i] = IF i <= Len(p) THEN p[i] ELSE q[i - Len(p)]
    BY <1>2, <1>3, ConcatProperties
  <2>2. Len(p) + Len(q) = n
    BY <1>1, <1>2, <1>3
  <2> QED
    BY <1>2, <2>1, <2>2, Zenon
<1>5. \A i \in 1..n : (p \o q)[i] = s[i]
  <2> DEFINE r == p \o q
  <2>1. \A i \in 1..n : r[i] = IF i <= d THEN p[i] ELSE q[i - d]
    BY <1>4
  <2> HIDE DEF r
  <2>2. \A i \in 1..n : r[i] = s[i]
    BY <1>1, <1>2, <1>3, <2>1
  <2> QED
    BY <2>2 DEF r
<1>6. p \o q = s
  BY <1>4, <1>5, SeqEqual DEF n
<1> QED
  BY <1>2, <1>3, <1>6 DEF p, q, n

-----------------------------------------------------------------------------
(* The table of partial results behind Only                                *)

Body(s, S, f, i) ==
  IF i = 0 THEN <<>>
  ELSE IF s[i] \in S THEN Append(f[i - 1], s[i]) ELSE f[i - 1]

Table(s, S, f, n) == f = [i \in 0..n |-> Body(s, S, f, i)]

\* The recursion has a solution up to every length.
LEMMA TableExists ==
  ASSUME NEW s, NEW S, NEW n \in Nat
  PROVE  \E f : Table(s, S, f, n)
<1> DEFINE Bad == {m \in Nat : ~ \E f : Table(s, S, f, m)}
<1>1. SUFFICES ASSUME Bad # {} PROVE FALSE
  OBVIOUS
<1>2. PICK x \in Bad : \A y \in Bad : x <= y
  BY <1>1, Least
<1>3. x # 0
  <2>1. Table(s, S, [i \in 0..0 |-> <<>>], 0)
    BY DEF Table, Body
  <2> QED
    BY <2>1
<1>4. x - 1 \in Nat /\ x - 1 \notin Bad
  BY <1>2, <1>3
<1>5. PICK f : Table(s, S, f, x - 1)
  BY <1>4
<1> DEFINE g == [i \in 0..x |-> IF i < x THEN f[i] ELSE Body(s, S, f, x)]
<1>6. Table(s, S, g, x)
  <2>1. ASSUME NEW i \in 0..x
        PROVE  g[i] = Body(s, S, g, i)
    <3>1. CASE i < x
      <4>1. f[i] = Body(s, S, f, i)
        BY <1>5, <1>4, <3>1, SMTT(30) DEF Table
      <4>2. i # 0 => g[i - 1] = f[i - 1]
        BY <3>1
      <4> QED
        BY <3>1, <4>1, <4>2 DEF Body
    <3>2. CASE i = x
      <4>1. g[i - 1] = f[i - 1]
        BY <3>2, <1>3
      <4> QED
        BY <3>2, <1>3, <4>1 DEF Body
    <3> QED
      BY <3>1, <3>2
  <2> QED
    BY <2>1 DEF Table
<1> QED
  BY <1>6, <1>2

\* Only is the last entry of such a table.
LEMMA OnlyTable ==
  ASSUME NEW s, NEW S, Len(s) \in Nat
  PROVE  \E f : Table(s, S, f, Len(s)) /\ Only(s, S) = f[Len(s)]
<1>1. Only(s, S) = (CHOOSE f : Table(s, S, f, Len(s)))[Len(s)]
  BY DEF Only, Table, Body
<1> QED
  BY <1>1, TableExists

\* Tables of two sequences agree as far as the sequences do.
LEMMA TablesAgree ==
  ASSUME NEW s, NEW t, NEW S, NEW f, NEW g, NEW m \in Nat, NEW k \in Nat, NEW n \in Nat,
         n <= m, n <= k, Table(s, S, f, m), Table(t, S, g, k),
         \A i \in 1..n : s[i] = t[i]
  PROVE  f[n] = g[n]
<1> DEFINE Bad == {i \in 0..n : f[i] # g[i]}
<1>1. SUFFICES ASSUME Bad # {} PROVE FALSE
  OBVIOUS
<1>0. Bad \in SUBSET Nat
  OBVIOUS
<1>2. PICK x \in Bad : \A y \in Bad : x <= y
  <2> HIDE DEF Bad
  <2> QED
    BY <1>0, <1>1, Least
<1>3. x \in 0..n /\ x \in 0..m /\ x \in 0..k /\ f[x] # g[x]
  BY <1>2
<1>4. \A y \in 0..n : y < x => f[y] = g[y]
  BY <1>2
<1> HIDE DEF Bad
<1>5. f[x] = Body(s, S, f, x)
  BY <1>3 DEF Table
<1>6. g[x] = Body(t, S, g, x)
  BY <1>3 DEF Table
<1>7. x # 0
  BY <1>3, <1>5, <1>6 DEF Body
<1>8. f[x - 1] = g[x - 1] /\ s[x] = t[x]
  BY <1>3, <1>4, <1>7
<1> QED
  BY <1>3, <1>5, <1>6, <1>8 DEF Body

-----------------------------------------------------------------------------
(* The equations of Only                                                   *)

\* Nothing comes of an empty queue.
LEMMA OnlyEmpty == \A S : Only(<<>>, S) = <<>>
<1> TAKE S
<1>1. PICK f : Table(<<>>, S, f, 0) /\ Only(<<>>, S) = f[0]
  BY OnlyTable
<1> QED
  BY <1>1 DEF Table, Body

\* push_back of an entry.
LEMMA OnlyAppend ==
  ASSUME NEW T, NEW s \in Seq(T), NEW e \in T, NEW S
  PROVE  Only(Append(s, e), S) = IF e \in S THEN Append(Only(s, S), e) ELSE Only(s, S)
<1> DEFINE t == Append(s, e)  n == Len(s)
<1>1. /\ n \in Nat /\ Len(t) = n + 1 /\ t[n + 1] = e
      /\ \A i \in 1..n : s[i] = t[i]
  BY AppendProperties
<1> HIDE DEF t, n
<1>2. PICK f : Table(s, S, f, n) /\ Only(s, S) = f[n]
  BY <1>1, OnlyTable DEF n
<1>3. PICK g : Table(t, S, g, n + 1) /\ Only(t, S) = g[n + 1]
  BY <1>1, OnlyTable
<1>4. f[n] = g[n]
  BY <1>1, <1>2, <1>3, TablesAgree
<1>5. g[n + 1] = Body(t, S, g, n + 1)
  BY <1>1, <1>3 DEF Table
<1> QED
  BY <1>1, <1>2, <1>3, <1>4, <1>5 DEF Body, t

\* The entries selected are of the queue and of the set.
LEMMA OnlyType ==
  ASSUME NEW T, NEW s \in Seq(T), NEW S
  PROVE  Only(s, S) \in Seq(T \cap S)
<1> DEFINE Bad == {n \in Nat : \E t \in Seq(T) : Len(t) = n /\ Only(t, S) \notin Seq(T \cap S)}
<1>1. SUFFICES ASSUME Bad # {} PROVE FALSE
  BY DEF Bad
<1>2. PICK n \in Bad : \A y \in Bad : n <= y
  BY <1>1, Least
<1>3. PICK t \in Seq(T) : Len(t) = n /\ Only(t, S) \notin Seq(T \cap S)
  BY <1>2
<1>4. \A u \in Seq(T) : Len(u) < n => Only(u, S) \in Seq(T \cap S)
  BY <1>2
<1> HIDE DEF Bad
<1>5. t # <<>>
  BY <1>3, OnlyEmpty
<1>6. PICK u \in Seq(T), e \in T : t = Append(u, e)
  BY <1>5, SequenceEmptyOrAppend
<1>7. Only(u, S) \in Seq(T \cap S)
  BY <1>3, <1>4, <1>6, AppendProperties
<1>8. Only(t, S) = IF e \in S THEN Append(Only(u, S), e) ELSE Only(u, S)
  BY <1>6, OnlyAppend
<1>9. e \in S => Append(Only(u, S), e) \in Seq(T \cap S)
  BY <1>7, AppendProperties
<1> QED
  BY <1>3, <1>7, <1>8, <1>9

\* Selection distributes over concatenation.
Distributes(T, S) == \A s, r \in Seq(T) : Only(s \o r, S) = Only(s, S) \o Only(r, S)

\* Only distributes over concatenation.
LEMMA OnlyConcat == \A T, S : Distributes(T, S)
<1> TAKE T, S
<1> SUFFICES ASSUME NEW s \in Seq(T), NEW r \in Seq(T)
             PROVE  Only(s \o r, S) = Only(s, S) \o Only(r, S)
  BY DEF Distributes
<1> DEFINE Bad == {n \in Nat : \E t \in Seq(T) :
                     Len(t) = n /\ Only(s \o t, S) # Only(s, S) \o Only(t, S)}
<1>1. SUFFICES ASSUME Bad # {} PROVE FALSE
  BY DEF Bad
<1>2. PICK n \in Bad : \A y \in Bad : n <= y
  BY <1>1, Least
<1>3. PICK t \in Seq(T) : Len(t) = n /\ Only(s \o t, S) # Only(s, S) \o Only(t, S)
  BY <1>2
<1>4. \A u \in Seq(T) : Len(u) < n => Only(s \o u, S) = Only(s, S) \o Only(u, S)
  BY <1>2
<1> HIDE DEF Bad
<1>0. \A u \in Seq(T) : Only(u, S) \in Seq(T)
  <2> TAKE u \in Seq(T)
  <2>1. Only(u, S) \in Seq(T \cap S)
    BY OnlyType
  <2> QED
    BY <2>1
<1>5. t # <<>>
  <2>1. s \o <<>> = s /\ Only(s, S) \o <<>> = Only(s, S)
    BY <1>0, ConcatEmptySeq
  <2> QED
    BY <1>3, <2>1, OnlyEmpty
<1>6. PICK u \in Seq(T), e \in T : t = Append(u, e)
  BY <1>5, SequenceEmptyOrAppend
<1>7. Only(s \o u, S) = Only(s, S) \o Only(u, S)
  BY <1>3, <1>4, <1>6, AppendProperties
<1>8. /\ s \o u \in Seq(T)
      /\ \A v, w \in Seq(T) : Append(v \o w, e) = v \o Append(w, e)
  <2>1. s \o u \in Seq(T)
    BY ConcatProperties
  <2>2. PushesLast(T)
    BY ConcatLaws
  <2>3. \A v, w \in Seq(T) : Append(v \o w, e) = v \o Append(w, e)
    BY <2>2, Zenon DEF PushesLast
  <2> QED
    BY <2>1, <2>3
<1>9. Only(s \o t, S) = IF e \in S THEN Append(Only(s \o u, S), e) ELSE Only(s \o u, S)
  <2>1. Only(Append(s \o u, e), S)
          = IF e \in S THEN Append(Only(s \o u, S), e) ELSE Only(s \o u, S)
    BY <1>6, <1>8, OnlyAppend
  <2> QED
    BY <1>6, <1>8, <2>1
<1>10. Only(t, S) = IF e \in S THEN Append(Only(u, S), e) ELSE Only(u, S)
  BY <1>6, OnlyAppend
<1>11. Append(Only(s, S) \o Only(u, S), e) = Only(s, S) \o Append(Only(u, S), e)
  BY <1>0, <1>8
<1> QED
  BY <1>3, <1>7, <1>9, <1>10, <1>11

\* One entry alone.
LEMMA OnlyOne ==
  ASSUME NEW T, NEW e \in T, NEW S
  PROVE  Only(<<e>>, S) = IF e \in S THEN <<e>> ELSE <<>>
<1>1. <<e>> = Append(<<>>, e) /\ <<>> \in Seq(T)
  OBVIOUS
<1>2. Only(Append(<<>>, e), S) = IF e \in S THEN Append(Only(<<>>, S), e) ELSE Only(<<>>, S)
  BY <1>1, OnlyAppend
<1> QED
  BY <1>1, <1>2, OnlyEmpty

\* pop_front of an entry.
LEMMA OnlyHead ==
  ASSUME NEW T, NEW s \in Seq(T), s # <<>>, NEW S
  PROVE  Only(s, S) = (IF Head(s) \in S THEN <<Head(s)>> ELSE <<>>) \o Only(Tail(s), S)
<1>1. Head(s) \in T /\ Tail(s) \in Seq(T) /\ s = <<Head(s)>> \o Tail(s)
  OBVIOUS
<1>2. <<Head(s)>> \in Seq(T)
  BY <1>1
<1>3. \A u, v \in Seq(T) : Only(u \o v, S) = Only(u, S) \o Only(v, S)
  <2>1. Distributes(T, S)
    BY OnlyConcat
  <2> QED
    BY <2>1, Zenon DEF Distributes
<1>4. Only(<<Head(s)>>, S) = IF Head(s) \in S THEN <<Head(s)>> ELSE <<>>
  BY <1>1, OnlyOne
<1> QED
  BY <1>1, <1>2, <1>3, <1>4, Zenon

\* A queue whose entries are all in the set is kept as it is.
LEMMA OnlyAll ==
  ASSUME NEW T, NEW s \in Seq(T), NEW S, \A i \in 1..Len(s) : s[i] \in S
  PROVE  Only(s, S) = s
<1> DEFINE Bad == {n \in Nat : \E t \in Seq(T) :
                     /\ Len(t) = n
                     /\ \A i \in 1..n : t[i] \in S
                     /\ Only(t, S) # t}
<1>1. SUFFICES ASSUME Bad # {} PROVE FALSE
  BY DEF Bad
<1>2. PICK n \in Bad : \A y \in Bad : n <= y
  BY <1>1, Least
<1>3. PICK t \in Seq(T) : Len(t) = n /\ (\A i \in 1..n : t[i] \in S) /\ Only(t, S) # t
  BY <1>2
<1>4. ASSUME NEW u \in Seq(T), Len(u) < n, \A i \in 1..Len(u) : u[i] \in S
      PROVE  Only(u, S) = u
  BY <1>2, <1>4
<1> HIDE DEF Bad
<1>5. t # <<>>
  BY <1>3, OnlyEmpty
<1>6. PICK u \in Seq(T), e \in T : t = Append(u, e)
  BY <1>5, SequenceEmptyOrAppend
<1>7. Len(u) \in Nat /\ n = Len(u) + 1 /\ t[n] = e /\ \A i \in 1..Len(u) : u[i] = t[i]
  BY <1>3, <1>6, AppendProperties
<1>8. Only(u, S) = u
  BY <1>3, <1>4, <1>7
<1>9. e \in S
  BY <1>3, <1>7
<1> QED
  BY <1>3, <1>6, <1>8, <1>9, OnlyAppend

\* A queue with no entry in the set gives nothing.
LEMMA OnlyNone ==
  ASSUME NEW T, NEW s \in Seq(T), NEW S, \A i \in 1..Len(s) : s[i] \notin S
  PROVE  Only(s, S) = <<>>
<1> DEFINE Bad == {n \in Nat : \E t \in Seq(T) :
                     /\ Len(t) = n
                     /\ \A i \in 1..n : t[i] \notin S
                     /\ Only(t, S) # <<>>}
<1>1. SUFFICES ASSUME Bad # {} PROVE FALSE
  BY DEF Bad
<1>2. PICK n \in Bad : \A y \in Bad : n <= y
  BY <1>1, Least
<1>3. PICK t \in Seq(T) : Len(t) = n /\ (\A i \in 1..n : t[i] \notin S) /\ Only(t, S) # <<>>
  BY <1>2
<1>4. ASSUME NEW u \in Seq(T), Len(u) < n, \A i \in 1..Len(u) : u[i] \notin S
      PROVE  Only(u, S) = <<>>
  BY <1>2, <1>4
<1> HIDE DEF Bad
<1>5. t # <<>>
  BY <1>3, OnlyEmpty
<1>6. PICK u \in Seq(T), e \in T : t = Append(u, e)
  BY <1>5, SequenceEmptyOrAppend
<1>7. Len(u) \in Nat /\ n = Len(u) + 1 /\ t[n] = e /\ \A i \in 1..Len(u) : u[i] = t[i]
  BY <1>3, <1>6, AppendProperties
<1>8. Only(u, S) = <<>>
  BY <1>3, <1>4, <1>7
<1>9. e \notin S
  BY <1>3, <1>7
<1> QED
  BY <1>3, <1>6, <1>8, <1>9, OnlyAppend

\* A set and its complement split a queue without loss.
LEMMA OnlyPartition ==
  ASSUME NEW T, NEW s \in Seq(T), NEW S, NEW R,
         \A e \in T : e \in R <=> e \notin S
  PROVE  Len(s) = Len(Only(s, S)) + Len(Only(s, R))
<1> DEFINE Bad == {n \in Nat : \E t \in Seq(T) :
                     Len(t) = n /\ n # Len(Only(t, S)) + Len(Only(t, R))}
<1>1. SUFFICES ASSUME Bad # {} PROVE FALSE
  BY DEF Bad
<1>2. PICK n \in Bad : \A y \in Bad : n <= y
  BY <1>1, Least
<1>3. PICK t \in Seq(T) : Len(t) = n /\ n # Len(Only(t, S)) + Len(Only(t, R))
  BY <1>2
<1>4. \A u \in Seq(T) : Len(u) < n => Len(u) = Len(Only(u, S)) + Len(Only(u, R))
  BY <1>2
<1> HIDE DEF Bad
<1>5. t # <<>>
  BY <1>3, OnlyEmpty
<1>6. PICK u \in Seq(T), e \in T : t = Append(u, e)
  BY <1>5, SequenceEmptyOrAppend
<1>7. Len(u) \in Nat /\ n = Len(u) + 1
  BY <1>3, <1>6, AppendProperties
<1>8. Len(u) = Len(Only(u, S)) + Len(Only(u, R))
  BY <1>4, <1>7
<1>9. Only(u, S) \in Seq(T \cap S) /\ Only(u, R) \in Seq(T \cap R)
  BY OnlyType
<1>10. Len(Only(t, S)) = IF e \in S THEN Len(Only(u, S)) + 1 ELSE Len(Only(u, S))
  BY <1>6, <1>9, OnlyAppend
<1>11. Len(Only(t, R)) = IF e \in R THEN Len(Only(u, R)) + 1 ELSE Len(Only(u, R))
  BY <1>6, <1>9, OnlyAppend
<1>12. Len(Only(u, S)) \in Nat /\ Len(Only(u, R)) \in Nat
  BY <1>9, LenProperties
<1>13. e \in R <=> e \notin S
  OBVIOUS
<1> HIDE DEF Bad
<1>14. CASE e \in S
  <2>1. Len(Only(t, S)) = Len(Only(u, S)) + 1 /\ Len(Only(t, R)) = Len(Only(u, R))
    BY <1>10, <1>11, <1>13, <1>14
  <2> QED
    BY <1>3, <1>7, <1>8, <1>12, <2>1
<1>15. CASE e \notin S
  <2>1. Len(Only(t, S)) = Len(Only(u, S)) /\ Len(Only(t, R)) = Len(Only(u, R)) + 1
    BY <1>10, <1>11, <1>13, <1>15
  <2> QED
    BY <1>3, <1>7, <1>8, <1>12, <2>1
<1> QED
  BY <1>14, <1>15

\* What is left of a queue is a queue of the same kind, and has a length.
LEMMA OnlySeq ==
  ASSUME NEW T, NEW s \in Seq(T), NEW S
  PROVE  Only(s, S) \in Seq(T) /\ Len(Only(s, S)) \in Nat
<1>1. Only(s, S) \in Seq(T \cap S)
  BY OnlyType
<1> DEFINE r == Only(s, S)
<1> HIDE DEF r
<1>2. r \in Seq(T) /\ Len(r) \in Nat
  BY <1>1 DEF r
<1> QED
  BY <1>2 DEF r

\* A condition within a condition.
LEMMA OnlyOnly ==
  ASSUME NEW T, NEW s \in Seq(T), NEW S, NEW R, NEW Q,
         \A e \in T : e \in Q <=> e \in S /\ e \in R
  PROVE  Only(Only(s, S), R) = Only(s, Q)
<1> DEFINE Bad == {n \in Nat : \E t \in Seq(T) :
                     Len(t) = n /\ Only(Only(t, S), R) # Only(t, Q)}
<1>1. SUFFICES ASSUME Bad # {} PROVE FALSE
  BY DEF Bad
<1>2. PICK n \in Bad : \A y \in Bad : n <= y
  BY <1>1, Least
<1>3. PICK t \in Seq(T) : Len(t) = n /\ Only(Only(t, S), R) # Only(t, Q)
  BY <1>2
<1>4. \A u \in Seq(T) : Len(u) < n => Only(Only(u, S), R) = Only(u, Q)
  BY <1>2
<1> HIDE DEF Bad
<1>5. t # <<>>
  BY <1>3, OnlyEmpty
<1>6. PICK u \in Seq(T), e \in T : t = Append(u, e)
  BY <1>5, SequenceEmptyOrAppend
<1>7. Len(u) \in Nat /\ n = Len(u) + 1
  BY <1>3, <1>6, AppendProperties
<1>8. Only(Only(u, S), R) = Only(u, Q)
  BY <1>4, <1>7
<1>9. Only(u, S) \in Seq(T)
  BY OnlySeq
<1>10. CASE e \in S
  <2>1. Only(t, S) = Append(Only(u, S), e)
    BY <1>6, <1>10, OnlyAppend
  <2>2. Only(Only(t, S), R) = IF e \in R THEN Append(Only(Only(u, S), R), e)
                                         ELSE Only(Only(u, S), R)
    BY <1>9, <2>1, OnlyAppend
  <2>3. Only(t, Q) = IF e \in R THEN Append(Only(u, Q), e)
                                       ELSE Only(u, Q)
    BY <1>6, <1>10, OnlyAppend
  <2> QED
    BY <1>3, <1>8, <2>2, <2>3
<1>11. CASE e \notin S
  <2>1. Only(t, S) = Only(u, S)
    BY <1>6, <1>11, OnlyAppend
  <2>2. Only(t, Q) = Only(u, Q)
    BY <1>6, <1>11, OnlyAppend
  <2> QED
    BY <1>3, <1>8, <2>1, <2>2
<1> QED
  BY <1>10, <1>11

\* Queues that agree, entry by entry, on who is in give the same count.
LEMMA OnlySame ==
  ASSUME NEW T, NEW s \in Seq(T), NEW r \in Seq(T), Len(r) = Len(s), NEW S, NEW R,
         \A i \in 1..Len(s) : s[i] \in S <=> r[i] \in R
  PROVE  Len(Only(s, S)) = Len(Only(r, R))
<1> DEFINE Bad == {n \in Nat : \E t, v \in Seq(T) :
                     /\ Len(t) = n /\ Len(v) = n
                     /\ \A i \in 1..n : t[i] \in S <=> v[i] \in R
                     /\ Len(Only(t, S)) # Len(Only(v, R))}
<1>1. SUFFICES ASSUME Bad # {} PROVE FALSE
  <2>1. Len(s) \in Nat
    BY LenProperties
  <2> QED
    BY <2>1 DEF Bad
<1>2. PICK n \in Bad : \A y \in Bad : n <= y
  BY <1>1, Least
<1>3. PICK t \in Seq(T), v \in Seq(T) :
        /\ Len(t) = n /\ Len(v) = n
        /\ \A i \in 1..n : t[i] \in S <=> v[i] \in R
        /\ Len(Only(t, S)) # Len(Only(v, R))
  BY <1>2
<1>4. ASSUME NEW u \in Seq(T), NEW w \in Seq(T), Len(u) < n, Len(w) = Len(u),
             \A i \in 1..Len(u) : u[i] \in S <=> w[i] \in R
      PROVE  Len(Only(u, S)) = Len(Only(w, R))
  <2>1. Len(u) \in Nat
    BY LenProperties
  <2>2. Len(u) \notin Bad
    BY <1>2, <1>4, <2>1
  <2> QED
    BY <1>4, <2>1, <2>2
<1>n. n \in Nat
  BY <1>2
<1> HIDE DEF Bad
<1>5. t # <<>> /\ v # <<>>
  <2>1. CASE n = 0
    <3>1. t = <<>> /\ v = <<>>
      BY <1>3, <2>1, EmptySeq
    <3> QED
      BY <3>1, <1>3, OnlyEmpty
  <2>2. CASE n # 0
    BY <1>3, <2>2
  <2> QED
    BY <2>1, <2>2
<1>6. PICK u \in Seq(T), e \in T : t = Append(u, e)
  BY <1>5, SequenceEmptyOrAppend
<1>7. PICK w \in Seq(T), f \in T : v = Append(w, f)
  BY <1>5, SequenceEmptyOrAppend
<1>8. /\ Len(u) \in Nat /\ n = Len(u) + 1 /\ Len(w) = Len(u) /\ t[n] = e /\ v[n] = f
      /\ \A i \in 1..Len(u) : u[i] = t[i] /\ w[i] = v[i]
  BY <1>3, <1>6, <1>7, AppendProperties
<1>9. Len(Only(u, S)) = Len(Only(w, R))
  <2>1. \A i \in 1..Len(u) : u[i] \in S <=> w[i] \in R
    <3> TAKE i \in 1..Len(u)
    <3>1. i \in 1..n
      BY <1>8
    <3> QED
      BY <1>3, <1>8, <3>1
  <2>2. Len(u) < n
    BY <1>8
  <2> QED
    BY <1>4, <1>8, <2>1, <2>2
<1>10. e \in S <=> f \in R
  BY <1>3, <1>8, <1>n
<1>11. Only(u, S) \in Seq(T) /\ Only(w, R) \in Seq(T)
  BY OnlySeq
<1>12. /\ Len(Only(t, S)) = IF e \in S THEN Len(Only(u, S)) + 1 ELSE Len(Only(u, S))
       /\ Len(Only(v, R)) = IF f \in R THEN Len(Only(w, R)) + 1 ELSE Len(Only(w, R))
  <2>1. Only(t, S) = IF e \in S THEN Append(Only(u, S), e) ELSE Only(u, S)
    BY <1>6, OnlyAppend
  <2>2. Only(v, R) = IF f \in R THEN Append(Only(w, R), f) ELSE Only(w, R)
    BY <1>7, OnlyAppend
  <2>3. Len(Only(t, S)) = IF e \in S THEN Len(Only(u, S)) + 1 ELSE Len(Only(u, S))
    BY <1>11, <2>1, AppendProperties
  <2>4. Len(Only(v, R)) = IF f \in R THEN Len(Only(w, R)) + 1 ELSE Len(Only(w, R))
    BY <1>11, <2>2, AppendProperties
  <2> QED
    BY <2>3, <2>4
<1> QED
  BY <1>3, <1>9, <1>10, <1>12

-----------------------------------------------------------------------------
(* The set of the entries, and queues without repetition                   *)

Entries(s)  == {s[i] : i \in 1..Len(s)}
Distinct(s) == \A i, j \in 1..Len(s) : s[i] = s[j] => i = j

\* push_back adds its entry.
LEMMA EntriesAppend ==
  ASSUME NEW T, NEW s \in Seq(T), NEW e \in T
  PROVE  /\ Entries(Append(s, e)) = Entries(s) \cup {e}
         /\ Distinct(s) /\ e \notin Entries(s) => Distinct(Append(s, e))
<1> DEFINE r == Append(s, e)  n == Len(s)
<1>1. /\ n \in Nat /\ Len(r) = n + 1 /\ r[n + 1] = e
      /\ \A i \in 1..n : r[i] = s[i]
  BY LenProperties, AppendProperties
<1> HIDE DEF r
<1> QED
  BY <1>1 DEF Entries, Distinct, r

\* pop_front takes the front.
LEMMA EntriesTail ==
  ASSUME NEW T, NEW s \in Seq(T), s # <<>>
  PROVE  /\ Entries(s) = {Head(s)} \cup Entries(Tail(s))
         /\ Distinct(s) => Distinct(Tail(s)) /\ Head(s) \notin Entries(Tail(s))
<1> DEFINE r == Tail(s)  n == Len(s)
<1>1. /\ n \in Nat \ {0} /\ Len(r) = n - 1 /\ s[1] = Head(s)
      /\ \A i \in 1..(n - 1) : r[i] = s[i + 1]
  BY HeadTailProperties
<1> HIDE DEF r
<1>2. \A i \in 1..n : i = 1 \/ (i - 1 \in 1..(n - 1) /\ s[i] = r[i - 1])
  BY <1>1
<1> QED
  BY <1>1, <1>2 DEF Entries, Distinct, r

\* An entry taken from any place.
Without(s, i) == SubSeq(s, 1, i - 1) \o SubSeq(s, i + 1, Len(s))

\* Where the entries of a sequence are once one place is removed.
LEMMA WithoutPlaces ==
  ASSUME NEW T, NEW s \in Seq(T), NEW i \in 1..Len(s)
  PROVE  /\ Without(s, i) \in Seq(T) /\ Len(Without(s, i)) = Len(s) - 1
         /\ \A k \in 1..(Len(s) - 1) :
              Without(s, i)[k] = IF k < i THEN s[k] ELSE s[k + 1]
<1> DEFINE p == SubSeq(s, 1, i - 1)  q == SubSeq(s, i + 1, Len(s))  n == Len(s)
<1>1. n \in Nat /\ i \in 1..n /\ \A k \in 1..n : s[k] \in T
  BY LenProperties, ElementOfSeq
<1>2. p \in Seq(T) /\ Len(p) = i - 1 /\ q \in Seq(T) /\ Len(q) = n - i
  BY <1>1, CutSeq
<1> HIDE DEF n
<1>3. \A k \in 1..(i - 1) : p[k] = s[k]
  <2>1. \A k \in 1..(i - 1) : s[k] \in T
    BY <1>1
  <2>2. 1 \in Int /\ i - 1 \in Int
    BY <1>1
  <2>3. \A k \in 1..((i - 1) - 1 + 1) : p[k] = s[1 + k - 1]
    BY <2>1, <2>2, SubSeqProperties
  <2> HIDE DEF p
  <2> QED
    BY <1>1, <2>3
<1>4. \A k \in 1..(n - i) : q[k] = s[i + k]
  <2>1. \A k \in (i + 1)..n : s[k] \in T
    BY <1>1
  <2>2. i + 1 \in Int /\ n \in Int
    BY <1>1
  <2>3. \A k \in 1..(n - (i + 1) + 1) : q[k] = s[(i + 1) + k - 1]
    BY <2>1, <2>2, SubSeqProperties DEF n
  <2> HIDE DEF q
  <2> QED
    BY <1>1, <2>3
<1> HIDE DEF p, q
<1>5. /\ p \o q \in Seq(T) /\ Len(p \o q) = Len(p) + Len(q)
      /\ \A k \in 1..(Len(p) + Len(q)) :
           (p \o q)[k] = IF k <= Len(p) THEN p[k] ELSE q[k - Len(p)]
  BY <1>2, ConcatProperties
<1>6. Len(p) + Len(q) = n - 1
  BY <1>1, <1>2
<1> DEFINE r == p \o q
<1>7. /\ r \in Seq(T) /\ Len(r) = n - 1
      /\ \A k \in 1..(n - 1) : r[k] = IF k <= i - 1 THEN p[k] ELSE q[k - (i - 1)]
  BY <1>2, <1>5, <1>6
<1> HIDE DEF r
<1>8. \A k \in 1..(n - 1) : r[k] = IF k < i THEN s[k] ELSE s[k + 1]
  <2> TAKE k \in 1..(n - 1)
  <2>1. CASE k < i
    <3>1. k <= i - 1 /\ k \in 1..(i - 1)
      BY <1>1, <2>1
    <3> QED
      BY <1>3, <1>7, <2>1, <3>1
  <2>2. CASE ~(k < i)
    <3>1. ~(k <= i - 1) /\ k - (i - 1) \in 1..(n - i) /\ i + (k - (i - 1)) = k + 1
      BY <1>1, <2>2
    <3>2. r[k] = q[k - (i - 1)]
      BY <1>7, <3>1
    <3>3. q[k - (i - 1)] = s[i + (k - (i - 1))]
      BY <1>4, <3>1
    <3> QED
      BY <2>2, <3>1, <3>2, <3>3
  <2> QED
    BY <2>1, <2>2
<1> QED
  BY <1>7, <1>8 DEF Without, p, q, r, n

\* Removing a place of a sequence takes its entry, and only that one, out of a
\* sequence without duplicates.
LEMMA EntriesWithout ==
  ASSUME NEW T, NEW s \in Seq(T), NEW i \in 1..Len(s)
  PROVE  /\ Entries(s) = Entries(Without(s, i)) \cup {s[i]}
         /\ Distinct(s) => Distinct(Without(s, i)) /\ s[i] \notin Entries(Without(s, i))
<1> DEFINE r == Without(s, i)  n == Len(s)
<1>1. /\ n \in Nat /\ i \in 1..n /\ Len(r) = n - 1
      /\ \A k \in 1..(n - 1) : r[k] = IF k < i THEN s[k] ELSE s[k + 1]
  BY LenProperties, WithoutPlaces
<1> HIDE DEF r, n
<1>2. \A k \in 1..n : \/ k < i /\ k \in 1..(n - 1) /\ s[k] = r[k]
                      \/ k = i
                      \/ k > i /\ k - 1 \in 1..(n - 1) /\ s[k] = r[k - 1]
  BY <1>1
<1>3. Entries(s) = Entries(r) \cup {s[i]}
  BY <1>1, <1>2 DEF Entries, n
<1>4. ASSUME Distinct(s) PROVE Distinct(r) /\ s[i] \notin Entries(r)
  <2>1. \A k, l \in 1..n : s[k] = s[l] => k = l
    BY <1>4 DEF Distinct, n
  <2> QED
    BY <1>1, <2>1 DEF Entries, Distinct
<1> QED
  BY <1>3, <1>4 DEF r

\* The count of a set loses what is taken.
LEMMA OnlyWithout ==
  ASSUME NEW T, NEW s \in Seq(T), NEW i \in 1..Len(s), NEW S
  PROVE  /\ Len(Only(Without(s, i), S)) \in Nat /\ Len(Only(s, S)) \in Nat
         /\ Len(Only(s, S)) = Len(Only(Without(s, i), S)) + (IF s[i] \in S THEN 1 ELSE 0)
<1> DEFINE p == SubSeq(s, 1, i - 1)  q == SubSeq(s, i, Len(s))  r == SubSeq(s, i + 1, Len(s))
<1>1. /\ p \in Seq(T) /\ q \in Seq(T) /\ p \o q = s /\ r \in Seq(T)
      /\ Len(q) = Len(s) - i + 1 /\ s[i] \in T
  <2>1. /\ Len(s) \in Nat /\ i - 1 \in 0..Len(s) /\ i \in 0..Len(s) /\ (i - 1) + 1 = i
        /\ Len(s) - (i - 1) = Len(s) - i + 1
    BY LenProperties
  <2>2. /\ SubSeq(s, 1, i - 1) \in Seq(T)
        /\ SubSeq(s, (i - 1) + 1, Len(s)) \in Seq(T)
        /\ Len(SubSeq(s, (i - 1) + 1, Len(s))) = Len(s) - (i - 1)
        /\ SubSeq(s, 1, i - 1) \o SubSeq(s, (i - 1) + 1, Len(s)) = s
    BY <2>1, CutSeq
  <2>3. SubSeq(s, i + 1, Len(s)) \in Seq(T)
    BY <2>1, CutSeq
  <2> QED
    BY <2>1, <2>2, <2>3, ElementOfSeq
<1>2. q # <<>> /\ Head(q) = s[i] /\ Tail(q) = r
  <2>1. Len(s) \in Nat /\ i \in 1..Len(s) /\ i \in Int /\ Len(s) \in Int /\ i + 1 \in Int
        /\ (\A k \in i..Len(s) : s[k] \in T) /\ (\A k \in (i + 1)..Len(s) : s[k] \in T)
    BY LenProperties, ElementOfSeq
  <2>2. \A k \in 1..(Len(s) - i + 1) : q[k] = s[i + k - 1]
    BY <2>1, SubSeqProperties
  <2>3. /\ Len(r) = IF i + 1 <= Len(s) THEN Len(s) - (i + 1) + 1 ELSE 0
        /\ \A k \in 1..(Len(s) - (i + 1) + 1) : r[k] = s[(i + 1) + k - 1]
    BY <2>1, SubSeqProperties
  <2> DEFINE n == Len(s)
  <2> HIDE DEF q, r, n
  <2>4. q # <<>> /\ Head(q) = q[1] /\ Tail(q) \in Seq(T) /\ Len(Tail(q)) = Len(q) - 1
        /\ \A k \in 1..(Len(q) - 1) : Tail(q)[k] = q[k + 1]
    BY <1>1, <2>1, HeadTailProperties, EmptySeq
  <2>5. n \in Nat /\ i \in 1..n /\ Len(q) = n - i + 1
    BY <1>1, <2>1 DEF n
  <2>6. q[1] = s[i] /\ Len(Tail(q)) = n - i /\ Len(r) = n - i
    BY <2>2, <2>3, <2>4, <2>5 DEF n
  <2>7. ASSUME NEW k \in 1..(n - i) PROVE Tail(q)[k] = r[k]
    <3>1. k \in 1..(Len(q) - 1) /\ k + 1 \in 1..(n - i + 1) /\ i + (k + 1) - 1 = i + k
          /\ k \in 1..(n - (i + 1) + 1) /\ (i + 1) + k - 1 = i + k
      BY <2>5
    <3>2. q[k + 1] = s[i + (k + 1) - 1]
      BY <2>2, <3>1 DEF n
    <3>3. r[k] = s[(i + 1) + k - 1]
      BY <2>3, <3>1 DEF n
    <3> QED
      BY <2>4, <3>1, <3>2, <3>3
  <2>8. Tail(q) = r
    BY <1>1, <2>4, <2>6, <2>7, SeqEqual
  <2> QED
    BY <2>4, <2>6, <2>8
<1> HIDE DEF p, q, r
<1>3. /\ Only(s, S) = Only(p, S) \o Only(q, S)
      /\ Only(p \o r, S) = Only(p, S) \o Only(r, S)
  <2>1. Distributes(T, S)
    BY OnlyConcat
  <2> QED
    BY <1>1, <2>1 DEF Distributes
<1>4. Only(q, S) = (IF s[i] \in S THEN <<s[i]>> ELSE <<>>) \o Only(r, S)
  BY <1>1, <1>2, OnlyHead, ZenonT(30)
<1>5. /\ Only(p, S) \in Seq(T) /\ Only(q, S) \in Seq(T) /\ Only(r, S) \in Seq(T)
  BY <1>1, OnlySeq
<1>6. Len(Only(q, S)) = Len(Only(r, S)) + (IF s[i] \in S THEN 1 ELSE 0)
  BY <1>1, <1>4, <1>5
<1>7. /\ Len(Only(s, S)) = Len(Only(p, S)) + Len(Only(q, S))
      /\ Len(Only(p \o r, S)) = Len(Only(p, S)) + Len(Only(r, S))
  BY <1>3, <1>5
<1>8. Len(Only(p, S)) \in Nat /\ Len(Only(q, S)) \in Nat /\ Len(Only(r, S)) \in Nat
  BY <1>5
<1> QED
  BY <1>6, <1>7, <1>8 DEF Without, p, r

\* The entries of the part of a queue.
LEMMA EntriesOnly ==
  ASSUME NEW T, NEW s \in Seq(T), NEW S
  PROVE  Entries(Only(s, S)) = Entries(s) \cap S
<1> DEFINE Bad == {n \in Nat : \E t \in Seq(T) :
                     Len(t) = n /\ Entries(Only(t, S)) # Entries(t) \cap S}
<1>1. SUFFICES ASSUME Bad # {} PROVE FALSE
  BY DEF Bad
<1>2. PICK n \in Bad : \A y \in Bad : n <= y
  BY <1>1, Least
<1>3. PICK t \in Seq(T) : Len(t) = n /\ Entries(Only(t, S)) # Entries(t) \cap S
  BY <1>2
<1>4. \A u \in Seq(T) : Len(u) < n => Entries(Only(u, S)) = Entries(u) \cap S
  BY <1>2
<1> HIDE DEF Bad
<1>5. t # <<>>
  <2>1. Entries(<<>>) = {}
    BY DEF Entries
  <2> QED
    BY <1>3, <2>1, OnlyEmpty
<1>6. PICK u \in Seq(T), e \in T : t = Append(u, e)
  BY <1>5, SequenceEmptyOrAppend
<1>7. Len(u) \in Nat /\ n = Len(u) + 1
  BY <1>3, <1>6, AppendProperties
<1>8. Entries(Only(u, S)) = Entries(u) \cap S
  BY <1>4, <1>7
<1>9. Only(u, S) \in Seq(T)
  BY OnlySeq
<1>10. Entries(t) = Entries(u) \cup {e}
  BY <1>6, EntriesAppend
<1>11. CASE e \in S
  <2>1. Only(t, S) = Append(Only(u, S), e)
    BY <1>6, <1>11, OnlyAppend
  <2>2. Entries(Only(t, S)) = Entries(Only(u, S)) \cup {e}
    BY <1>9, <2>1, EntriesAppend
  <2> QED
    BY <1>3, <1>8, <1>10, <1>11, <2>2
<1>12. CASE e \notin S
  <2>1. Only(t, S) = Only(u, S)
    BY <1>6, <1>12, OnlyAppend
  <2> QED
    BY <1>3, <1>8, <1>10, <1>12, <2>1
<1> QED
  BY <1>11, <1>12

\* To take some of the entries of a set leaves fewer of them.
LEMMA OnlyFewer ==
  ASSUME NEW T, NEW s \in Seq(T), NEW S, NEW X, NEW i \in 1..Len(s), s[i] \in S, s[i] \in X
  PROVE  /\ Len(Only(Only(s, T \ X), S)) \in Nat /\ Len(Only(s, S)) \in Nat
         /\ Len(Only(Only(s, T \ X), S)) < Len(Only(s, S))
<1> DEFINE m == Only(s, S)
<1>1. m \in Seq(T) /\ Only(m, X) \in Seq(T) /\ Only(m, T \ X) \in Seq(T)
  BY OnlySeq
<1>2. Len(m) = Len(Only(m, X)) + Len(Only(m, T \ X))
  <2>1. \A e \in T : e \in T \ X <=> e \notin X
    OBVIOUS
  <2> HIDE DEF m
  <2> QED
    BY <1>1, <2>1, OnlyPartition
<1>3. s[i] \in Entries(Only(m, X))
  <2>1. Entries(m) = Entries(s) \cap S
    BY EntriesOnly
  <2>2. Entries(Only(m, X)) = Entries(m) \cap X
    BY <1>1, EntriesOnly
  <2>3. s[i] \in Entries(s)
    BY DEF Entries
  <2> QED
    BY <2>1, <2>2, <2>3
<1>4. Len(Only(m, X)) >= 1
  <2>1. PICK k \in 1..Len(Only(m, X)) : Only(m, X)[k] = s[i]
    BY <1>3 DEF Entries
  <2> QED
    BY <1>1, <2>1, LenProperties
<1>5. Only(m, T \ X) = Only(Only(s, T \ X), S)
  <2> DEFINE Y == T \ X  Q == S \cap Y
  <2>1. \A e \in T : e \in Q <=> e \in S /\ e \in Y
    OBVIOUS
  <2> HIDE DEF Y, Q
  <2>2. Only(m, Y) = Only(s, Q)
    BY <2>1, OnlyOnly
  <2>3. Only(Only(s, Y), S) = Only(s, Q)
    BY <2>1, OnlyOnly
  <2> QED
    BY <2>2, <2>3, Zenon DEF Y
<1>6. Len(m) \in Nat /\ Len(Only(m, X)) \in Nat /\ Len(Only(m, T \ X)) \in Nat
  BY <1>1, LenProperties
<1> QED
  BY <1>2, <1>4, <1>5, <1>6

-----------------------------------------------------------------------------
(* Counting, and queues one behind the other                               *)

\* push_back and pop_front change the number of entries of a set by one or not
\* at all.
LEMMA OnlyCounts ==
  ASSUME NEW T, NEW s \in Seq(T), NEW S
  PROVE  /\ Len(Only(s, S)) \in Nat
         /\ \A e \in T : Len(Only(Append(s, e), S)) = Len(Only(s, S)) + (IF e \in S THEN 1 ELSE 0)
         /\ s # <<>> => /\ Len(Only(Tail(s), S)) \in Nat
                        /\ Len(Only(s, S)) = Len(Only(Tail(s), S))
                                               + (IF Head(s) \in S THEN 1 ELSE 0)
<1>1. Only(s, S) \in Seq(T) /\ Len(Only(s, S)) \in Nat
  BY OnlySeq
<1>2. ASSUME NEW e \in T
      PROVE  Len(Only(Append(s, e), S)) = Len(Only(s, S)) + (IF e \in S THEN 1 ELSE 0)
  <2>1. Only(Append(s, e), S) = IF e \in S THEN Append(Only(s, S), e) ELSE Only(s, S)
    BY OnlyAppend
  <2> DEFINE m == Only(s, S)
  <2> HIDE DEF m
  <2>2. m \in Seq(T) /\ Len(Append(m, e)) = Len(m) + 1 /\ Len(m) \in Nat
    BY <1>1 DEF m
  <2> QED
    BY <2>1, <2>2 DEF m
<1>3. ASSUME s # <<>>
      PROVE  /\ Len(Only(Tail(s), S)) \in Nat
             /\ Len(Only(s, S)) = Len(Only(Tail(s), S)) + (IF Head(s) \in S THEN 1 ELSE 0)
  <2>1. Only(s, S) = (IF Head(s) \in S THEN <<Head(s)>> ELSE <<>>) \o Only(Tail(s), S)
    BY <1>3, OnlyHead
  <2>2. Tail(s) \in Seq(T) /\ Head(s) \in T
    BY <1>3
  <2>3. Only(Tail(s), S) \in Seq(T) /\ Len(Only(Tail(s), S)) \in Nat
    BY <2>2, OnlySeq
  <2> DEFINE m == Only(Tail(s), S)  e == Head(s)
  <2> HIDE DEF m, e
  <2>4. /\ m \in Seq(T) /\ e \in T /\ Len(m) \in Nat
        /\ Len(<<e>> \o m) = Len(m) + 1 /\ <<>> \o m = m
    BY <2>2, <2>3 DEF m, e
  <2> QED
    BY <2>1, <2>4 DEF m, e
<1> QED
  BY <1>1, <1>2, <1>3

\* The first entry of the queue q moves to the back of the queue s before it.
Moves(T, S) == \A u, s, q \in Seq(T) : q # <<>> =>
  (u \o Only(Append(s, Head(q)), S)) \o Only(Tail(q), S) = (u \o Only(s, S)) \o Only(q, S)

\* Seen through Only, such a move changes nothing.
LEMMA OnlyMoves == \A T, S : Moves(T, S)
<1> TAKE T, S
<1> SUFFICES ASSUME NEW u \in Seq(T), NEW s \in Seq(T), NEW q \in Seq(T), q # <<>>
             PROVE  (u \o Only(Append(s, Head(q)), S)) \o Only(Tail(q), S)
                      = (u \o Only(s, S)) \o Only(q, S)
  BY DEF Moves
<1>1. Head(q) \in T /\ Tail(q) \in Seq(T)
  OBVIOUS
<1>2. Only(s, S) \in Seq(T) /\ Only(Tail(q), S) \in Seq(T)
  BY <1>1, OnlySeq
<1>3. Only(q, S) = (IF Head(q) \in S THEN <<Head(q)>> ELSE <<>>) \o Only(Tail(q), S)
  BY OnlyHead
<1>4. Only(Append(s, Head(q)), S)
        = IF Head(q) \in S THEN Append(Only(s, S), Head(q)) ELSE Only(s, S)
  BY <1>1, OnlyAppend
<1>5. CASE Head(q) \in S
  <2>1. PushesBetween(T)
    BY PushLaw
  <2> DEFINE a == Only(s, S)  b == Only(Tail(q), S)  e == Head(q)
  <2>2. a \in Seq(T) /\ b \in Seq(T) /\ e \in T
    BY <1>1, <1>2
  <2> HIDE DEF a, b, e
  <2>3. (u \o Append(a, e)) \o b = (u \o a) \o (<<e>> \o b)
    BY <2>1, <2>2, ZenonT(60) DEF PushesBetween
  <2> QED
    BY <1>3, <1>4, <1>5, <2>3 DEF a, b, e
<1>6. CASE Head(q) \notin S
  <2>1. HasUnit(T)
    BY ConcatLaws
  <2>2. <<>> \o Only(Tail(q), S) = Only(Tail(q), S)
    BY <1>2, <2>1, Zenon DEF HasUnit
  <2> QED
    BY <1>3, <1>4, <1>6, <2>2, Zenon
<1> QED
  BY <1>5, <1>6

\* There is an entry of the set if and only if Only finds one.
LEMMA OnlySome ==
  ASSUME NEW T, NEW s \in Seq(T), NEW S
  PROVE  (\E i \in 1..Len(s) : s[i] \in S) <=> Len(Only(s, S)) # 0
<1>1. ASSUME NEW i \in 1..Len(s), s[i] \in S PROVE Len(Only(s, S)) # 0
  BY <1>1, OnlyWithout
<1>2. ASSUME \A i \in 1..Len(s) : s[i] \notin S PROVE Len(Only(s, S)) = 0
  BY <1>2, OnlyNone
<1> QED
  BY <1>1, <1>2

\* The number of entries of a set in two queues.
LEMMA OnlyAdds ==
  ASSUME NEW T, NEW s \in Seq(T), NEW r \in Seq(T), NEW S
  PROVE  /\ s \o r \in Seq(T)
         /\ Len(Only(s \o r, S)) = Len(Only(s, S)) + Len(Only(r, S))
         /\ Len(Only(s, S)) \in Nat /\ Len(Only(r, S)) \in Nat
<1>1. Only(s \o r, S) = Only(s, S) \o Only(r, S)
  <2>1. Distributes(T, S)
    BY OnlyConcat
  <2> QED
    BY <2>1, Zenon DEF Distributes
<1>2. Only(s, S) \in Seq(T) /\ Only(r, S) \in Seq(T)
  BY OnlySeq
<1> DEFINE a == Only(s, S)  b == Only(r, S)
<1> HIDE DEF a, b
<1>3. Len(a \o b) = Len(a) + Len(b) /\ Len(a) \in Nat /\ Len(b) \in Nat
  BY <1>2 DEF a, b
<1> QED
  BY <1>1, <1>3 DEF a, b

-----------------------------------------------------------------------------
\* FlattenSeq joins sequences of the same kind.
FlatTable(seqs, f, n) ==
  f = [i \in 1..n |-> IF i = 1 THEN seqs[i] ELSE f[i - 1] \o seqs[i]]

\* The recursion of FlattenSeq has a solution up to every length.
LEMMA FlatTableExists ==
  ASSUME NEW seqs, NEW n \in Nat \ {0}
  PROVE  \E f : FlatTable(seqs, f, n)
<1> DEFINE Bad == {m \in Nat \ {0} : ~ \E f : FlatTable(seqs, f, m)}
<1>1. SUFFICES ASSUME Bad # {} PROVE FALSE
  OBVIOUS
<1>0. Bad \in SUBSET Nat
  OBVIOUS
<1>2. PICK x \in Bad : \A y \in Bad : x <= y
  <2> HIDE DEF Bad
  <2> QED
    BY <1>0, <1>1, Least
<1>3. x # 1
  <2>1. FlatTable(seqs, [i \in 1..1 |-> seqs[i]], 1)
    BY DEF FlatTable
  <2> QED
    BY <2>1
<1>4. x - 1 \in Nat \ {0} /\ x - 1 \notin Bad
  BY <1>2, <1>3
<1>5. PICK f : FlatTable(seqs, f, x - 1)
  BY <1>4
<1> DEFINE g == [i \in 1..x |-> IF i = x THEN f[x - 1] \o seqs[x] ELSE f[i]]
<1>6. FlatTable(seqs, g, x)
  <2>1. ASSUME NEW i \in 1..x
        PROVE  g[i] = IF i = 1 THEN seqs[i] ELSE g[i - 1] \o seqs[i]
    <3>1. \A j \in 1..(x - 1) : f[j] = IF j = 1 THEN seqs[j] ELSE f[j - 1] \o seqs[j]
      BY <1>5 DEF FlatTable
    <3>2. CASE i = x
      <4>1. i # 1 /\ i - 1 \in 1..x /\ i - 1 # x
        BY <1>3, <1>4, <3>2
      <4>2. g[i] = f[x - 1] \o seqs[x] /\ g[i - 1] = f[i - 1]
        BY <3>2, <4>1
      <4> QED
        BY <3>2, <4>1, <4>2
    <3>3. CASE i # x
      <4>1. i \in 1..(x - 1) /\ g[i] = f[i] /\ (i # 1 => g[i - 1] = f[i - 1])
        BY <1>4, <3>3
      <4> QED
        BY <3>1, <4>1
    <3> QED
      BY <3>2, <3>3
  <2> HIDE DEF g
  <2>2. g = [i \in 1..x |-> g[i]]
    BY DEF g
  <2> QED
    BY <2>1, <2>2 DEF FlatTable
<1> QED
  BY <1>2, <1>6

\* FlattenSeq of sequences over T is a sequence over T.
LEMMA FlattenType ==
  ASSUME NEW T, NEW seqs \in Seq(Seq(T))
  PROVE  FlattenSeq(seqs) \in Seq(T)
<1> DEFINE n == Len(seqs)
<1>1. n \in Nat /\ \A i \in 1..n : seqs[i] \in Seq(T)
  BY LenProperties, ElementOfSeq
<1>2. CASE n = 0
  <2>1. FlattenSeq(seqs) = seqs /\ seqs = <<>>
    BY <1>2, EmptySeq DEF FlattenSeq
  <2> QED
    BY <2>1
<1>3. CASE n # 0
  <2>1. FlattenSeq(seqs) = (CHOOSE f : FlatTable(seqs, f, n))[n]
    BY <1>3 DEF FlattenSeq, FlatTable
  <2> HIDE DEF n
  <2>2. PICK f : FlatTable(seqs, f, n) /\ FlattenSeq(seqs) = f[n]
    BY <1>1, <1>3, <2>1, FlatTableExists
  <2> DEFINE Bad == {i \in 1..n : f[i] \notin Seq(T)}
  <2>3. SUFFICES ASSUME Bad # {} PROVE FALSE
    BY <1>1, <1>3, <2>2
  <2>4. Bad \in SUBSET Nat
    BY <1>1
  <2>5. PICK x \in Bad : \A y \in Bad : x <= y
    <3> HIDE DEF Bad
    <3> QED
      BY <2>3, <2>4, Least
  <2>6. f[x] = IF x = 1 THEN seqs[x] ELSE f[x - 1] \o seqs[x]
    BY <2>2 DEF FlatTable
  <2>7. x # 1 => f[x - 1] \in Seq(T)
    BY <1>1, <2>5
  <2>8. seqs[x] \in Seq(T)
    BY <1>1
  <2> QED
    BY <2>5, <2>6, <2>7, <2>8, ConcatProperties, ZenonT(30)
<1> QED
  BY <1>2, <1>3

-----------------------------------------------------------------------------
(* Sums over finite sets: SumFunctionOnSet picks the summands in an order  *)
(* that is not known, so that any of them may come first.                  *)

Summed(f, h, s) ==
  IF s = {} THEN 0 ELSE f[CHOOSE x \in s : TRUE] + h[s \ {CHOOSE x \in s : TRUE}]
SumTable(f, h, S) == h = [s \in SUBSET S |-> Summed(f, h, s)]

\* SumFunctionOnSet is the entry for the whole set of such a table.
LEMMA SumIsTable ==
  \A f, S : SumFunctionOnSet(f, S) = (CHOOSE h : SumTable(f, h, S))[S]
BY DEF SumFunctionOnSet, FoldFunctionOnSet, MapThenFoldSet, SumTable, Summed

\* The element that is taken first belongs to the set.
LEMMA ChosenIn == \A s : s # {} => (CHOOSE x \in s : TRUE) \in s
OBVIOUS

\* Two tables agree where both are defined.
LEMMA SumTablesAgree ==
  ASSUME NEW f, NEW g, NEW S, NEW T, NEW h, NEW k, SumTable(f, h, S), SumTable(g, k, T),
         NEW s, s \subseteq S, s \subseteq T, IsFiniteSet(s), \A x \in s : f[x] = g[x]
  PROVE  h[s] = k[s]
<1> DEFINE Bad == {n \in Nat : \E t \in SUBSET s : Cardinality(t) = n /\ h[t] # k[t]}
<1>1. SUFFICES ASSUME Bad # {} PROVE FALSE
  <2>1. Cardinality(s) \in Nat /\ s \in SUBSET s
    BY FS_CardinalityType
  <2> QED
    BY <2>1
<1>2. PICK n \in Bad : \A m \in Bad : n <= m
  <2>1. Bad \in SUBSET Nat
    OBVIOUS
  <2> HIDE DEF Bad
  <2> QED
    BY <1>1, <2>1, Least
<1>3. PICK t \in SUBSET s : Cardinality(t) = n /\ h[t] # k[t]
  BY <1>2
<1>4. IsFiniteSet(t) /\ n \in Nat
  BY <1>2, FS_Subset
<1>5. h[t] = Summed(f, h, t) /\ k[t] = Summed(g, k, t)
  BY DEF SumTable
<1>6. CASE t = {}
  BY <1>3, <1>5, <1>6 DEF Summed
<1>7. CASE t # {}
  <2> DEFINE c == CHOOSE x \in t : TRUE  u == t \ {c}
  <2>1. c \in t
    BY <1>7
  <2> HIDE DEF c
  <2>2. IsFiniteSet(u) /\ Cardinality(u) = n - 1 /\ u \in SUBSET s
    BY <1>3, <1>4, <2>1, FS_RemoveElement
  <2>3. n - 1 \in Nat
    BY <2>2, FS_CardinalityType
  <2>4. h[u] = k[u]
    BY <1>2, <1>4, <2>2, <2>3
  <2>5. f[c] = g[c]
    BY <2>1
  <2> QED
    BY <1>3, <1>5, <1>7, <2>4, <2>5, Zenon DEF Summed, c
<1> QED
  BY <1>6, <1>7

\* The table of a finite set exists.
LEMMA SumTableExists ==
  ASSUME NEW f, NEW S, IsFiniteSet(S)
  PROVE  \E h : SumTable(f, h, S)
<1> DEFINE V(s) == SumFunctionOnSet(f, s)
           Bad == {n \in Nat : \E t \in SUBSET S : Cardinality(t) = n /\ ~\E h : SumTable(f, h, t)}
<1>1. SUFFICES ASSUME Bad # {} PROVE FALSE
  <2>1. Cardinality(S) \in Nat /\ S \in SUBSET S
    BY FS_CardinalityType
  <2> QED
    BY <2>1
<1>2. PICK n \in Bad : \A m \in Bad : n <= m
  <2>1. Bad \in SUBSET Nat
    OBVIOUS
  <2> HIDE DEF Bad
  <2> QED
    BY <1>1, <2>1, Least
<1>3. PICK t \in SUBSET S : Cardinality(t) = n /\ ~\E h : SumTable(f, h, t)
  BY <1>2
<1>4. IsFiniteSet(t) /\ n \in Nat
  BY <1>2, FS_Subset
<1>5. ASSUME NEW s \in SUBSET t, s # t PROVE SumTable(f, CHOOSE h : SumTable(f, h, s), s)
  <2>1. IsFiniteSet(s) /\ Cardinality(s) \in Nat /\ Cardinality(s) < n /\ s \in SUBSET S
    BY <1>3, <1>4, <1>5, FS_Subset, FS_CardinalityType
  <2>2. \E h : SumTable(f, h, s)
    BY <1>2, <2>1
  <2> QED
    BY <2>2
<1>6. ASSUME NEW s \in SUBSET t, s # t
      PROVE  V(s) = IF s = {} THEN 0
                    ELSE f[CHOOSE x \in s : TRUE] + V(s \ {CHOOSE x \in s : TRUE})
  <2> DEFINE h == CHOOSE h : SumTable(f, h, s)
  <2>1. SumTable(f, h, s)
    BY <1>5, <1>6
  <2> HIDE DEF h
  <2>2. V(s) = h[s]
    BY SumIsTable DEF h
  <2>3. h[s] = Summed(f, h, s)
    BY <2>1 DEF SumTable
  <2>4. CASE s # {}
    <3> DEFINE c == CHOOSE x \in s : TRUE  u == s \ {c}  k == CHOOSE k : SumTable(f, k, u)
    <3>1. c \in s
      BY <2>4
    <3> HIDE DEF c
    <3>2. u \in SUBSET t /\ u # t
      BY <3>1
    <3>3. SumTable(f, k, u)
      BY <1>5, <3>2
    <3> HIDE DEF k
    <3>4. V(u) = k[u]
      BY SumIsTable DEF k
    <3>5. IsFiniteSet(u)
      BY <1>4, FS_Subset
    <3>6. h[u] = k[u]
      BY <2>1, <3>3, <3>5, SumTablesAgree
    <3> QED
      BY <2>2, <2>3, <2>4, <3>4, <3>6, Zenon DEF Summed, c
  <2> QED
    BY <2>2, <2>3, <2>4 DEF Summed
<1> DEFINE g == [s \in SUBSET t |-> IF s = {} THEN 0
                    ELSE f[CHOOSE x \in s : TRUE] + V(s \ {CHOOSE x \in s : TRUE})]
<1>7. ASSUME NEW s \in SUBSET t PROVE g[s] = Summed(f, g, s)
  <2>1. CASE s # {}
    <3> DEFINE c == CHOOSE x \in s : TRUE  u == s \ {c}
    <3>1. c \in s
      BY <2>1
    <3>2. u \in SUBSET t /\ u # t
      BY <3>1
    <3>3. g[u] = V(u)
      BY <1>6, <3>2
    <3> QED
      BY <2>1, <3>3 DEF Summed
  <2> QED
    BY <2>1 DEF Summed
<1>8. SumTable(f, g, t)
  <2>1. g = [s \in SUBSET t |-> g[s]]
    OBVIOUS
  <2> HIDE DEF g
  <2> QED
    BY <1>7, <2>1 DEF SumTable
<1> QED
  BY <1>3, <1>8

\* The sum over a finite set, with the element that is taken first.
LEMMA SumUnfolds ==
  ASSUME NEW f, NEW S, IsFiniteSet(S)
  PROVE  SumFunctionOnSet(f, S) =
           IF S = {} THEN 0
           ELSE f[CHOOSE x \in S : TRUE] + SumFunctionOnSet(f, S \ {CHOOSE x \in S : TRUE})
<1> DEFINE h == CHOOSE h : SumTable(f, h, S)
<1>1. SumTable(f, h, S)
  BY SumTableExists
<1> HIDE DEF h
<1>2. SumFunctionOnSet(f, S) = h[S]
  BY SumIsTable DEF h
<1>3. h[S] = Summed(f, h, S)
  BY <1>1 DEF SumTable
<1>4. CASE S # {}
  <2> DEFINE c == CHOOSE x \in S : TRUE  u == S \ {c}  k == CHOOSE k : SumTable(f, k, u)
  <2>1. IsFiniteSet(u)
    BY FS_Subset
  <2> HIDE DEF c
  <2>2. SumTable(f, k, u)
    BY <2>1, SumTableExists
  <2> HIDE DEF k
  <2>3. SumFunctionOnSet(f, u) = k[u]
    BY SumIsTable DEF k
  <2>4. h[u] = k[u]
    BY <1>1, <2>1, <2>2, SumTablesAgree
  <2> QED
    BY <1>2, <1>3, <1>4, <2>3, <2>4, Zenon DEF Summed, c
<1> QED
  BY <1>2, <1>3, <1>4 DEF Summed

\* Sums of equal summands are equal.
LEMMA SumSame ==
  ASSUME NEW f, NEW g, NEW S, IsFiniteSet(S), \A x \in S : f[x] = g[x]
  PROVE  SumFunctionOnSet(f, S) = SumFunctionOnSet(g, S)
<1> DEFINE h == CHOOSE h : SumTable(f, h, S)  k == CHOOSE k : SumTable(g, k, S)
<1>1. SumTable(f, h, S) /\ SumTable(g, k, S)
  BY SumTableExists
<1> HIDE DEF h, k
<1>2. SumFunctionOnSet(f, S) = h[S] /\ SumFunctionOnSet(g, S) = k[S]
  BY SumIsTable DEF h, k
<1> QED
  BY <1>1, <1>2, SumTablesAgree

\* The empty sum.
LEMMA SumEmpty == \A f : SumFunctionOnSet(f, {}) = 0
BY SumUnfolds, FS_EmptySet

\* A sum of natural numbers is one, and any summand may be taken first.
LEMMA SumFacts ==
  ASSUME NEW f, NEW S, IsFiniteSet(S), \A x \in S : f[x] \in Nat
  PROVE  /\ SumFunctionOnSet(f, S) \in Nat
         /\ \A x \in S : SumFunctionOnSet(f, S) = f[x] + SumFunctionOnSet(f, S \ {x})
<1> DEFINE V(s) == SumFunctionOnSet(f, s)
           Good(s) == V(s) \in Nat /\ \A x \in s : V(s) = f[x] + V(s \ {x})
           Bad == {n \in Nat : \E t \in SUBSET S : Cardinality(t) = n /\ ~Good(t)}
<1>1. SUFFICES ASSUME Bad # {} PROVE FALSE
  <2>1. Cardinality(S) \in Nat /\ S \in SUBSET S
    BY FS_CardinalityType
  <2>2. Good(S)
    BY <2>1
  <2> QED
    BY <2>2
<1>2. PICK n \in Bad : \A m \in Bad : n <= m
  <2>1. Bad \in SUBSET Nat
    OBVIOUS
  <2> HIDE DEF Bad
  <2> QED
    BY <1>1, <2>1, Least
<1>3. PICK t \in SUBSET S : Cardinality(t) = n /\ ~Good(t)
  BY <1>2
<1>4. IsFiniteSet(t) /\ n \in Nat
  BY <1>2, FS_Subset
<1>5. ASSUME NEW x \in t PROVE Good(t \ {x})
  <2>1. /\ Cardinality(t \ {x}) = n - 1 /\ Cardinality(t \ {x}) \in Nat
        /\ t \ {x} \in SUBSET S
    BY <1>3, <1>4, FS_RemoveElement, FS_CardinalityType
  <2> HIDE DEF Good
  <2> QED
    BY <1>2, <1>4, <2>1
<1>6. CASE t = {}
  BY <1>3, <1>6, SumEmpty
<1>7. CASE t # {}
  <2> DEFINE c == CHOOSE x \in t : TRUE
  <2>1. c \in t
    BY <1>7
  <2>2. V(t) = f[c] + V(t \ {c})
    BY <1>4, <1>7, SumUnfolds
  <2> HIDE DEF c
  <2>3. V(t \ {c}) \in Nat /\ f[c] \in Nat
    BY <1>5, <2>1
  <2>4. ASSUME NEW x \in t PROVE V(t) = f[x] + V(t \ {x})
    <3>1. CASE x # c
      <4>1. V(t \ {c}) = f[x] + V((t \ {c}) \ {x})
        BY <1>5, <2>1, <3>1
      <4>2. V(t \ {x}) = f[c] + V((t \ {x}) \ {c}) /\ V(t \ {x}) \in Nat
        BY <1>5, <2>1, <3>1
      <4>3. (t \ {c}) \ {x} = (t \ {x}) \ {c}
        OBVIOUS
      <4>4. V((t \ {x}) \ {c}) \in Nat /\ f[x] \in Nat
        <5>1. V((t \ {x}) \ {c}) \in Nat
          <6> DEFINE u == t \ {x}
          <6>1. IsFiniteSet(u) /\ Cardinality(u) = n - 1
            BY <1>3, <1>4, FS_RemoveElement
          <6>2. c \in u /\ u \ {c} \in SUBSET S
            BY <2>1, <3>1
          <6>3. /\ Cardinality(u \ {c}) = n - 1 - 1
                /\ Cardinality(u \ {c}) \in Nat
            <7> HIDE DEF u
            <7>1. IsFiniteSet(u \ {c}) /\ Cardinality(u \ {c}) = Cardinality(u) - 1
              BY <6>1, <6>2, FS_RemoveElement
            <7>2. Cardinality(u \ {c}) \in Nat
              BY <7>1, FS_CardinalityType
            <7> QED
              BY <6>1, <7>1, <7>2
          <6>4. Good((t \ {x}) \ {c})
            <7> HIDE DEF Good
            <7> QED
              BY <1>2, <1>4, <6>2, <6>3
          <6> QED
            BY <6>4
        <5> QED
          BY <5>1
      <4> DEFINE a == V((t \ {x}) \ {c})
      <4>5. V(t \ {c}) = f[x] + a /\ V(t \ {x}) = f[c] + a /\ a \in Nat
        BY <4>1, <4>2, <4>3, <4>4
      <4> HIDE DEF a, V
      <4> QED
        BY <2>2, <2>3, <4>4, <4>5
    <3> QED
      BY <2>2, <3>1
  <2>5. V(t) \in Nat
    BY <2>2, <2>3
  <2> QED
    BY <1>3, <2>4, <2>5
<1> QED
  BY <1>6, <1>7

\* Another summand.
LEMMA SumAdd ==
  ASSUME NEW f, NEW S, IsFiniteSet(S), NEW x, x \notin S, \A y \in S \cup {x} : f[y] \in Nat
  PROVE  /\ SumFunctionOnSet(f, S \cup {x}) = f[x] + SumFunctionOnSet(f, S)
         /\ SumFunctionOnSet(f, S) \in Nat
<1>1. IsFiniteSet(S \cup {x}) /\ (S \cup {x}) \ {x} = S /\ x \in S \cup {x}
  BY FS_AddElement
<1> QED
  BY <1>1, SumFacts

\* The sum of the first n entries.
SumTo(f, n) == SumFunctionOnSet(f, 1..n)

\* The sum of the first entries, one entry at a time.
LEMMA SumToStep ==
  ASSUME NEW f, NEW n \in Nat, \A i \in 1..(n + 1) : f[i] \in Nat
  PROVE  /\ SumTo(f, 0) = 0 /\ SumTo(f, n) \in Nat
         /\ SumTo(f, n + 1) = SumTo(f, n) + f[n + 1]
<1>1. IsFiniteSet(1..n) /\ 1..(n + 1) = (1..n) \cup {n + 1} /\ n + 1 \notin 1..n /\ 1..0 = {}
  BY FS_Interval
<1>2. /\ SumFunctionOnSet(f, (1..n) \cup {n + 1}) = f[n + 1] + SumFunctionOnSet(f, 1..n)
      /\ SumFunctionOnSet(f, 1..n) \in Nat
  <2>1. \A y \in (1..n) \cup {n + 1} : f[y] \in Nat
    BY <1>1
  <2> QED
    BY <1>1, <2>1, SumAdd
<1>3. f[n + 1] \in Nat
  OBVIOUS
<1>4. SumFunctionOnSet(f, 1..(n + 1)) = f[n + 1] + SumFunctionOnSet(f, 1..n)
  BY <1>1, <1>2
<1>5. SumTo(f, 0) = 0
  BY <1>1, SumEmpty DEF SumTo
<1>6. SumTo(f, n + 1) = f[n + 1] + SumTo(f, n) /\ SumTo(f, n) \in Nat
  BY <1>2, <1>4 DEF SumTo
<1> QED
  BY <1>3, <1>5, <1>6

\* A sum of the first n is a natural number.
LEMMA SumToType ==
  ASSUME NEW f, NEW n \in Nat, \A i \in 1..n : f[i] \in Nat
  PROVE  SumTo(f, n) \in Nat /\ SumTo(f, 0) = 0
<1>1. IsFiniteSet(1..n) /\ 1..0 = {}
  BY FS_Interval
<1> QED
  BY <1>1, SumFacts, SumEmpty DEF SumTo

\* h is a * f + g up to n.
Linear(a, f, g, h, n) ==
  \A i \in 1..n : f[i] \in Nat /\ g[i] \in Nat /\ h[i] = a * f[i] + g[i]

\* A sum of a * f[i] + g[i] is a times the one sum plus the other.
LEMMA SumToLinear ==
  \A a, n \in Nat : \A f, g, h :
    Linear(a, f, g, h, n) => SumTo(h, n) = a * SumTo(f, n) + SumTo(g, n)
<1> SUFFICES ASSUME NEW a \in Nat, NEW f, NEW g, NEW h, NEW n \in Nat,
                    \A i \in 1..n : f[i] \in Nat /\ g[i] \in Nat /\ h[i] = a * f[i] + g[i]
             PROVE  SumTo(h, n) = a * SumTo(f, n) + SumTo(g, n)
  BY DEF Linear
<1> DEFINE Bad == {k \in 0..n : SumTo(h, k) # a * SumTo(f, k) + SumTo(g, k)}
<1>1. SUFFICES ASSUME Bad # {} PROVE FALSE
  OBVIOUS
<1>2. PICK k \in Bad : \A m \in Bad : k <= m
  <2>1. Bad \in SUBSET Nat
    OBVIOUS
  <2> HIDE DEF Bad
  <2> QED
    BY <1>1, <2>1, Least
<1>3. k # 0
  <2>1. SumTo(f, 0) = 0 /\ SumTo(g, 0) = 0 /\ SumTo(h, 0) = 0
    BY SumToType
  <2> QED
    BY <2>1
<1> DEFINE j == k - 1
<1>4. j \in Nat /\ k = j + 1 /\ j \notin Bad /\ k \in 1..n /\ j \in 0..n
  BY <1>2, <1>3
<1> HIDE DEF j
<1>5. \A i \in 1..(j + 1) : f[i] \in Nat /\ g[i] \in Nat /\ h[i] \in Nat
  <2>1. ASSUME NEW i \in 1..(j + 1) PROVE f[i] \in Nat /\ g[i] \in Nat /\ h[i] \in Nat
    <3>1. f[i] \in Nat /\ g[i] \in Nat /\ h[i] = a * f[i] + g[i]
      BY <1>4
    <3>2. a * f[i] \in Nat
      BY <3>1
    <3> QED
      BY <3>1, <3>2
  <2> QED
    BY <2>1
<1>6. /\ SumTo(f, j) \in Nat /\ SumTo(f, j + 1) = SumTo(f, j) + f[k]
      /\ SumTo(g, j) \in Nat /\ SumTo(g, j + 1) = SumTo(g, j) + g[k]
      /\ SumTo(h, j) \in Nat /\ SumTo(h, j + 1) = SumTo(h, j) + h[k]
  BY <1>4, <1>5, SumToStep
<1>7. SumTo(h, j) = a * SumTo(f, j) + SumTo(g, j)
  BY <1>4
<1>8. f[k] \in Nat /\ g[k] \in Nat /\ h[k] = a * f[k] + g[k]
  BY <1>4
<1>9. a * (SumTo(f, j) + f[k]) = a * SumTo(f, j) + a * f[k]
  <2> DEFINE x == SumTo(f, j)  y == f[k]
  <2>1. x \in Nat /\ y \in Nat
    BY <1>6, <1>8
  <2> HIDE DEF x, y
  <2>2. a * (x + y) = a * x + a * y
    BY <2>1
  <2> QED
    BY <2>2 DEF x, y
<1>10. a * SumTo(f, j) \in Nat /\ a * f[k] \in Nat
  BY <1>6, <1>8
<1>11. SumTo(h, k) = a * SumTo(f, k) + SumTo(g, k)
  <2> DEFINE p == a * SumTo(f, j)  q == a * f[k]
  <2>1. SumTo(h, j + 1) = (p + SumTo(g, j)) + (q + g[k])
    BY <1>6, <1>7, <1>8
  <2>2. a * SumTo(f, j + 1) = p + q
    BY <1>6, <1>9
  <2>3. p \in Nat /\ q \in Nat /\ SumTo(g, j) \in Nat /\ g[k] \in Nat
    BY <1>6, <1>8, <1>10
  <2> HIDE DEF p, q
  <2> QED
    BY <1>4, <1>6, <2>1, <2>2, <2>3
<1> QED
  BY <1>2, <1>11

\* The sum of n equal entries.
LEMMA SumToConstant ==
  ASSUME NEW f, NEW c \in Nat, NEW n \in Nat, \A i \in 1..n : f[i] = c
  PROVE  SumTo(f, n) = n * c
<1> DEFINE Bad == {k \in 0..n : SumTo(f, k) # k * c}
<1>1. SUFFICES ASSUME Bad # {} PROVE FALSE
  OBVIOUS
<1>2. PICK k \in Bad : \A m \in Bad : k <= m
  <2>1. Bad \in SUBSET Nat
    OBVIOUS
  <2> HIDE DEF Bad
  <2> QED
    BY <1>1, <2>1, Least
<1>3. k # 0
  <2>1. SumTo(f, 0) = 0
    BY SumToType
  <2> QED
    BY <2>1
<1> DEFINE j == k - 1
<1>4. j \in Nat /\ k = j + 1 /\ j \notin Bad /\ k \in 1..n /\ j \in 0..n
  BY <1>2, <1>3
<1> HIDE DEF j
<1>5. \A i \in 1..(j + 1) : f[i] \in Nat
  BY <1>4
<1>6. SumTo(f, j + 1) = SumTo(f, j) + f[j + 1]
  BY <1>4, <1>5, SumToStep
<1>7. SumTo(f, j) = j * c /\ f[j + 1] = c
  BY <1>4
<1>8. (j + 1) * c = j * c + c
  BY <1>4
<1> QED
  BY <1>2, <1>4, <1>6, <1>7, <1>8

\* The length of a flattened sequence is the sum of the lengths.
LEMMA FlattenLength ==
  ASSUME NEW T, NEW seqs \in Seq(Seq(T)), NEW len,
         \A i \in 1..Len(seqs) : len[i] = Len(seqs[i])
  PROVE  Len(FlattenSeq(seqs)) = SumTo(len, Len(seqs))
<1> DEFINE n == Len(seqs)
<1>1. /\ n \in Nat
      /\ \A i \in 1..n : seqs[i] \in Seq(T) /\ len[i] = Len(seqs[i]) /\ len[i] \in Nat
  BY LenProperties, ElementOfSeq
<1>2. CASE n = 0
  <2>1. FlattenSeq(seqs) = seqs
    BY <1>2 DEF FlattenSeq
  <2>2. SumTo(len, 0) = 0
    BY <1>1, SumToType
  <2> QED
    BY <1>2, <2>1, <2>2
<1>3. CASE n # 0
  <2>1. FlattenSeq(seqs) = (CHOOSE f : FlatTable(seqs, f, n))[n]
    BY <1>3 DEF FlattenSeq, FlatTable
  <2> HIDE DEF n
  <2>2. PICK f : FlatTable(seqs, f, n) /\ FlattenSeq(seqs) = f[n]
    BY <1>1, <1>3, <2>1, FlatTableExists
  <2> DEFINE Good(i) == f[i] \in Seq(T) /\ Len(f[i]) = SumTo(len, i)
             Bad == {i \in 1..n : ~Good(i)}
  <2>3. SUFFICES ASSUME Bad # {} PROVE FALSE
    <3>1. n \in 1..n
      BY <1>1, <1>3
    <3> QED
      BY <2>2, <3>1 DEF n
  <2>4. Bad \in SUBSET Nat
    BY <1>1
  <2>5. PICK x \in Bad : \A y \in Bad : x <= y
    <3> HIDE DEF Bad
    <3> QED
      BY <2>3, <2>4, Least
  <2>6. f[x] = IF x = 1 THEN seqs[x] ELSE f[x - 1] \o seqs[x]
    BY <2>2 DEF FlatTable
  <2>7. seqs[x] \in Seq(T) /\ len[x] = Len(seqs[x]) /\ len[x] \in Nat
    BY <1>1
  <2> DEFINE j == x - 1
  <2>8. j \in Nat /\ x = j + 1 /\ j + 1 \in 1..n /\ (x # 1 => j \in 1..n /\ j \notin Bad)
    BY <1>1, <2>5
  <2>9. \A i \in 1..(j + 1) : len[i] \in Nat
    BY <1>1, <2>8
  <2> HIDE DEF j
  <2>10. SumTo(len, 0) = 0 /\ SumTo(len, j + 1) = SumTo(len, j) + len[j + 1]
    BY <2>8, <2>9, SumToStep
  <2>11. CASE x = 1
    <3>1. j = 0 /\ f[x] = seqs[x]
      BY <2>6, <2>8, <2>11
    <3>2. Good(x)
      BY <2>7, <2>8, <2>10, <2>11, <3>1
    <3> QED
      BY <3>2
  <2>12. CASE x # 1
    <3>1. Good(j)
      BY <2>8, <2>12
    <3>2. f[x] = f[j] \o seqs[x]
      BY <2>6, <2>12 DEF j
    <3>3. f[x] \in Seq(T) /\ Len(f[x]) = Len(f[j]) + Len(seqs[x])
      <4>1. f[j] \in Seq(T) /\ seqs[x] \in Seq(T)
        BY <2>7, <3>1
      <4>2. f[j] \o seqs[x] \in Seq(T) /\ Len(f[j] \o seqs[x]) = Len(f[j]) + Len(seqs[x])
        BY <4>1, ConcatProperties
      <4> QED
        BY <3>2, <4>2
    <3>4. Good(x)
      BY <2>7, <2>8, <2>10, <3>1, <3>3
    <3> QED
      BY <3>4
  <2> QED
    BY <2>11, <2>12
<1> QED
  BY <1>2, <1>3
=============================================================================
