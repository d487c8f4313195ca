-------------------------- MODULE PghalListProofs -------------------------
(***************************************************************************)
(* The rings of PghalList stay closed and apart, loops see what was in     *)
(* their list, and the rings are the sequences that ListSpec promises, for *)
(* any number of lists and nodes.                                          *)
(***************************************************************************)
EXTENDS PghalList, SequenceTheorems, FiniteSetTheorems, WellFoundedInduction, TLAPS

---------------------------------------------------------------------------
(* Induction over the naturals. *)

(* A set of naturals has a least element.                                  *)
LEMMA LeastElement ==
  ASSUME NEW S, S \subseteq Nat, S # {}
  PROVE  \E n \in S : \A m \in S : n <= m
  <1>. DEFINE R == {ss \in Nat \X Nat : ss[1] < ss[2]}
  <1>1. IsWellFoundedOn(R, Nat)
    BY NatLessThanWellFounded DEF OpToRel
  <1>. HIDE DEF R
  <1>2. PICK n \in S : \A y \in S : ~ (<<y, n>> \in R)
    BY <1>1, WFMin
  <1>3. \A x, y \in Nat : <<y, x>> \in R <=> y < x
    BY DEF R
  <1>4. ASSUME NEW m \in S PROVE n <= m
    <2>1. ~ (m < n)
      BY <1>2, <1>3
    <2>. QED
      BY <2>1
  <1>. QED
    BY <1>4

(* If some numbers fail a property, there is a first one that does: it is  *)
(* 0, or follows one that does not.                                        *)
LEMMA FirstFailure ==
  ASSUME NEW S, S \subseteq Nat, S # {}
  PROVE  \E n \in S : n \in Nat /\ (n # 0 => n - 1 \in Nat /\ n - 1 \notin S)
  <1>1. PICK n \in S : \A m \in S : n <= m
    BY LeastElement
  <1>. QED
    BY <1>1

---------------------------------------------------------------------------
(* The rings. *)

Pointer == Cells \cup {NULL, LIST_POISON1, LIST_POISON2}

PointersOK ==
  /\ next \in [Cells -> Pointer] /\ prev \in [Cells -> Pointer]
  /\ home \in [Nodes -> Heads \cup {NULL}]

(* The rings are inductive once the pointers are functions over the cells. *)
RingInv == PointersOK /\ Linked

(* A cell that is in no list has no neighbours, and nobody's neighbour is  *)
(* it: adding or initialising it takes nothing out of a ring.              *)
LEMMA NotANeighbour ==
  ASSUME RingInv, NEW c \in Live, NEW d, d \notin Live
  PROVE  next[c] # d /\ prev[c] # d
BY DEF RingInv, Linked

(* A cell has one neighbour on each side.                                  *)
LEMMA OneNeighbour ==
  ASSUME RingInv, NEW c \in Live, NEW d \in Live
  PROVE  /\ next[c] = next[d] => c = d
         /\ prev[c] = prev[d] => c = d
         /\ next[c] = d <=> prev[d] = c
BY DEF RingInv, Linked

(* At the start heads that point to themselves are rings of one cell.      *)
LEMMA RingsInit == Init => RingInv
<1> SUFFICES ASSUME Init PROVE RingInv
  OBVIOUS
<1>1. PICK static \in SUBSET Cells : next = [c \in Cells |-> IF c \in static THEN c ELSE NULL]
  BY DEF Init
<1>2. prev = next /\ home = [n \in Nodes |-> NULL]
  BY DEF Init
<1>3. PointersOK
  BY <1>1, <1>2 DEF PointersOK, Pointer
<1>4. ASSUME NEW c \in Live PROVE c \in Heads /\ next[c] = c
  BY <1>1, <1>2, ListAssumption DEF Live, Ready, Cells
<1>5. Linked
  BY <1>2, <1>4 DEF Linked
<1> QED
  BY <1>3, <1>5 DEF RingInv

(* Initialising a head makes a ring of it and touches no other cell.       *)
LEMMA RingsInitHead ==
  ASSUME RingInv, NEW h \in Heads, INIT_LIST_HEAD(h)
  PROVE  RingInv'
<1>1. h \in Cells /\ h \notin Live /\ h # NULL
  BY ListAssumption DEF INIT_LIST_HEAD, Live, Cells
<1>2. Live' = Live \cup {h} /\ home' = home
  BY <1>1, ListAssumption DEF INIT_LIST_HEAD, Live, Ready, RingInv, PointersOK, Cells
<1>3. next'[h] = h /\ prev'[h] = h
  BY <1>1 DEF INIT_LIST_HEAD, RingInv, PointersOK
<1>4. \A c \in Live : next'[c] = next[c] /\ prev'[c] = prev[c]
  BY <1>1 DEF INIT_LIST_HEAD, RingInv, PointersOK, Live, Cells
<1>5. PointersOK'
  BY <1>1 DEF INIT_LIST_HEAD, RingInv, PointersOK, Pointer
<1>6. \A c : List(c)' = List(c)
  BY <1>2 DEF List
<1>7. Linked'
  BY <1>2, <1>3, <1>4, <1>6 DEF RingInv, Linked
<1> QED
  BY <1>5, <1>7 DEF RingInv

(* A node that is added goes between the last cell and the head, which are *)
(* the same cell in an empty list.                                         *)
LEMMA RingsAdd ==
  ASSUME RingInv, NEW h \in Heads, NEW n \in Nodes, list_add_tail(n, h)
  PROVE  RingInv'
<1> DEFINE p == prev[h]
<1>1. h \in Live /\ p \in Live /\ n \notin Live /\ n \in Cells /\ next[p] = h
  BY ListAssumption DEF list_add_tail, RingInv, Linked, Live, Cells
<1>2. Live \subseteq Cells
  BY DEF Live, Cells
<1>3. /\ prev' = [prev EXCEPT ![h] = n, ![n] = p]
      /\ next' = [next EXCEPT ![n] = h, ![p] = n]
      /\ home' = [home EXCEPT ![n] = h]
  BY DEF list_add_tail, LinkAtTail, ListAdd
<1>4. PointersOK'
  BY <1>1, <1>2, <1>3 DEF RingInv, PointersOK, Pointer
<1>5. n # h /\ n # p /\ h # NULL
  BY <1>1, ListAssumption DEF Cells
<1>6. /\ next'[n] = h /\ next'[p] = n /\ prev'[h] = n /\ prev'[n] = p
      /\ \A c \in Live : c # p => next'[c] = next[c]
      /\ \A c \in Live : c # h => prev'[c] = prev[c]
  BY <1>1, <1>2, <1>3, <1>5 DEF RingInv, PointersOK
<1>7. Live' = Live \cup {n}
  <2>1. \A g \in Heads : (next'[g] # NULL) = (next[g] # NULL)
    BY <1>1, <1>2, <1>3, <1>5, <1>6, ListAssumption DEF RingInv, Linked, PointersOK, Live, Ready, Cells
  <2>2. \A m \in Nodes : m # n => home'[m] = home[m]
    BY <1>3 DEF RingInv, PointersOK
  <2>3. home'[n] = h
    BY <1>3 DEF RingInv, PointersOK
  <2> QED
    BY <2>1, <2>2, <2>3, <1>5 DEF Live, Ready
<1>8. List(n)' = h /\ List(h) = h /\ List(p) = h /\ \A c \in Live : List(c)' = List(c)
  BY <1>1, <1>3, <1>5, ListAssumption DEF List, RingInv, PointersOK, Linked, Live, Cells
<1>9. Linked'
  <2> SUFFICES ASSUME NEW c \in Live'
               PROVE  /\ next'[c] \in Live' /\ prev'[next'[c]] = c
                      /\ prev'[c] \in Live' /\ next'[prev'[c]] = c
                      /\ List(next[c])' = List(c)'
    BY DEF Linked
  <2>1. CASE c = n
    BY <2>1, <1>1, <1>6, <1>7, <1>8
  <2>2. CASE c = p
    BY <2>2, <1>1, <1>5, <1>6, <1>7, <1>8, OneNeighbour DEF RingInv, Linked
  <2>3. CASE c = h
    BY <2>3, <1>1, <1>5, <1>6, <1>7, <1>8, OneNeighbour DEF RingInv, Linked
  <2>4. CASE c \in Live /\ c # p /\ c # h
    BY <2>4, <1>1, <1>6, <1>7, <1>8, OneNeighbour DEF RingInv, Linked
  <2> QED
    BY <1>7, <2>1, <2>2, <2>3, <2>4
<1> QED
  BY <1>4, <1>9 DEF RingInv

(* A node that is deleted leaves its neighbours next to each other, and    *)
(* no cell in use with a pointer to it.                                    *)
LEMMA RingsDel ==
  ASSUME RingInv, NEW e \in Nodes, list_del(e)
  PROVE  RingInv'
<1> DEFINE p == prev[e]
           n == next[e]
<1>1. /\ e \in Live /\ p \in Live /\ n \in Live /\ next[p] = e /\ prev[n] = e
      /\ e \in Cells /\ Live \subseteq Cells
  BY DEF list_del, RingInv, Linked, Live, Cells
<1>2. /\ prev' = [prev EXCEPT ![n] = p, ![e] = LIST_POISON2]
      /\ next' = [next EXCEPT ![p] = n, ![e] = LIST_POISON1]
      /\ home' = [home EXCEPT ![e] = NULL]
  BY DEF list_del
<1>3. PointersOK'
  BY <1>1, <1>2 DEF RingInv, PointersOK, Pointer
<1>4. \A c \in Live : c # e =>
        /\ c # p => next'[c] = next[c] /\ next[c] # e
        /\ c = p => next'[c] = n /\ n # e
        /\ c # n => prev'[c] = prev[c] /\ prev[c] # e
        /\ c = n => prev'[c] = p /\ p # e
  BY <1>1, <1>2, OneNeighbour DEF RingInv, PointersOK, Linked
<1>5. Live' = Live \ {e}
  <2>1. \A h \in Heads : (next'[h] # NULL) = (next[h] # NULL)
    <3>1. TAKE h \in Heads
    <3>2. CASE h \in Live
      BY <3>2, <1>1, <1>4, ListAssumption DEF Live, Ready, RingInv, Linked, Cells
    <3>3. CASE h \notin Live
      BY <3>3, <1>1, <1>2, ListAssumption DEF Live, Ready, RingInv, PointersOK, Cells
    <3> QED
      BY <3>2, <3>3
  <2>2. home'[e] = NULL /\ \A m \in Nodes : m # e => home'[m] = home[m]
    BY <1>2 DEF RingInv, PointersOK
  <2> QED
    BY <2>1, <2>2, ListAssumption DEF Live, Ready
<1>6. \A c \in Live : c # e => List(c)' = List(c)
  BY <1>1, <1>2 DEF List, RingInv, PointersOK, Live, Cells
<1>7. List(n) = List(e) /\ List(p) = List(e)
  BY <1>1 DEF RingInv, Linked
<1>8. Linked'
  <2> SUFFICES ASSUME NEW c \in Live, c # e
               PROVE  /\ next'[c] \in Live' /\ prev'[next'[c]] = c
                      /\ prev'[c] \in Live' /\ next'[prev'[c]] = c
                      /\ List(next[c])' = List(c)'
    BY <1>5 DEF Linked
  <2>1. next'[c] \in Live' /\ prev'[next'[c]] = c
    BY <1>1, <1>4, <1>5, OneNeighbour DEF RingInv, Linked
  <2>2. prev'[c] \in Live' /\ next'[prev'[c]] = c
    BY <1>1, <1>4, <1>5, OneNeighbour DEF RingInv, Linked
  <2>3. List(next[c])' = List(c)'
    BY <1>1, <1>4, <1>6, <1>7 DEF RingInv, Linked
  <2> QED
    BY <2>1, <2>2, <2>3
<1> QED
  BY <1>3, <1>8 DEF RingInv

(* Steps that leave the cells alone leave the rings alone.                 *)
LEMMA RingsKept ==
  ASSUME RingInv, UNCHANGED <<next, prev, home>>
  PROVE  RingInv'
BY DEF RingInv, PointersOK, Linked, Live, Ready, List

---------------------------------------------------------------------------
(* What the rings hold: the inductive invariant. *)

(* Cell k of the ring of head h that holds the nodes of q.                 *)
At(h, q, k) == IF k \in 1 .. Len(q) THEN q[k] ELSE h

Distinct(q) == \A j, k \in 1 .. Len(q) : q[j] = q[k] => j = k

Joined(nx, h, q) == \A k \in 0 .. Len(q) : nx[At(h, q, k)] = At(h, q, k + 1)

(* With pointers nx, the ring of h holds the nodes of q, in this order,    *)
(* and these are the nodes that hm puts there.                             *)
Ring(nx, hm, h, q) ==
  /\ q \in Seq(Nodes) /\ Distinct(q) /\ Joined(nx, h, q)
  /\ \A n \in Nodes : hm[n] = h <=> \E k \in 1 .. Len(q) : q[k] = n

Chained ==
  /\ \A h \in Heads : Ready(h) => Ring(next, home, h, Nodewise(h))
  /\ \A n \in Nodes : home[n] # NULL => Ready(home[n])

Walks == [pos : Pointer, n : Pointer, seen : Seq(Nodes), was : Seq(Nodes)]

(* A plain loop is in a list that has not changed since it began.  A safe  *)
(* one holds the entry it is at, which may be gone, and the next; the      *)
(* nodes from there on are in the list as they were.                       *)
WalkOK(h) ==
  LET w == walk[h]
      s == Len(w.seen)
  IN w # NoWalk =>
       /\ Ready(h)
       /\ s <= Len(w.was) /\ \A i \in 1 .. s : w.seen[i] = w.was[i]
       /\ Distinct(w.was)
       /\ w.pos = At(h, w.was, s + 1)
       /\ w.n = NULL => Ring(next, home, h, w.was)
       /\ w.n # NULL /\ w.pos # h =>
            /\ w.n = At(h, w.was, s + 2)
            /\ \A k \in s + 2 .. Len(w.was) :
                 home[w.was[k]] = h /\ next[w.was[k]] = At(h, w.was, k + 1)

WalksOK == walk \in [Heads -> Walks] /\ \A h \in Heads : WalkOK(h)

IInv == RingInv /\ Chained /\ WalksOK

---------------------------------------------------------------------------
(* Nodewise finds the nodes of a ring. *)

(* Succ, Round and Nodewise for pointers nx.                               *)
Hop(nx, c) == IF c \in Cells THEN nx[c] ELSE NULL

RoundBy(nx, h) ==
  LET cell[k \in 0 .. Cardinality(Nodes) + 1] == IF k = 0 THEN h ELSE Hop(nx, cell[k - 1])
  IN cell

Reading(nx, h) ==
  LET cell   == RoundBy(nx, h)
      closes == {k \in 1 .. Cardinality(Nodes) + 1 : cell[k] = h}
      turn   == CHOOSE k \in closes : \A j \in closes : k <= j
  IN IF nx[h] = NULL THEN <<>>
     ELSE IF closes = {} THEN <<h>> ELSE [k \in 1 .. turn - 1 |-> cell[k]]

(* Nodewise reads the pointers next, before a step and after it.           *)
LEMMA NodewiseReads ==
  ASSUME NEW h
  PROVE  Nodewise(h) = Reading(next, h) /\ Nodewise(h)' = Reading(next', h)
  <1>1. Round(h) = RoundBy(next, h)
    BY DEF Round, RoundBy, Succ, Hop
  <1>2. Round(h)' = RoundBy(next', h)
    BY DEF Round, RoundBy, Succ, Hop
  <1>. QED
    BY <1>1, <1>2 DEF Nodewise, Reading, Ready

(* The recursive definition of a round is met by a function.               *)
LEMMA RoundDef ==
  ASSUME NEW nx, NEW h
  PROVE  RoundBy(nx, h)
           = [k \in 0 .. Cardinality(Nodes) + 1 |->
                IF k = 0 THEN h ELSE Hop(nx, RoundBy(nx, h)[k - 1])]
  <1>. DEFINE Rec(f, n) == f = [k \in 0 .. n |-> IF k = 0 THEN h ELSE Hop(nx, f[k - 1])]
              S == {n \in Nat : ~ \E f : Rec(f, n)}
  <1>1. S = {}
    <2>1. SUFFICES ASSUME S # {} PROVE FALSE
      OBVIOUS
    <2>2. PICK n \in S : n \in Nat /\ (n # 0 => n - 1 \in Nat /\ n - 1 \notin S)
      <3>1. S \subseteq Nat
        OBVIOUS
      <3>. HIDE DEF S
      <3>. QED
        BY <2>1, <3>1, FirstFailure
    <2>3. CASE n = 0
      <3>1. Rec([k \in 0 .. 0 |-> h], 0)
        OBVIOUS
      <3>. QED
        BY <2>2, <2>3, <3>1
    <2>4. CASE n # 0
      <3>1. n - 1 \in Nat /\ n - 1 \notin S
        BY <2>2, <2>4
      <3>2. PICK g : Rec(g, n - 1)
        BY <3>1
      <3>3. Rec([k \in 0 .. n |-> IF k = n THEN Hop(nx, g[n - 1]) ELSE g[k]], n)
        BY <2>4, <3>1, <3>2
      <3>. QED
        BY <2>2, <3>3
    <2>. QED
      BY <2>3, <2>4
  <1>2. Cardinality(Nodes) + 1 \in Nat
    BY ListAssumption, FS_CardinalityType
  <1>3. \E f : Rec(f, Cardinality(Nodes) + 1)
    BY <1>1, <1>2
  <1>. QED
    BY <1>3 DEF RoundBy

(* A ring has no more nodes than there are.                                *)
LEMMA RingIsShort ==
  ASSUME NEW q \in Seq(Nodes), Distinct(q)
  PROVE  Len(q) \in Nat /\ Len(q) <= Cardinality(Nodes) /\ Cardinality(Nodes) \in Nat
  <1>1. Len(q) \in Nat /\ q \in [1 .. Len(q) -> Nodes]
    BY LenProperties
  <1>2. q \in Injection(1 .. Len(q), Nodes)
    BY <1>1 DEF Distinct, Injection, IsInjective
  <1>3. Cardinality(1 .. Len(q)) <= Cardinality(Nodes)
    BY <1>2, FS_Injection, ListAssumption
  <1>4. Cardinality(1 .. Len(q)) = Len(q)
    BY <1>1, FS_Interval
  <1>. QED
    BY <1>1, <1>3, <1>4, FS_CardinalityType, ListAssumption

(* Followed from its head on, a ring is the sequence of its nodes.         *)
LEMMA RingRead ==
  ASSUME NEW nx, NEW h \in Heads, NEW q \in Seq(Nodes), Distinct(q), Joined(nx, h, q)
  PROVE  Reading(nx, h) = q
  <1>. DEFINE size   == Cardinality(Nodes) + 1
              cell   == RoundBy(nx, h)
              closes == {k \in 1 .. size : cell[k] = h}
              turn   == CHOOSE k \in closes : \A j \in closes : k <= j
              L      == Len(q)
  <1>1. L \in Nat /\ size \in Nat /\ L + 1 <= size
    BY RingIsShort
  <1>2. q = [k \in 1 .. L |-> q[k]] /\ \A k \in 1 .. L : q[k] \in Nodes
    BY LenProperties
  <1>3. \A k : At(h, q, k) \in Cells
    BY <1>2 DEF At, Cells
  <1>4. \A k \in 1 .. L : At(h, q, k) = q[k] /\ q[k] # h
    BY <1>2, ListAssumption DEF At
  <1>5. At(h, q, 0) = h /\ At(h, q, L + 1) = h
    BY <1>1 DEF At
  <1>6. cell = [k \in 0 .. size |-> IF k = 0 THEN h ELSE Hop(nx, cell[k - 1])]
    BY RoundDef
  <1>. HIDE DEF cell, size, L
  <1>7. \A k \in 0 .. L + 1 : cell[k] = At(h, q, k)
    <2>. DEFINE S == {k \in 0 .. L + 1 : cell[k] # At(h, q, k)}
    <2>1. SUFFICES ASSUME S # {} PROVE FALSE
      OBVIOUS
    <2>2. PICK n \in S : n \in Nat /\ (n # 0 => n - 1 \in Nat /\ n - 1 \notin S)
      <3>1. S \subseteq Nat
        BY <1>1
      <3>. HIDE DEF S
      <3>. QED
        BY <2>1, <3>1, FirstFailure
    <2>3. n \in 0 .. L + 1 /\ n \in 0 .. size
      BY <1>1, <2>2
    <2>4. n # 0
      BY <1>1, <1>5, <1>6, <2>2, <2>3
    <2>5. n - 1 \in 0 .. L /\ cell[n - 1] = At(h, q, n - 1)
      BY <1>1, <2>2, <2>3, <2>4
    <2>6. cell[n] = nx[At(h, q, n - 1)]
      BY <1>3, <1>6, <2>3, <2>4, <2>5 DEF Hop
    <2>7. nx[At(h, q, n - 1)] = At(h, q, (n - 1) + 1)
      BY <2>5 DEF Joined, L
    <2>8. (n - 1) + 1 = n
      BY <2>2
    <2>. QED
      BY <2>2, <2>6, <2>7, <2>8
  <1>8. turn = L + 1 /\ closes # {}
    <2>1. L + 1 \in closes
      BY <1>1, <1>5, <1>7
    <2>2. \A j \in closes : L + 1 <= j
      <3>1. ASSUME NEW j \in closes, ~ (L + 1 <= j) PROVE FALSE
        <4>1. j \in 1 .. L /\ j \in 0 .. L + 1 /\ cell[j] = h
          BY <1>1, <3>1
        <4>. QED
          BY <1>4, <1>7, <4>1
      <3>. QED
        BY <3>1
    <2>3. closes \subseteq Nat
      BY <1>1
    <2>. HIDE DEF closes
    <2>4. \A k \in closes : (\A j \in closes : k <= j) => k = L + 1
      BY <1>1, <2>1, <2>2, <2>3
    <2>. QED
      BY <2>1, <2>2, <2>4
  <1>9. nx[h] # NULL
    <2>1. nx[At(h, q, 0)] = At(h, q, 0 + 1)
      BY <1>1 DEF Joined, L
    <2>. QED
      BY <1>3, <1>5, <2>1, ListAssumption
  <1>10. [k \in 1 .. turn - 1 |-> cell[k]] = q
    <2>. HIDE DEF turn, closes
    <2>1. turn - 1 = L
      BY <1>1, <1>8
    <2>2. \A k \in 1 .. L : cell[k] = q[k]
      BY <1>1, <1>4, <1>7
    <2>. QED
      BY <1>2, <2>1, <2>2
  <1>. QED
    BY <1>8, <1>9, <1>10 DEF Reading, cell, size

---------------------------------------------------------------------------
(* The operations on the rings. *)

(* A ring whose cells keep their pointers, and whose list keeps its nodes, *)
(* stays as it is.                                                         *)
LEMMA RingStays ==
  ASSUME NEW nx, NEW hm, NEW nx2, NEW hm2, NEW h \in Heads, NEW q, Ring(nx, hm, h, q),
         nx2[h] = nx[h],
         \A n \in Nodes : hm[n] = h => nx2[n] = nx[n],
         \A n \in Nodes : hm2[n] = h <=> hm[n] = h
  PROVE  Ring(nx2, hm2, h, q)
  <1>1. \A k \in 1 .. Len(q) : q[k] \in Nodes /\ hm[q[k]] = h
    BY LenProperties DEF Ring
  <1>2. Joined(nx2, h, q)
    <2>1. ASSUME NEW k \in 0 .. Len(q)
          PROVE  nx2[At(h, q, k)] = At(h, q, k + 1)
      <3>1. nx[At(h, q, k)] = At(h, q, k + 1)
        BY DEF Ring, Joined
      <3>2. nx2[At(h, q, k)] = nx[At(h, q, k)]
        BY <1>1 DEF At
      <3>. QED
        BY <3>1, <3>2
    <2>. QED
      BY <2>1 DEF Joined
  <1>. QED
    BY <1>2 DEF Ring

(* A head that has just been initialised is a ring without nodes.          *)
LEMMA EmptyRing ==
  ASSUME NEW nx, NEW hm, NEW h, nx[h] = h, \A n \in Nodes : hm[n] # h
  PROVE  Ring(nx, hm, h, <<>>)
  BY DEF Ring, Distinct, Joined, At

(* The ring read after a step is the one there is.                         *)
LEMMA RingsRead ==
  ASSUME NEW h \in Heads, NEW q
  PROVE  /\ Ring(next, home, h, q) => Nodewise(h) = q
         /\ Ring(next', home', h, q) => Nodewise(h)' = q
  BY NodewiseReads, RingRead DEF Ring

(* The last cell of a ring is the one before its head.                     *)
LEMMA LastCell ==
  ASSUME RingInv, NEW h \in Heads, Ready(h), NEW q, Ring(next, home, h, q)
  PROVE  At(h, q, Len(q)) = prev[h]
  <1>1. Len(q) \in Nat /\ \A k \in 1 .. Len(q) : q[k] \in Nodes /\ home[q[k]] = h
    BY LenProperties DEF Ring
  <1>2. next[At(h, q, Len(q))] = h
    <2>1. next[At(h, q, Len(q))] = At(h, q, Len(q) + 1)
      BY <1>1 DEF Ring, Joined
    <2>2. At(h, q, Len(q) + 1) = h
      BY <1>1 DEF At
    <2>. QED
      BY <2>1, <2>2
  <1>3. At(h, q, Len(q)) \in Live
    BY <1>1, ListAssumption DEF At, Live, Cells
  <1>. QED
    BY <1>2, <1>3 DEF RingInv, Linked

(* The rings at the start.                                                 *)
LEMMA InitChained == Init => Chained /\ \A h \in Heads : Nodewise(h) = <<>>
  <1>. SUFFICES ASSUME Init PROVE Chained /\ \A h \in Heads : Nodewise(h) = <<>>
    OBVIOUS
  <1>1. PICK static \in SUBSET Cells : next = [c \in Cells |-> IF c \in static THEN c ELSE NULL]
    BY DEF Init
  <1>2. home = [n \in Nodes |-> NULL]
    BY DEF Init
  <1>3. ASSUME NEW h \in Heads
        PROVE  Nodewise(h) = <<>> /\ (Ready(h) => Ring(next, home, h, <<>>))
    <2>1. CASE Ready(h)
      <3>1. next[h] = h /\ \A n \in Nodes : home[n] # h
        BY <1>1, <1>2, <2>1, ListAssumption DEF Ready, Cells
      <3>. QED
        BY <3>1, EmptyRing, RingsRead
    <2>2. CASE ~ Ready(h)
      BY <2>2 DEF Nodewise
    <2>. QED
      BY <2>1, <2>2
  <1>. QED
    BY <1>2, <1>3 DEF Chained

(* Initialising a head makes a ring without nodes and keeps the others.    *)
LEMMA InitHeadRings ==
  ASSUME RingInv, Chained, NEW h \in Heads, INIT_LIST_HEAD(h)
  PROVE  /\ \A g \in Heads : Nodewise(g)' = Nodewise(g)
         /\ \A g \in Heads : \A q : Ring(next, home, g, q) /\ Ready(g) => Ring(next', home', g, q)
         /\ \A g \in Heads : Ready(g) => Ready(g)' /\ g # h
         /\ Chained'
  <1>1. /\ h \in Cells /\ next[h] = NULL /\ home' = home
        /\ next' = [next EXCEPT ![h] = h] /\ next \in [Cells -> Pointer] /\ h # NULL
    BY ListAssumption DEF INIT_LIST_HEAD, Ready, Cells, RingInv, PointersOK
  <1>2. \A n \in Nodes : home[n] # h
    BY <1>1, ListAssumption DEF Chained, Ready, Cells
  <1>3. ASSUME NEW g \in Heads, Ready(g) PROVE Ready(g)' /\ g # h
    BY <1>1, <1>3 DEF Ready, Cells
  <1>4. ASSUME NEW g \in Heads, NEW q, Ring(next, home, g, q), Ready(g)
        PROVE  Ring(next', home', g, q)
    <2>1. next'[g] = next[g]
      BY <1>1, <1>3, <1>4
    <2>2. \A n \in Nodes : next'[n] = next[n]
      BY <1>1, ListAssumption DEF Cells
    <2>3. \A n \in Nodes : home'[n] = g <=> home[n] = g
      BY <1>1
    <2>. HIDE DEF Ring
    <2>. QED
      BY <1>4, <2>1, <2>2, <2>3, RingStays
  <1>5. Ring(next', home', h, <<>>)
    BY <1>1, <1>2, EmptyRing
  <1>6. \A g \in Heads : ~ Ready(g) => Nodewise(g) = <<>>
    BY DEF Nodewise
  <1>7. \A g \in Heads : ~ Ready(g)' => Nodewise(g)' = <<>>
    BY DEF Nodewise
  <1>8. \A g \in Heads : Nodewise(g)' = Nodewise(g)
    <2>1. ASSUME NEW g \in Heads PROVE Nodewise(g)' = Nodewise(g)
      <3>1. CASE Ready(g)
        BY <1>4, <3>1, RingsRead DEF Chained
      <3>2. CASE ~ Ready(g) /\ g = h
        BY <1>5, <1>6, <3>2, RingsRead
      <3>3. CASE ~ Ready(g) /\ g # h
        <4>1. ~ Ready(g)'
          BY <1>1, <3>3 DEF Ready, Cells
        <4>. QED
          BY <1>6, <1>7, <3>3, <4>1
      <3>. QED
        BY <3>1, <3>2, <3>3
    <2>. QED
      BY <2>1
  <1>9. Chained'
    <2>1. ASSUME NEW g \in Heads, Ready(g)' PROVE Ring(next', home', g, Nodewise(g)')
      <3>1. CASE g = h
        BY <1>5, <3>1, RingsRead
      <3>2. CASE g # h
        <4>1. Ready(g)
          BY <1>1, <2>1, <3>2 DEF Ready, Cells
        <4>. QED
          BY <1>4, <1>8, <4>1 DEF Chained
      <3>. QED
        BY <3>1, <3>2
    <2>2. ASSUME NEW n \in Nodes, home'[n] # NULL PROVE Ready(home[n])'
      <3>1. Ready(home[n]) /\ home[n] \in Heads
        BY <1>1, <2>2 DEF Chained, RingInv, PointersOK
      <3>2. Ready(home[n])' <=> next'[home'[n]] # NULL
        BY DEF Ready
      <3>3. next'[home[n]] # NULL
        BY <1>3, <3>1 DEF Ready
      <3>. QED
        BY <1>1, <3>2, <3>3
    <2>. QED
      BY <2>1, <2>2 DEF Chained
  <1>. QED
    BY <1>3, <1>4, <1>8, <1>9

(* A node that is added comes last in its list, and the others stay.       *)
LEMMA AddRings ==
  ASSUME RingInv, Chained, NEW h \in Heads, NEW n \in Nodes, list_add_tail(n, h)
  PROVE  /\ Ring(next', home', h, Append(Nodewise(h), n))
         /\ \A g \in Heads : \A q : Ring(next, home, g, q) /\ g # h => Ring(next', home', g, q)
         /\ \A g \in Heads : Ready(g) <=> Ready(g)'
         /\ \A m \in Nodes : home[m] # NULL /\ home[m] # h
                               => next'[m] = next[m] /\ home'[m] = home[m]
         /\ home[n] = NULL /\ home' = [home EXCEPT ![n] = h]
  <1>. DEFINE p == prev[h]
              q == Nodewise(h)
              L == Len(q)
              r == Append(q, n)
  <1>1. /\ h \in Live /\ p \in Live /\ n \notin Live /\ n \in Cells /\ h \in Cells
        /\ next[p] = h /\ Ready(h) /\ n # h /\ n # p /\ Live \subseteq Cells
        /\ home[n] = NULL /\ h # NULL
    BY ListAssumption DEF list_add_tail, RingInv, Linked, Live, Cells
  <1>2. /\ next' = [next EXCEPT ![n] = h, ![p] = n]
        /\ home' = [home EXCEPT ![n] = h]
        /\ next \in [Cells -> Pointer] /\ home \in [Nodes -> Heads \cup {NULL}]
    BY DEF list_add_tail, LinkAtTail, ListAdd, RingInv, PointersOK
  <1>3. /\ next'[n] = h /\ next'[p] = n
        /\ \A c \in Cells : c # n /\ c # p => next'[c] = next[c]
    BY <1>1, <1>2
  <1>4. List(p) = h
    BY <1>1 DEF RingInv, Linked, List
  <1>5. Ring(next, home, h, q)
    BY <1>1 DEF Chained
  <1>6. L \in Nat /\ \A k \in 1 .. L : q[k] \in Nodes /\ q[k] # h /\ home[q[k]] = h /\ q[k] # n
    BY <1>1, <1>5, LenProperties, ListAssumption DEF Ring
  <1>7. p = At(h, q, L)
    BY <1>1, <1>5, LastCell
  <1>8. /\ r \in Seq(Nodes) /\ Len(r) = L + 1
        /\ \A k \in 1 .. L : r[k] = q[k]
        /\ r[L + 1] = n
    BY <1>5, AppendProperties DEF Ring
  <1>. HIDE DEF p, q, L, r
  <1>9. Distinct(r)
    BY <1>5, <1>6, <1>8 DEF Ring, Distinct, L
  <1>10. \A k \in 0 .. L : At(h, r, k) = At(h, q, k)
    BY <1>6, <1>8 DEF At, L
  <1>11. At(h, r, L + 1) = n /\ At(h, r, (L + 1) + 1) = h
    BY <1>6, <1>8 DEF At
  <1>12. \A k \in 0 .. L - 1 : /\ At(h, q, k) \in Cells
                               /\ At(h, q, k) # n /\ next[At(h, q, k)] = At(h, q, k + 1)
                               /\ At(h, q, k + 1) = q[k + 1]
    <2>1. \A k \in 0 .. L - 1 : k + 1 \in 1 .. L /\ k \in 0 .. L
      BY <1>6
    <2>2. \A k \in 0 .. L : next[At(h, q, k)] = At(h, q, k + 1)
      BY <1>5 DEF Ring, Joined, L
    <2>3. \A k \in 1 .. L : At(h, q, k) = q[k]
      BY DEF At, L
    <2>4. \A k : At(h, q, k) = h \/ \E j \in 1 .. L : At(h, q, k) = q[j]
      BY DEF At, L
    <2>. QED
      BY <1>1, <1>6, <2>1, <2>2, <2>3, <2>4 DEF Cells
  <1>13. Joined(next', h, r)
    <2>1. ASSUME NEW k \in 0 .. Len(r)
          PROVE  next'[At(h, r, k)] = At(h, r, k + 1)
      <3>1. CASE k \in 0 .. L - 1
        <4>1. At(h, r, k) = At(h, q, k) /\ At(h, r, k + 1) = At(h, q, k + 1)
          BY <1>6, <1>10, <3>1
        <4>2. At(h, q, k) # p
          BY <1>1, <1>6, <1>12, <3>1
        <4>. QED
          BY <1>3, <1>12, <3>1, <4>1, <4>2
      <3>2. CASE k = L
        BY <1>3, <1>6, <1>7, <1>10, <1>11, <3>2
      <3>3. CASE k = L + 1
        BY <1>3, <1>11, <3>3
      <3>. QED
        BY <1>6, <1>8, <2>1, <3>1, <3>2, <3>3
    <2>. QED
      BY <2>1 DEF Joined
  <1>14. \A m \in Nodes : home'[m] = h <=> \E k \in 1 .. Len(r) : r[k] = m
    <2>1. ASSUME NEW m \in Nodes
          PROVE  home'[m] = h <=> \E k \in 1 .. Len(r) : r[k] = m
      <3>1. (\E k \in 1 .. Len(r) : r[k] = m) <=> m = n \/ \E k \in 1 .. L : q[k] = m
        <4>1. \A k : k \in 1 .. Len(r) <=> k \in 1 .. L \/ k = L + 1
          BY <1>6, <1>8
        <4>. QED
          BY <1>8, <4>1
      <3>2. home[m] = h <=> \E k \in 1 .. L : q[k] = m
        BY <1>5 DEF Ring, L
      <3>3. home'[m] = IF m = n THEN h ELSE home[m]
        BY <1>2
      <3>. QED
        BY <3>1, <3>2, <3>3
    <2>. QED
      BY <2>1
  <1>15. Ring(next', home', h, r)
    BY <1>8, <1>9, <1>13, <1>14 DEF Ring
  <1>16. ASSUME NEW g \in Heads, NEW s, Ring(next, home, g, s), g # h
         PROVE  Ring(next', home', g, s)
    <2>1. g # n /\ g # p /\ g \in Cells
      BY <1>4, <1>16, ListAssumption DEF List, Cells
    <2>2. \A m \in Nodes : home[m] = g => m # n /\ m # p /\ m \in Cells
      BY <1>1, <1>4, <1>16, ListAssumption DEF List, Cells
    <2>3. next'[g] = next[g] /\ \A m \in Nodes : home[m] = g => next'[m] = next[m]
      BY <1>3, <2>1, <2>2
    <2>4. \A m \in Nodes : home'[m] = g <=> home[m] = g
      BY <1>1, <1>2, <1>16, ListAssumption DEF Cells
    <2>. QED
      BY <1>16, <2>3, <2>4, RingStays, SMTT(30)
  <1>17. \A g \in Heads : Ready(g) <=> Ready(g)'
    <2>1. ASSUME NEW g \in Heads PROVE Ready(g) <=> Ready(g)'
      <3>1. g \in Cells /\ g # n
        BY ListAssumption DEF Cells
      <3>2. next[p] # NULL /\ n # NULL
        BY <1>1, ListAssumption
      <3>. QED
        BY <1>3, <3>1, <3>2 DEF Ready
    <2>. QED
      BY <2>1
  <1>18. ASSUME NEW m \in Nodes, home[m] # NULL, home[m] # h
         PROVE  next'[m] = next[m] /\ home'[m] = home[m]
    <2>1. m # n /\ m # p /\ m \in Cells
      BY <1>1, <1>4, <1>18, ListAssumption DEF List, Cells
    <2>. QED
      BY <1>2, <1>3, <2>1
  <1>. QED
    BY <1>1, <1>2, <1>15, <1>16, <1>17, <1>18 DEF q, r

(* What the lists are after a node was added.                              *)
LEMMA AddReads ==
  ASSUME RingInv, Chained, NEW h \in Heads, NEW n \in Nodes, list_add_tail(n, h)
  PROVE  /\ Chained'
         /\ \A g \in Heads : Nodewise(g)' = IF g = h THEN Append(Nodewise(h), n) ELSE Nodewise(g)
  <1>1. Nodewise(h)' = Append(Nodewise(h), n)
    BY AddRings, RingsRead
  <1>2. ASSUME NEW g \in Heads, g # h PROVE Nodewise(g)' = Nodewise(g)
    <2>1. CASE Ready(g)
      <3>1. Ring(next, home, g, Nodewise(g))
        BY <2>1 DEF Chained
      <3>2. Ring(next', home', g, Nodewise(g))
        BY <1>2, <3>1, AddRings
      <3>. QED
        BY <3>2, RingsRead
    <2>2. CASE ~ Ready(g)
      <3>1. ~ Ready(g)'
        BY <2>2, AddRings
      <3>. QED
        BY <2>2, <3>1 DEF Nodewise
    <2>. QED
      BY <2>1, <2>2
  <1>3. ASSUME NEW g \in Heads, Ready(g)' PROVE Ring(next', home', g, Nodewise(g)')
    <2>1. Ready(g)
      BY <1>3, AddRings
    <2>2. Ring(next, home, g, Nodewise(g))
      BY <2>1 DEF Chained
    <2>3. CASE g = h
      BY <1>1, <2>3, AddRings
    <2>4. CASE g # h
      BY <1>2, <2>2, <2>4, AddRings
    <2>. QED
      BY <2>3, <2>4
  <1>4. ASSUME NEW m \in Nodes, home'[m] # NULL PROVE Ready(home[m])'
    <2>1. Ready(home[m])' <=> next'[home'[m]] # NULL
      BY DEF Ready
    <2>2. home'[m] \in Heads /\ Ready(home'[m])
      <3>1. home' = [home EXCEPT ![n] = h] /\ Ready(h) /\ home \in [Nodes -> Heads \cup {NULL}]
        BY AddRings DEF list_add_tail, RingInv, PointersOK
      <3>. QED
        BY <1>4, <3>1 DEF Chained
    <2>3. \A g \in Heads : Ready(g) => next'[g] # NULL
      BY AddRings DEF Ready
    <2>. QED
      BY <2>1, <2>2, <2>3
  <1>. QED
    BY <1>1, <1>2, <1>3, <1>4 DEF Chained

(* A sequence without its entry k.                                         *)
Without(q, k) == SubSeq(q, 1, k - 1) \o SubSeq(q, k + 1, Len(q))

(* It has one entry less, and the later ones have moved up.               *)
LEMMA WithoutProperties ==
  ASSUME NEW q \in Seq(Nodes), NEW k \in 1 .. Len(q)
  PROVE  /\ Without(q, k) \in Seq(Nodes)
         /\ Len(Without(q, k)) = Len(q) - 1
         /\ \A j \in 1 .. Len(q) - 1 : Without(q, k)[j] = IF j < k THEN q[j] ELSE q[j + 1]
  <1>. DEFINE a == SubSeq(q, 1, k - 1)
              b == SubSeq(q, k + 1, Len(q))
              L == Len(q)
  <1>1. L \in Nat /\ k \in Nat /\ 1 <= k /\ k <= L /\ \A j \in 1 .. L : q[j] \in Nodes
    BY LenProperties
  <1>2. a \in Seq(Nodes) /\ Len(a) = k - 1 /\ \A j \in 1 .. k - 1 : a[j] = q[j]
    <2>1. /\ \A j \in 1 .. k - 1 : q[j] \in Nodes
          /\ 1 \in Int /\ k - 1 \in Int
      BY <1>1
    <2>2. /\ a \in Seq(Nodes)
          /\ Len(a) = IF 1 <= k - 1 THEN (k - 1) - 1 + 1 ELSE 0
          /\ \A j \in 1 .. (k - 1) - 1 + 1 : a[j] = q[1 + j - 1]
      BY <2>1, SubSeqProperties
    <2>3. \A j \in 1 .. k - 1 : j \in 1 .. (k - 1) - 1 + 1 /\ 1 + j - 1 = j
      BY <1>1
    <2>. HIDE DEF a
    <2>4. \A j \in 1 .. k - 1 : a[j] = q[j]
      BY <2>2, <2>3
    <2>5. Len(a) = k - 1
      BY <1>1, <2>2
    <2>. QED
      BY <2>2, <2>4, <2>5
  <1>3. b \in Seq(Nodes) /\ Len(b) = L - k /\ \A j \in 1 .. L - k : b[j] = q[k + j]
    <2>1. /\ \A j \in k + 1 .. L : q[j] \in Nodes
          /\ k + 1 \in Int /\ L \in Int
      BY <1>1
    <2>2. /\ b \in Seq(Nodes)
          /\ Len(b) = IF k + 1 <= L THEN L - (k + 1) + 1 ELSE 0
          /\ \A j \in 1 .. L - (k + 1) + 1 : b[j] = q[(k + 1) + j - 1]
      BY <2>1, SubSeqProperties
    <2>3. \A j \in 1 .. L - k : j \in 1 .. L - (k + 1) + 1 /\ (k + 1) + j - 1 = k + j
      BY <1>1
    <2>. HIDE DEF b, L
    <2>4. \A j \in 1 .. L - k : b[j] = q[k + j]
      BY <2>2, <2>3
    <2>5. Len(b) = L - k
      BY <1>1, <2>2
    <2>. QED
      BY <2>2, <2>4, <2>5
  <1>. HIDE DEF a, b, L
  <1>4. /\ a \o b \in Seq(Nodes)
        /\ Len(a \o b) = L - 1
    <2>1. a \o b \in Seq(Nodes) /\ Len(a \o b) = Len(a) + Len(b)
      BY <1>2, <1>3, ConcatProperties
    <2>. QED
      BY <1>1, <1>2, <1>3, <2>1
  <1>5. ASSUME NEW j \in 1 .. L - 1
        PROVE  (a \o b)[j] = IF j < k THEN q[j] ELSE q[j + 1]
    <2>1. (a \o b)[j] = IF j <= Len(a) THEN a[j] ELSE b[j - Len(a)]
      <3>1. j \in 1 .. Len(a) + Len(b)
        BY <1>1, <1>2, <1>3
      <3>. QED
        BY <1>2, <1>3, <3>1, ConcatProperties
    <2>2. CASE j < k
      BY <1>1, <1>2, <2>1, <2>2
    <2>3. CASE ~ (j < k)
      <3>1. j - (k - 1) \in 1 .. L - k /\ k + (j - (k - 1)) = j + 1 /\ ~ (j <= k - 1)
        BY <1>1, <2>3
      <3>2. (a \o b)[j] = b[j - (k - 1)]
        BY <1>2, <2>1, <3>1
      <3>. QED
        BY <1>3, <2>3, <3>1, <3>2
    <2>. QED
      BY <2>2, <2>3
  <1>. QED
    BY <1>4, <1>5 DEF Without, a, b, L

(* A node that is deleted is taken out of its list, and the other lists    *)
(* and their nodes stay.                                                   *)
LEMMA DelRings ==
  ASSUME RingInv, Chained, NEW e \in Nodes, list_del(e)
  PROVE  /\ home[e] \in Heads /\ Ready(home[e]) /\ home' = [home EXCEPT ![e] = NULL]
         /\ \E k \in 1 .. Len(Nodewise(home[e])) :
              /\ Nodewise(home[e])[k] = e
              /\ Ring(next', home', home[e], Without(Nodewise(home[e]), k))
         /\ \A g \in Heads : \A q : Ring(next, home, g, q) /\ g # home[e]
                                      => Ring(next', home', g, q)
         /\ \A g \in Heads : Ready(g) <=> Ready(g)'
         /\ \A m \in Nodes : home[m] # NULL /\ m # e /\ next[m] # e => next'[m] = next[m]
         /\ \A m \in Nodes : home[m] # NULL /\ home[m] # home[e] => next'[m] = next[m]
  <1>. DEFINE p == prev[e]
              n == next[e]
              h == home[e]
              q == Nodewise(h)
              L == Len(q)
  <1>1. /\ e \in Live /\ p \in Live /\ n \in Live /\ next[p] = e /\ prev[n] = e
        /\ e \in Cells /\ Live \subseteq Cells /\ h \in Heads /\ h # NULL /\ h \in Cells
        /\ h # e
    BY ListAssumption DEF list_del, RingInv, Linked, Live, Cells, PointersOK
  <1>2. /\ next' = [next EXCEPT ![p] = n, ![e] = LIST_POISON1]
        /\ home' = [home EXCEPT ![e] = NULL]
        /\ next \in [Cells -> Pointer] /\ home \in [Nodes -> Heads \cup {NULL}]
    BY DEF list_del, RingInv, PointersOK
  <1>3. /\ p # e => next'[p] = n
        /\ \A c \in Cells : c # e /\ c # p => next'[c] = next[c]
    BY <1>1, <1>2
  <1>4. List(p) = h /\ List(n) = h
    BY <1>1, ListAssumption DEF RingInv, Linked, List
  <1>5. Ready(h) /\ Ring(next, home, h, q)
    BY <1>1 DEF Chained
  <1>. HIDE DEF h, q
  <1>6. L \in Nat /\ \A k \in 1 .. L : q[k] \in Nodes /\ q[k] # h /\ home[q[k]] = h
    BY <1>1, <1>5, LenProperties, ListAssumption DEF Ring
  <1>7. PICK k \in 1 .. L : q[k] = e
    BY <1>5 DEF Ring, h
  <1>. DEFINE r == Without(q, k)
  <1>8. /\ r \in Seq(Nodes) /\ Len(r) = L - 1
        /\ \A j \in 1 .. L - 1 : r[j] = IF j < k THEN q[j] ELSE q[j + 1]
    BY <1>5, <1>7, WithoutProperties DEF Ring
  <1>9. \A j \in 0 .. L : next[At(h, q, j)] = At(h, q, j + 1)
    BY <1>5 DEF Ring, Joined
  <1>10. \A i, j \in 1 .. L : q[i] = q[j] => i = j
    BY <1>5 DEF Ring, Distinct
  <1>11. /\ \A j \in 1 .. L : At(h, q, j) = q[j]
         /\ At(h, q, 0) = h /\ At(h, q, L + 1) = h
    BY <1>6 DEF At
  <1>. HIDE DEF p, n, L, r
  <1>12. \A j \in 0 .. L : At(h, r, j) = IF j < k THEN At(h, q, j) ELSE At(h, q, j + 1)
    <2>1. ASSUME NEW j \in 0 .. L
          PROVE  At(h, r, j) = IF j < k THEN At(h, q, j) ELSE At(h, q, j + 1)
      <3>1. CASE j \in 1 .. L - 1
        <4>1. At(h, r, j) = r[j]
          BY <1>8, <3>1 DEF At
        <4>2. j \in 1 .. L /\ j + 1 \in 1 .. L
          BY <1>6, <3>1
        <4>. QED
          BY <1>8, <1>11, <3>1, <4>1, <4>2
      <3>2. CASE j = 0
        <4>1. At(h, r, j) = h
          BY <1>8, <3>2 DEF At
        <4>. QED
          BY <1>7, <1>11, <3>2, <4>1
      <3>3. CASE j = L
        <4>1. At(h, r, j) = h
          BY <1>6, <1>8, <3>3 DEF At
        <4>. QED
          BY <1>6, <1>7, <1>11, <3>3, <4>1
      <3>. QED
        BY <1>6, <2>1, <3>1, <3>2, <3>3
    <2>. QED
      BY <2>1
  <1>13. \A j \in 0 .. L + 1 : /\ At(h, q, j) \in Live
                               /\ j # k => At(h, q, j) # e
    <2>1. ASSUME NEW j \in 0 .. L + 1
          PROVE  At(h, q, j) \in Live /\ (j # k => At(h, q, j) # e)
      <3>1. CASE j \in 1 .. L
        BY <1>1, <1>6, <1>7, <1>10, <1>11, <3>1 DEF Live
      <3>2. CASE j = 0 \/ j = L + 1
        BY <1>1, <1>5, <1>11, <3>2 DEF Live
      <3>. QED
        BY <1>6, <2>1, <3>1, <3>2
    <2>. QED
      BY <2>1
  <1>14. At(h, q, k - 1) = p /\ n = At(h, q, k + 1)
    <2>1. k - 1 \in 0 .. L /\ (k - 1) + 1 = k /\ k \in 0 .. L
      BY <1>6, <1>7
    <2>2. next[At(h, q, k - 1)] = e /\ next[e] = At(h, q, k + 1)
      BY <1>7, <1>9, <1>11, <2>1
    <2>3. At(h, q, k - 1) \in Live
      BY <1>6, <1>13, <2>1
    <2>. QED
      BY <2>2, <2>3 DEF RingInv, Linked, p, n
  <1>15. ASSUME NEW j \in 0 .. L, j # k, j # k - 1
         PROVE  next'[At(h, q, j)] = At(h, q, j + 1)
    <2>1. At(h, q, j) \in Live /\ At(h, q, j) # e /\ At(h, q, j + 1) # e
      <3>1. j \in 0 .. L + 1 /\ j + 1 \in 0 .. L + 1 /\ j + 1 # k
        BY <1>6, <1>7, <1>15
      <3>. QED
        BY <1>13, <1>15, <3>1
    <2>2. At(h, q, j) # p
      BY <1>1, <1>9, <2>1
    <2>. QED
      BY <1>1, <1>3, <1>9, <2>1, <2>2
  <1>16. Joined(next', h, r)
    <2>1. ASSUME NEW j \in 0 .. Len(r)
          PROVE  next'[At(h, r, j)] = At(h, r, j + 1)
      <3>1. j \in 0 .. L /\ j + 1 \in 0 .. L /\ j \in Nat
        BY <1>6, <1>7, <1>8
      <3>2. CASE j < k - 1
        <4>1. At(h, r, j) = At(h, q, j) /\ At(h, r, j + 1) = At(h, q, j + 1)
          BY <1>7, <1>12, <3>1, <3>2
        <4>. QED
          BY <1>7, <1>15, <3>1, <3>2, <4>1
      <3>3. CASE j = k - 1
        <4>1. At(h, r, j) = At(h, q, k - 1) /\ At(h, r, j + 1) = At(h, q, k + 1)
          BY <1>7, <1>12, <3>1, <3>3
        <4>2. p # e
          <5>1. k - 1 \in 0 .. L + 1 /\ k - 1 # k
            BY <1>6, <1>7
          <5>. QED
            BY <1>13, <1>14, <5>1
        <4>. QED
          BY <1>3, <1>14, <4>1, <4>2
      <3>4. CASE j >= k
        <4>1. At(h, r, j) = At(h, q, j + 1) /\ At(h, r, j + 1) = At(h, q, (j + 1) + 1)
          BY <1>7, <1>12, <3>1, <3>4
        <4>2. j + 1 # k /\ j + 1 # k - 1
          BY <1>7, <3>1, <3>4
        <4>. QED
          BY <1>15, <3>1, <4>1, <4>2
      <3>. QED
        BY <1>7, <3>1, <3>2, <3>3, <3>4
    <2>. QED
      BY <2>1 DEF Joined
  <1>17. Distinct(r)
    <2>1. ASSUME NEW i \in 1 .. L - 1, NEW j \in 1 .. L - 1, r[i] = r[j] PROVE i = j
      <3>1. i \in 1 .. L /\ i + 1 \in 1 .. L /\ j \in 1 .. L /\ j + 1 \in 1 .. L
        BY <1>6
      <3>2. r[i] = IF i < k THEN q[i] ELSE q[i + 1]
        BY <1>8
      <3>3. r[j] = IF j < k THEN q[j] ELSE q[j + 1]
        BY <1>8
      <3>. DEFINE x == IF i < k THEN i ELSE i + 1
                  y == IF j < k THEN j ELSE j + 1
      <3>4. x \in 1 .. L /\ y \in 1 .. L /\ r[i] = q[x] /\ r[j] = q[y]
        BY <3>1, <3>2, <3>3
      <3>5. x = y
        <4>. HIDE DEF x, y
        <4>. QED
          BY <1>10, <2>1, <3>4
      <3>. QED
        BY <1>6, <1>7, <3>5
    <2>. QED
      BY <1>8, <2>1 DEF Distinct
  <1>18. \A m \in Nodes : home'[m] = h <=> \E j \in 1 .. Len(r) : r[j] = m
    <2>1. ASSUME NEW m \in Nodes
          PROVE  home'[m] = h <=> \E j \in 1 .. Len(r) : r[j] = m
      <3>1. home'[m] = IF m = e THEN NULL ELSE home[m]
        BY <1>2
      <3>2. home[m] = h <=> \E j \in 1 .. L : q[j] = m
        BY <1>5 DEF Ring, L
      <3>3. ASSUME NEW j \in 1 .. L, q[j] = m, m # e PROVE \E i \in 1 .. Len(r) : r[i] = m
        <4>1. CASE j < k
          <5>1. j \in 1 .. L - 1
            BY <1>6, <1>7, <4>1
          <5>. QED
            BY <1>8, <3>3, <4>1, <5>1
        <4>2. CASE j > k
          <5>1. j - 1 \in 1 .. L - 1 /\ ~ (j - 1 < k) /\ (j - 1) + 1 = j
            BY <1>6, <1>7, <4>2
          <5>2. r[j - 1] = q[j]
            BY <1>8, <5>1
          <5>. QED
            BY <1>8, <3>3, <5>1, <5>2
        <4>. QED
          BY <1>7, <3>3, <4>1, <4>2
      <3>4. ASSUME NEW j \in 1 .. L - 1, r[j] = m PROVE m # e /\ \E i \in 1 .. L : q[i] = m
        <4>1. j \in 1 .. L /\ j + 1 \in 1 .. L
          BY <1>6
        <4>2. r[j] = IF j < k THEN q[j] ELSE q[j + 1]
          BY <1>8
        <4>. QED
          BY <1>7, <1>10, <3>4, <4>1, <4>2
      <3>. QED
        BY <1>1, <1>8, <3>1, <3>2, <3>3, <3>4
    <2>. QED
      BY <2>1
  <1>19. Ring(next', home', h, r)
    BY <1>8, <1>16, <1>17, <1>18 DEF Ring
  <1>20. ASSUME NEW m \in Nodes, home[m] # NULL, home[m] # h
         PROVE  next'[m] = next[m]
    <2>1. m # e /\ m # p /\ m \in Cells
      BY <1>4, <1>20, ListAssumption DEF List, Cells, h
    <2>. QED
      BY <1>3, <2>1
  <1>21. ASSUME NEW g \in Heads, NEW s, Ring(next, home, g, s), g # h
         PROVE  Ring(next', home', g, s)
    <2>1. g # e /\ g # p /\ g \in Cells /\ g # NULL
      BY <1>4, <1>21, ListAssumption DEF List, Cells
    <2>2. next'[g] = next[g]
      BY <1>3, <2>1
    <2>3. \A m \in Nodes : home[m] = g => next'[m] = next[m]
      BY <1>20, <1>21, <2>1
    <2>4. \A m \in Nodes : home'[m] = g <=> home[m] = g
      BY <1>2, <1>21, <2>1 DEF h
    <2>. HIDE DEF h
    <2>5. Ring(next, home, g, s)
      BY <1>21
    <2>. QED
      BY <2>2, <2>3, <2>4, <2>5, RingStays
  <1>22. \A g \in Heads : Ready(g) <=> Ready(g)'
    <2>1. ASSUME NEW g \in Heads PROVE Ready(g) <=> Ready(g)'
      <3>1. g \in Cells /\ g # e
        BY ListAssumption DEF Cells
      <3>2. next[p] # NULL /\ n # NULL
        BY <1>1, ListAssumption DEF Cells
      <3>. QED
        BY <1>3, <3>1, <3>2 DEF Ready
    <2>. QED
      BY <2>1
  <1>23. ASSUME NEW m \in Nodes, home[m] # NULL, m # e, next[m] # e
         PROVE  next'[m] = next[m]
    BY <1>1, <1>3, <1>23 DEF Cells
  <1>. QED
    BY <1>1, <1>2, <1>5, <1>7, <1>19, <1>20, <1>21, <1>22, <1>23 DEF h, q, r, L

---------------------------------------------------------------------------
(* The loops. *)

(* What a loop holds, from the type of walk.                               *)
LEMMA WalkType ==
  ASSUME WalksOK, NEW h \in Heads
  PROVE  /\ walk[h] \in Walks /\ walk[h].pos \in Pointer /\ walk[h].n \in Pointer
         /\ walk[h].seen \in Seq(Nodes) /\ walk[h].was \in Seq(Nodes)
         /\ Len(walk[h].seen) \in Nat /\ Len(walk[h].was) \in Nat
         /\ \A k \in 1 .. Len(walk[h].was) : walk[h].was[k] \in Nodes
         /\ \A k \in 1 .. Len(walk[h].seen) : walk[h].seen[k] \in Nodes
         /\ walk[h] = [pos |-> walk[h].pos, n |-> walk[h].n,
                       seen |-> walk[h].seen, was |-> walk[h].was]
  <1>1. walk[h] \in Walks
    BY DEF WalksOK
  <1>2. /\ walk[h].pos \in Pointer /\ walk[h].n \in Pointer
        /\ walk[h].seen \in Seq(Nodes) /\ walk[h].was \in Seq(Nodes)
        /\ walk[h] = [pos |-> walk[h].pos, n |-> walk[h].n,
                      seen |-> walk[h].seen, was |-> walk[h].was]
    BY <1>1 DEF Walks
  <1>. QED
    BY <1>1, <1>2, LenProperties

(* A loop over a list that a step leaves alone goes on as before.          *)
LEMMA WalkStays ==
  ASSUME WalksOK, NEW h \in Heads, walk'[h] = walk[h],
         Ready(h) => Ready(h)',
         \A q : Ready(h) /\ Ring(next, home, h, q) => Ring(next', home', h, q),
         \A m \in Nodes : home[m] = h => home'[m] = h /\ next'[m] = next[m]
  PROVE  WalkOK(h)'
  <1>. DEFINE w == walk[h]
              s == Len(w.seen)
  <1>1. /\ s \in Nat /\ Len(w.was) \in Nat
        /\ \A k \in 1 .. Len(w.was) : w.was[k] \in Nodes
    BY WalkType
  <1>2. WalkOK(h)
    BY DEF WalksOK
  <1>. HIDE DEF Ring
  <1>3. SUFFICES ASSUME w # NoWalk
        PROVE /\ Ready(h)'
              /\ w.n = NULL => Ring(next', home', h, w.was)
              /\ w.n # NULL /\ w.pos # h =>
                   \A k \in s + 2 .. Len(w.was) :
                     home'[w.was[k]] = h /\ next'[w.was[k]] = At(h, w.was, k + 1)
    BY <1>2 DEF WalkOK
  <1>4. Ready(h) /\ (w.n = NULL => Ring(next, home, h, w.was))
    BY <1>2, <1>3 DEF WalkOK
  <1>5. ASSUME w.n # NULL, w.pos # h, NEW k \in s + 2 .. Len(w.was)
        PROVE  home'[w.was[k]] = h /\ next'[w.was[k]] = At(h, w.was, k + 1)
    <2>1. home[w.was[k]] = h /\ next[w.was[k]] = At(h, w.was, k + 1)
      BY <1>2, <1>3, <1>5 DEF WalkOK
    <2>2. k \in 1 .. Len(w.was)
      BY <1>1
    <2>3. w.was[k] \in Nodes
      BY <1>1, <2>2
    <2>. QED
      BY <2>1, <2>3
  <1>. QED
    BY <1>4, <1>5

(* A step that leaves pointers, lists and a loop alone.                    *)
LEMMA WalkIdle ==
  ASSUME WalksOK, NEW h \in Heads, walk'[h] = walk[h], UNCHANGED <<next, home>>
  PROVE  WalkOK(h)'
  <1>1. Ready(h) => Ready(h)'
    BY DEF Ready
  <1>2. \A q : Ready(h) /\ Ring(next, home, h, q) => Ring(next', home', h, q)
    OBVIOUS
  <1>3. \A m \in Nodes : home[m] = h => home'[m] = h /\ next'[m] = next[m]
    OBVIOUS
  <1>. HIDE DEF Ring
  <1>. QED
    BY <1>1, <1>2, <1>3, WalkStays

(* No loop is under way at the start.                                      *)
LEMMA InitWalks == Init => WalksOK
  <1>1. <<>> \in Seq(Nodes)
    OBVIOUS
  <1>2. NoWalk \in Walks
    BY <1>1 DEF NoWalk, Walks, Pointer
  <1>. QED
    BY <1>2 DEF Init, WalksOK, WalkOK

(* No loop is over a list whose head is initialised only now.              *)
LEMMA InitHeadWalks ==
  ASSUME IInv, NEW h \in Heads, INIT_LIST_HEAD(h)
  PROVE  WalksOK'
  <1>1. walk' = walk /\ home' = home /\ next' = [next EXCEPT ![h] = h] /\ next \in [Cells -> Pointer]
    BY DEF INIT_LIST_HEAD, IInv, RingInv, PointersOK
  <1>2. RingInv /\ Chained /\ WalksOK
    BY DEF IInv
  <1>3. ASSUME NEW g \in Heads PROVE WalkOK(g)'
    <2>1. Ready(g) => Ready(g)'
      BY <1>2, InitHeadRings
    <2>2. \A q : Ready(g) /\ Ring(next, home, g, q) => Ring(next', home', g, q)
      BY <1>2, InitHeadRings
    <2>3. \A m \in Nodes : home[m] = g => home'[m] = g /\ next'[m] = next[m]
      BY <1>1, ListAssumption DEF Cells
    <2>. QED
      BY <1>1, <1>2, <2>1, <2>2, <2>3, WalkStays
  <1>. QED
    BY <1>1, <1>2, <1>3 DEF WalksOK

(* No loop is over a list to which a node is added, and the other loops    *)
(* do not hold the node.                                                   *)
LEMMA AddWalks ==
  ASSUME IInv, NEW h \in Heads, NEW n \in Nodes, list_add_tail(n, h)
  PROVE  WalksOK'
  <1>1. walk' = walk /\ walk[h] = NoWalk
    BY DEF list_add_tail
  <1>2. RingInv /\ Chained /\ WalksOK
    BY DEF IInv
  <1>3. ASSUME NEW g \in Heads PROVE WalkOK(g)'
    <2>1. CASE g = h
      BY <1>1, <2>1 DEF WalkOK
    <2>2. CASE g # h
      <3>1. Ready(g) => Ready(g)'
        BY <1>2, AddRings
      <3>2. \A q : Ready(g) /\ Ring(next, home, g, q) => Ring(next', home', g, q)
        BY <1>2, <2>2, AddRings
      <3>3. \A m \in Nodes : home[m] = g => home'[m] = g /\ next'[m] = next[m]
        <4>1. g # NULL
          BY ListAssumption DEF Cells
        <4>. QED
          BY <1>2, <2>2, <4>1, AddRings
      <3>. QED
        BY <1>1, <1>2, <3>1, <3>2, <3>3, WalkStays
    <2>. QED
      BY <2>1, <2>2
  <1>. QED
    BY <1>1, <1>2, <1>3 DEF WalksOK

(* A safe loop does not need the entry it is at.                           *)
LEMMA DelWalks ==
  ASSUME IInv, NEW e \in Nodes, list_del(e)
  PROVE  WalksOK'
  <1>1. /\ walk' = walk
        /\ walk[home[e]] = NoWalk \/ (walk[home[e]].pos = e /\ walk[home[e]].n # NULL)
    BY DEF list_del
  <1>2. RingInv /\ Chained /\ WalksOK
    BY DEF IInv
  <1>3. home[e] \in Heads /\ home' = [home EXCEPT ![e] = NULL] /\ home \in [Nodes -> Heads \cup {NULL}]
    BY <1>2, DelRings DEF RingInv, PointersOK
  <1>4. ASSUME NEW g \in Heads PROVE WalkOK(g)'
    <2>0. g # NULL
      BY ListAssumption DEF Cells
    <2>1. CASE walk[g] = NoWalk
      BY <1>1, <2>1 DEF WalkOK
    <2>2. CASE g # home[e]
      <3>1. Ready(g) => Ready(g)'
        BY <1>2, DelRings
      <3>2. \A q : Ready(g) /\ Ring(next, home, g, q) => Ring(next', home', g, q)
        BY <1>2, <2>2, DelRings
      <3>3. \A m \in Nodes : home[m] = g => home'[m] = g /\ next'[m] = next[m]
        <4>1. \A m \in Nodes : home[m] = g => next'[m] = next[m]
          BY <1>2, <2>0, <2>2, DelRings
        <4>. QED
          BY <1>3, <2>2, <4>1
      <3>. QED
        BY <1>1, <1>2, <3>1, <3>2, <3>3, WalkStays
    <2>3. CASE g = home[e] /\ walk[g] # NoWalk
      <3>. DEFINE w == walk[g]
                  s == Len(w.seen)
      <3>1. w.pos = e /\ w.n # NULL /\ w.pos # g
        BY <1>1, <2>3, ListAssumption
      <3>2. WalkOK(g)
        BY <1>2 DEF WalksOK
      <3>3. /\ s \in Nat /\ Len(w.was) \in Nat
            /\ \A k \in 1 .. Len(w.was) : w.was[k] \in Nodes
        BY <1>2, WalkType
      <3>4. /\ Ready(g) /\ s <= Len(w.was) /\ Distinct(w.was)
            /\ w.pos = At(g, w.was, s + 1)
            /\ \A k \in s + 2 .. Len(w.was) :
                 home[w.was[k]] = g /\ next[w.was[k]] = At(g, w.was, k + 1)
        BY <2>3, <3>1, <3>2 DEF WalkOK
      <3>5. s + 1 \in 1 .. Len(w.was) /\ w.was[s + 1] = e
        BY <3>1, <3>4 DEF At
      <3>6. Ready(g)'
        BY <1>2, <3>4, DelRings
      <3>7. ASSUME NEW k \in s + 2 .. Len(w.was)
            PROVE  home'[w.was[k]] = g /\ next'[w.was[k]] = At(g, w.was, k + 1)
        <4>1. k \in 1 .. Len(w.was) /\ k # s + 1 /\ k + 1 # s + 1
          BY <3>3
        <4>2. w.was[k] \in Nodes /\ w.was[k] # e
          BY <3>3, <3>4, <3>5, <4>1 DEF Distinct
        <4>3. At(g, w.was, k + 1) # e
          BY <3>1, <3>4, <3>5, <4>1 DEF Distinct, At
        <4>4. home[w.was[k]] = g /\ next[w.was[k]] = At(g, w.was, k + 1)
          BY <3>4
        <4>. HIDE DEF w
        <4>5. next'[w.was[k]] = next[w.was[k]]
          BY <1>2, <2>0, <4>2, <4>3, <4>4, DelRings
        <4>. QED
          BY <1>3, <4>2, <4>4, <4>5
      <3>. QED
        BY <1>1, <3>1, <3>2, <3>6, <3>7 DEF WalkOK
    <2>. QED
      BY <2>1, <2>2, <2>3
  <1>. QED
    BY <1>1, <1>2, <1>4 DEF WalksOK

(* A loop that begins holds the first nodes of its list.                   *)
LEMMA BeginWalks ==
  ASSUME IInv, NEW h \in Heads, list_for_each_entry(h) \/ list_for_each_entry_safe(h)
  PROVE  WalksOK'
  <1>. DEFINE q == Nodewise(h)
              w == walk'[h]
  <1>1. RingInv /\ Chained /\ WalksOK /\ Ready(h) /\ UNCHANGED <<next, prev, home>>
    BY DEF IInv, list_for_each_entry, list_for_each_entry_safe
  <1>2. Ring(next, home, h, q)
    BY <1>1 DEF Chained
  <1>3. q \in Seq(Nodes) /\ Len(q) \in Nat /\ \A k \in 1 .. Len(q) : q[k] \in Nodes
    BY <1>2, LenProperties DEF Ring
  <1>4. next[h] = At(h, q, 1)
    <2>1. next[At(h, q, 0)] = At(h, q, 0 + 1)
      BY <1>2, <1>3 DEF Ring, Joined
    <2>2. At(h, q, 0) = h
      BY DEF At
    <2>. QED
      BY <2>1, <2>2
  <1>5. \A k : At(h, q, k) \in Cells
    BY <1>3 DEF At, Cells
  <1>6. next \in [Cells -> Pointer] /\ NULL \in Pointer /\ Cells \subseteq Pointer
    BY <1>1 DEF RingInv, PointersOK, Pointer
  <1>7. PICK n \in Pointer :
          /\ walk' = [walk EXCEPT ![h] = [pos |-> next[h], n |-> n, seen |-> <<>>, was |-> q]]
          /\ n # NULL => n = next[next[h]]
    <2>1. Succ(next[h]) = next[next[h]] /\ next[next[h]] \in Pointer
      BY <1>4, <1>5, <1>6 DEF Succ
    <2>. QED
      BY <1>6, <2>1 DEF list_for_each_entry, list_for_each_entry_safe
  <1>. HIDE DEF q
  <1>8. walk' \in [Heads -> Walks] /\ w = [pos |-> next[h], n |-> n, seen |-> <<>>, was |-> q]
    <2>1. [pos |-> next[h], n |-> n, seen |-> <<>>, was |-> q] \in Walks
      BY <1>3, <1>4, <1>5, <1>6 DEF Walks
    <2>. QED
      BY <1>1, <1>7, <2>1 DEF WalksOK
  <1>9. /\ w.pos = At(h, q, 1) /\ w.n = n /\ w.seen = <<>> /\ w.was = q /\ Len(w.seen) = 0
    BY <1>4, <1>8
  <1>10. Ready(h)' /\ Ring(next', home', h, q) /\ Distinct(q)
    BY <1>1, <1>2 DEF Ready, Ring
  <1>11. ASSUME n # NULL, w.pos # h
         PROVE  /\ n = At(h, q, 2)
                /\ \A k \in 2 .. Len(q) : home'[q[k]] = h /\ next'[q[k]] = At(h, q, k + 1)
    <2>1. At(h, q, 1) = q[1] /\ 1 \in 0 .. Len(q)
      BY <1>3, <1>9, <1>11 DEF At
    <2>2. next[At(h, q, 1)] = At(h, q, 1 + 1)
      BY <1>2, <2>1 DEF Ring, Joined
    <2>3. ASSUME NEW k \in 2 .. Len(q)
          PROVE  home[q[k]] = h /\ next[q[k]] = At(h, q, k + 1)
      <3>1. k \in 1 .. Len(q) /\ k \in 0 .. Len(q) /\ At(h, q, k) = q[k]
        BY <1>3 DEF At
      <3>2. next[At(h, q, k)] = At(h, q, k + 1)
        BY <1>2, <3>1 DEF Ring, Joined
      <3>. QED
        BY <1>2, <1>3, <3>1, <3>2 DEF Ring
    <2>. QED
      BY <1>1, <1>4, <1>7, <1>11, <2>2, <2>3
  <1>12. WalkOK(h)'
    <2>. HIDE DEF w, Ring
    <2>1. WalkOK(h)' <=>
            (w # NoWalk =>
               /\ Ready(h)'
               /\ Len(w.seen) <= Len(w.was)
               /\ \A i \in 1 .. Len(w.seen) : w.seen[i] = w.was[i]
               /\ Distinct(w.was)
               /\ w.pos = At(h, w.was, Len(w.seen) + 1)
               /\ w.n = NULL => Ring(next', home', h, w.was)
               /\ w.n # NULL /\ w.pos # h =>
                    /\ w.n = At(h, w.was, Len(w.seen) + 2)
                    /\ \A k \in Len(w.seen) + 2 .. Len(w.was) :
                         home'[w.was[k]] = h /\ next'[w.was[k]] = At(h, w.was, k + 1))
      BY DEF WalkOK, w
    <2>. QED
      BY <1>3, <1>9, <1>10, <1>11, <2>1
  <1>13. ASSUME NEW g \in Heads, g # h PROVE WalkOK(g)'
    <2>1. walk'[g] = walk[g]
      BY <1>1, <1>7, <1>13 DEF WalksOK
    <2>. QED
      BY <1>1, <2>1, WalkIdle
  <1>. QED
    BY <1>8, <1>12, <1>13 DEF WalksOK

(* A loop that goes on has seen one more node, and holds the next ones.    *)
LEMMA AdvanceWalks ==
  ASSUME IInv, NEW h \in Heads, Advance(h)
  PROVE  WalksOK'
  <1>. DEFINE v == walk[h]
              w == walk'[h]
              s == Len(v.seen)
              q == v.was
  <1>1. RingInv /\ Chained /\ WalksOK /\ WalkOK(h) /\ UNCHANGED <<next, prev, home>>
    BY DEF IInv, Advance, WalksOK
  <1>2. v # NoWalk /\ v.pos # h
    BY DEF Advance
  <1>3. /\ v \in Walks /\ v.pos \in Pointer /\ v.n \in Pointer
        /\ v.seen \in Seq(Nodes) /\ q \in Seq(Nodes)
        /\ s \in Nat /\ Len(q) \in Nat
        /\ \A k \in 1 .. Len(q) : q[k] \in Nodes
        /\ v = [pos |-> v.pos, n |-> v.n, seen |-> v.seen, was |-> q]
    BY <1>1, WalkType
  <1>4. /\ Ready(h) /\ s <= Len(q) /\ \A i \in 1 .. s : v.seen[i] = q[i]
        /\ Distinct(q)
        /\ v.pos = At(h, q, s + 1)
        /\ v.n = NULL => Ring(next, home, h, q)
        /\ v.n # NULL =>
             /\ v.n = At(h, q, s + 2)
             /\ \A k \in s + 2 .. Len(q) : home[q[k]] = h /\ next[q[k]] = At(h, q, k + 1)
    BY <1>1, <1>2 DEF WalkOK
  <1>5. s + 1 \in 1 .. Len(q) /\ v.pos = q[s + 1] /\ v.pos \in Nodes /\ s + 1 <= Len(q)
    BY <1>2, <1>3, <1>4 DEF At
  <1>6. \A k : At(h, q, k) \in Cells
    BY <1>3 DEF At, Cells
  <1>7. next \in [Cells -> Pointer] /\ NULL \in Pointer /\ Cells \subseteq Pointer /\ NULL \notin Cells
    BY <1>1, ListAssumption DEF RingInv, PointersOK, Pointer
  <1>. DEFINE n2  == IF v.n = NULL THEN NULL ELSE Succ(v.n)
              new == [pos |-> After(v), n |-> n2, seen |-> Append(v.seen, v.pos), was |-> q]
  <1>8. walk' = [walk EXCEPT ![h] = new]
    BY DEF Advance
  <1>9. After(v) = At(h, q, s + 2)
    <2>1. CASE v.n = NULL
      <3>1. After(v) = next[v.pos]
        BY <1>5, <2>1 DEF After, Succ, Cells
      <3>2. Ring(next, home, h, q) /\ s + 1 \in 0 .. Len(q) /\ At(h, q, s + 1) = v.pos
        BY <1>3, <1>4, <1>5, <2>1
      <3>3. next[At(h, q, s + 1)] = At(h, q, (s + 1) + 1)
        BY <3>2 DEF Ring, Joined
      <3>4. (s + 1) + 1 = s + 2
        BY <1>3
      <3>. QED
        BY <3>1, <3>2, <3>3, <3>4
    <2>2. CASE v.n # NULL
      BY <1>4, <2>2 DEF After
    <2>. QED
      BY <2>1, <2>2
  <1>10. ASSUME v.n # NULL
         PROVE  n2 # NULL /\ n2 = next[At(h, q, s + 2)]
    <2>1. v.n = At(h, q, s + 2) /\ n2 = next[v.n]
      BY <1>4, <1>6, <1>10 DEF Succ
    <2>2. v.n \in Live
      <3>1. CASE s + 2 \in 1 .. Len(q)
        <4>1. s + 2 \in s + 2 .. Len(q) /\ v.n = q[s + 2]
          BY <1>3, <2>1, <3>1 DEF At
        <4>2. home[q[s + 2]] = h /\ q[s + 2] \in Nodes
          BY <1>3, <1>4, <1>10, <3>1, <4>1
        <4>. QED
          BY <1>7, <4>1, <4>2 DEF Live, Cells
      <3>2. CASE s + 2 \notin 1 .. Len(q)
        BY <1>4, <2>1, <3>2 DEF At, Live
      <3>. QED
        BY <3>1, <3>2
    <2>3. next[v.n] \in Live
      BY <1>1, <2>2 DEF RingInv, Linked
    <2>. QED
      BY <1>7, <2>1, <2>3 DEF Live, Cells
  <1>11. n2 \in Pointer
    BY <1>4, <1>6, <1>7, <1>10
  <1>12. /\ Append(v.seen, v.pos) \in Seq(Nodes)
         /\ Len(Append(v.seen, v.pos)) = s + 1
         /\ \A i \in 1 .. s : Append(v.seen, v.pos)[i] = v.seen[i]
         /\ Append(v.seen, v.pos)[s + 1] = v.pos
    BY <1>3, <1>5, AppendProperties
  <1>13. walk' \in [Heads -> Walks] /\ w = new
    <2>1. new \in Walks
      BY <1>3, <1>6, <1>7, <1>9, <1>11, <1>12 DEF Walks
    <2>. HIDE DEF new
    <2>. QED
      BY <1>1, <1>8, <2>1 DEF WalksOK
  <1>. DEFINE a == Append(v.seen, v.pos)
  <1>14. /\ w.pos = At(h, q, s + 2) /\ w.n = n2 /\ w.was = q
         /\ w.seen = a
    BY <1>9, <1>13
  <1>15. /\ Len(a) = s + 1 /\ s + 1 <= Len(q)
         /\ \A i \in 1 .. s + 1 : a[i] = q[i]
    <2>. HIDE DEF v, q, s
    <2>1. \A i \in 1 .. s + 1 : i \in 1 .. s \/ i = s + 1
      BY <1>3
    <2>. QED
      BY <1>4, <1>5, <1>12, <2>1
  <1>. HIDE DEF a, v, q, s, n2, new, w, Ring
  <1>16. /\ s + 1 <= Len(q)
         /\ n2 = NULL => Ring(next', home', h, q)
         /\ Ready(h)' /\ Distinct(q)
    <2>1. n2 = NULL => v.n = NULL
      BY <1>10
    <2>. QED
      BY <1>1, <1>4, <1>5, <2>1 DEF Ready
  <1>17. ASSUME n2 # NULL, w.pos # h
         PROVE  /\ n2 = At(h, q, s + 3)
                /\ \A k \in s + 3 .. Len(q) : home'[q[k]] = h /\ next'[q[k]] = At(h, q, k + 1)
    <2>1. v.n # NULL
      BY <1>17 DEF n2
    <2>2. \A k \in s + 2 .. Len(q) : home[q[k]] = h /\ next[q[k]] = At(h, q, k + 1)
      BY <1>4, <2>1
    <2>3. s + 2 \in s + 2 .. Len(q) /\ At(h, q, s + 2) = q[s + 2] /\ (s + 2) + 1 = s + 3
      BY <1>3, <1>14, <1>17 DEF At
    <2>4. n2 = At(h, q, s + 3)
      BY <1>10, <2>1, <2>2, <2>3
    <2>5. \A k \in s + 3 .. Len(q) : k \in s + 2 .. Len(q)
      BY <1>3
    <2>. QED
      BY <1>1, <2>2, <2>4, <2>5
  <1>18. WalkOK(h)'
    <2>1. WalkOK(h)' <=>
            (w # NoWalk =>
               /\ Ready(h)'
               /\ Len(w.seen) <= Len(w.was)
               /\ \A i \in 1 .. Len(w.seen) : w.seen[i] = w.was[i]
               /\ Distinct(w.was)
               /\ w.pos = At(h, w.was, Len(w.seen) + 1)
               /\ w.n = NULL => Ring(next', home', h, w.was)
               /\ w.n # NULL /\ w.pos # h =>
                    /\ w.n = At(h, w.was, Len(w.seen) + 2)
                    /\ \A k \in Len(w.seen) + 2 .. Len(w.was) :
                         home'[w.was[k]] = h /\ next'[w.was[k]] = At(h, w.was, k + 1))
      BY DEF WalkOK, w
    <2>2. Len(a) + 1 = s + 2 /\ Len(a) + 2 = s + 3
      BY <1>3, <1>15
    <2>. QED
      BY <1>14, <1>15, <1>16, <1>17, <2>1, <2>2
  <1>19. ASSUME NEW g \in Heads, g # h PROVE WalkOK(g)'
    <2>1. walk'[g] = walk[g]
      BY <1>1, <1>8, <1>19 DEF WalksOK
    <2>. QED
      BY <1>1, <2>1, WalkIdle
  <1>. QED
    BY <1>13, <1>18, <1>19 DEF WalksOK

(* A loop that is left holds nothing.                                      *)
LEMMA LeaveWalks ==
  ASSUME IInv, NEW h \in Heads, Leave(h)
  PROVE  WalksOK'
  <1>1. WalksOK /\ UNCHANGED <<next, prev, home>> /\ walk' = [walk EXCEPT ![h] = NoWalk]
    BY DEF IInv, Leave
  <1>2. <<>> \in Seq(Nodes)
    OBVIOUS
  <1>3. NoWalk \in Walks
    BY <1>2 DEF NoWalk, Walks, Pointer
  <1>4. walk' \in [Heads -> Walks] /\ walk'[h] = NoWalk
    BY <1>1, <1>3 DEF WalksOK
  <1>5. WalkOK(h)'
    BY <1>4 DEF WalkOK
  <1>6. ASSUME NEW g \in Heads, g # h PROVE WalkOK(g)'
    <2>1. walk'[g] = walk[g]
      BY <1>1, <1>6 DEF WalksOK
    <2>. QED
      BY <1>1, <2>1, WalkIdle
  <1>. QED
    BY <1>4, <1>5, <1>6 DEF WalksOK

---------------------------------------------------------------------------
(* The inductive invariant. *)

(* At the start there are rings without nodes, and no loops.               *)
LEMMA InitInv == Init => IInv
  BY RingsInit, InitChained, InitWalks DEF IInv

(* What an operation that changes no pointers leaves as it was.            *)
LEMMA ChainedKept ==
  ASSUME Chained, UNCHANGED <<next, home>>
  PROVE  Chained' /\ \A h \in Heads : Nodewise(h)' = Nodewise(h)
  <1>1. \A h \in Heads : Nodewise(h)' = Nodewise(h)
    BY NodewiseReads
  <1>2. \A h \in Heads : Ready(h)' <=> Ready(h)
    BY DEF Ready
  <1>3. \A n \in Nodes : Ready(home[n])' <=> Ready(home[n])
    BY DEF Ready
  <1>. HIDE DEF Ring
  <1>. QED
    BY <1>1, <1>2, <1>3 DEF Chained

(* What the lists are after a node was deleted.                            *)
LEMMA DelReads ==
  ASSUME RingInv, Chained, NEW e \in Nodes, list_del(e)
  PROVE  /\ Chained'
         /\ \E k \in 1 .. Len(Nodewise(home[e])) :
              /\ Nodewise(home[e])[k] = e
              /\ \A g \in Heads : Nodewise(g)' = IF g = home[e] THEN Without(Nodewise(g), k)
                                                 ELSE Nodewise(g)
  <1>0. PICK h \in Heads : h = home[e]
    BY DelRings
  <1>1. Ready(h) /\ home' = [home EXCEPT ![e] = NULL]
    BY <1>0, DelRings
  <1>2. PICK k \in 1 .. Len(Nodewise(h)) :
          /\ Nodewise(h)[k] = e
          /\ Ring(next', home', h, Without(Nodewise(h), k))
    BY <1>0, DelRings
  <1>3. Nodewise(h)' = Without(Nodewise(h), k)
    BY <1>2, RingsRead
  <1>4. ASSUME NEW g \in Heads, g # h PROVE Nodewise(g)' = Nodewise(g)
    <2>1. CASE Ready(g)
      <3>1. Ring(next', home', g, Nodewise(g))
        BY <1>0, <1>4, <2>1, DelRings DEF Chained
      <3>. QED
        BY <3>1, RingsRead
    <2>2. CASE ~ Ready(g)
      <3>1. ~ Ready(g)'
        BY <2>2, DelRings
      <3>. QED
        BY <2>2, <3>1 DEF Nodewise
    <2>. QED
      BY <2>1, <2>2
  <1>5. ASSUME NEW g \in Heads, Ready(g)' PROVE Ring(next', home', g, Nodewise(g)')
    <2>1. Ready(g)
      BY <1>5, DelRings
    <2>2. Ring(next, home, g, Nodewise(g))
      BY <2>1 DEF Chained
    <2>3. CASE g = h
      BY <1>2, <1>3, <2>3
    <2>4. CASE g # h
      BY <1>0, <1>4, <2>2, <2>4, DelRings
    <2>. QED
      BY <2>3, <2>4
  <1>6. ASSUME NEW m \in Nodes, home'[m] # NULL PROVE Ready(home[m])'
    <2>1. Ready(home[m])' <=> next'[home'[m]] # NULL
      BY DEF Ready
    <2>2. home'[m] \in Heads /\ Ready(home'[m])
      BY <1>1, <1>6 DEF Chained, RingInv, PointersOK
    <2>3. \A g \in Heads : Ready(g) => next'[g] # NULL
      BY DelRings DEF Ready
    <2>. QED
      BY <2>1, <2>2, <2>3
  <1>. QED
    BY <1>0, <1>2, <1>3, <1>4, <1>5, <1>6 DEF Chained

(* One step for each operation.                                            *)
LEMMA NextInv == IInv /\ [Next]_vars => IInv'
  <1>. SUFFICES ASSUME IInv, [Next]_vars PROVE IInv'
    OBVIOUS
  <1>1. RingInv /\ Chained /\ WalksOK
    BY DEF IInv
  <1>2. CASE UNCHANGED vars
    <2>1. \A h \in Heads : WalkOK(h)'
      BY <1>1, <1>2, WalkIdle DEF vars
    <2>2. WalksOK'
      BY <1>1, <1>2, <2>1 DEF vars, WalksOK
    <2>. QED
      BY <1>1, <1>2, <2>2, RingsKept, ChainedKept DEF vars, IInv
  <1>3. ASSUME NEW h \in Heads, INIT_LIST_HEAD(h) PROVE IInv'
    BY <1>1, <1>3, RingsInitHead, InitHeadRings, InitHeadWalks DEF IInv
  <1>4. ASSUME NEW h \in Heads, list_for_each_entry(h) \/ list_for_each_entry_safe(h)
        PROVE  IInv'
    BY <1>1, <1>4, RingsKept, ChainedKept, BeginWalks
    DEF IInv, list_for_each_entry, list_for_each_entry_safe
  <1>5. ASSUME NEW h \in Heads, Advance(h) PROVE IInv'
    BY <1>1, <1>5, RingsKept, ChainedKept, AdvanceWalks DEF IInv, Advance
  <1>6. ASSUME NEW h \in Heads, Leave(h) PROVE IInv'
    BY <1>1, <1>6, RingsKept, ChainedKept, LeaveWalks DEF IInv, Leave
  <1>7. ASSUME NEW h \in Heads, NEW n \in Nodes, list_add_tail(n, h) PROVE IInv'
    BY <1>1, <1>7, RingsAdd, AddReads, AddWalks DEF IInv
  <1>8. ASSUME NEW n \in Nodes, list_del(n) PROVE IInv'
    BY <1>1, <1>8, RingsDel, DelReads, DelWalks DEF IInv
  <1>. QED
    BY <1>2, <1>3, <1>4, <1>5, <1>6, <1>7, <1>8 DEF Next

---------------------------------------------------------------------------
(* Theorems. *)

(* The inductive invariant holds in every behaviour: the pointers are      *)
(* closed rings, each holds the nodes of its list, and a loop holds what   *)
(* it needs to find the rest of its list.                                  *)
THEOREM Invariance == Spec => []IInv
  BY InitInv, NextInv, PTL DEF Spec

(* The rings of all lists stay closed both ways and apart, in every        *)
(* behaviour, for any number of lists and nodes, whatever loops are under  *)
(* way.                                                                    *)
THEOREM RingsStayLinked == Spec => []Linked
  <1>1. IInv => Linked
    BY DEF IInv, RingInv
  <1>. QED
    BY <1>1, Invariance, PTL

(* A loop is given every entry its list had when it began, once and in     *)
(* order, also when a safe loop deletes the entries it is given.           *)
THEOREM AlwaysWalkExact == Spec => []WalkExact
  <1>1. ASSUME IInv, NEW h \in Heads, walk[h] # NoWalk
        PROVE  /\ walk[h].seen = SubSeq(walk[h].was, 1, Len(walk[h].seen))
               /\ walk[h].pos = IF walk[h].seen = walk[h].was THEN h
                                ELSE walk[h].was[Len(walk[h].seen) + 1]
    <2>. DEFINE v == walk[h].seen
                q == walk[h].was
                s == Len(v)
    <2>1. /\ v \in Seq(Nodes) /\ q \in Seq(Nodes) /\ s \in Nat /\ Len(q) \in Nat
          /\ \A k \in 1 .. Len(q) : q[k] \in Nodes
      BY <1>1, WalkType DEF IInv
    <2>2. s <= Len(q) /\ (\A i \in 1 .. s : v[i] = q[i]) /\ walk[h].pos = At(h, q, s + 1)
      BY <1>1 DEF IInv, WalksOK, WalkOK
    <2>3. v = SubSeq(q, 1, s)
      <3>. HIDE DEF v, q, s
      <3>1. \A i \in 1 .. s : q[i] \in Nodes
        BY <2>1, <2>2
      <3>2. /\ SubSeq(q, 1, s) \in Seq(Nodes)
            /\ Len(SubSeq(q, 1, s)) = IF 1 <= s THEN s - 1 + 1 ELSE 0
            /\ \A i \in 1 .. s - 1 + 1 : SubSeq(q, 1, s)[i] = q[1 + i - 1]
        BY <2>1, <3>1, SubSeqProperties
      <3>3. Len(SubSeq(q, 1, s)) = s
        BY <2>1, <3>2
      <3>4. \A i \in 1 .. s : SubSeq(q, 1, s)[i] = v[i]
        <4>1. \A i \in 1 .. s : i \in 1 .. s - 1 + 1 /\ 1 + i - 1 = i
          BY <2>1
        <4>. QED
          BY <2>2, <3>2, <4>1
      <3>. DEFINE u == SubSeq(q, 1, s)
      <3>5. u \in Seq(Nodes) /\ Len(u) = s /\ \A i \in 1 .. s : u[i] = v[i]
        BY <3>2, <3>3, <3>4
      <3>. HIDE DEF u
      <3>6. u = v
        BY <2>1, <3>5, SeqEqual DEF s
      <3>. QED
        BY <3>6 DEF u
    <2>4. v = q <=> s = Len(q)
      <3>1. ASSUME s = Len(q) PROVE v = q
        BY <2>1, <2>2, <3>1, SeqEqual
      <3>. QED
        BY <3>1
    <2>. HIDE DEF v, q, s
    <2>5. walk[h].pos = IF v = q THEN h ELSE q[s + 1]
      BY <2>1, <2>2, <2>4 DEF At
    <2>. QED
      BY <2>3, <2>5 DEF v, q, s
  <1>2. IInv => WalkExact
    BY <1>1 DEF WalkExact
  <1>. QED
    BY <1>2, Invariance, PTL

---------------------------------------------------------------------------
(* PghalList implements ListSpec. *)

(* The initial states are those of ListSpec.                               *)
LEMMA InitRefines == Init => Lines!Init
  BY InitChained DEF Lines!Init

(* Adding and deleting are the steps of ListSpec, and all others leave its *)
(* sequences alone.                                                        *)
LEMMA NextRefines ==
  IInv /\ [Next]_vars => [Lines!Next]_([h \in Heads |-> Nodewise(h)])
  <1>. DEFINE line == [h \in Heads |-> Nodewise(h)]
  <1>. SUFFICES ASSUME IInv, [Next]_vars PROVE Lines!Next \/ line' = line
    OBVIOUS
  <1>1. RingInv /\ Chained
    BY DEF IInv
  <1>2. ASSUME UNCHANGED <<next, home>> PROVE line' = line
    BY <1>1, <1>2, ChainedKept
  <1>3. ASSUME NEW h \in Heads, INIT_LIST_HEAD(h) PROVE line' = line
    BY <1>1, <1>3, InitHeadRings
  <1>4. ASSUME NEW h \in Heads, NEW n \in Nodes, list_add_tail(n, h) PROVE Lines!AddTail(n, h)
    <2>1. ASSUME NEW g \in Heads PROVE n \notin Lines!ToSet(line[g])
      <3>1. \A k \in 1 .. Len(Nodewise(g)) : Nodewise(g)[k] # n
        <4>1. CASE Ready(g)
          <5>1. Ring(next, home, g, Nodewise(g)) /\ home[n] = NULL /\ g # NULL
            BY <1>1, <1>4, <4>1, ListAssumption DEF Chained, list_add_tail, Cells
          <5>. QED
            BY <5>1 DEF Ring
        <4>2. CASE ~ Ready(g)
          BY <4>2 DEF Nodewise
        <4>. QED
          BY <4>1, <4>2
      <3>. QED
        BY <3>1 DEF Lines!ToSet
    <2>2. line' = [line EXCEPT ![h] = Append(@, n)]
      BY <1>1, <1>4, AddReads
    <2>. QED
      BY <2>1, <2>2 DEF Lines!AddTail
  <1>5. ASSUME NEW n \in Nodes, list_del(n) PROVE Lines!Del(n, home[n]) /\ home[n] \in Heads
    <2>1. home[n] \in Heads
      BY <1>1, <1>5, DelRings
    <2>2. PICK k \in 1 .. Len(Nodewise(home[n])) :
              /\ Nodewise(home[n])[k] = n
              /\ \A g \in Heads : Nodewise(g)' = IF g = home[n] THEN Without(Nodewise(g), k)
                                                 ELSE Nodewise(g)
      BY <1>1, <1>5, DelReads
    <2>3. line' = [line EXCEPT ![home[n]] = Lines!RemoveAt(@, k)]
      BY <2>1, <2>2 DEF Lines!RemoveAt, Without
    <2>4. line[home[n]] = Nodewise(home[n])
      BY <2>1
    <2>. HIDE DEF line
    <2>. QED
      BY <2>1, <2>2, <2>3, <2>4 DEF Lines!Del, line
  <1>6. CASE UNCHANGED vars
    BY <1>2, <1>6 DEF vars
  <1>7. CASE Next
    <2>1. PICK h \in Heads :
            \/ INIT_LIST_HEAD(h)
            \/ list_for_each_entry(h) \/ list_for_each_entry_safe(h)
            \/ Advance(h) \/ Leave(h)
            \/ \E n \in Nodes : list_add_tail(n, h) \/ list_del(n)
      BY <1>7 DEF Next
    <2>. HIDE DEF line
    <2>2. CASE INIT_LIST_HEAD(h)
      BY <1>3, <2>2
    <2>3. CASE \/ list_for_each_entry(h) \/ list_for_each_entry_safe(h)
               \/ Advance(h) \/ Leave(h)
      BY <1>2, <2>3 DEF list_for_each_entry, list_for_each_entry_safe, Advance, Leave
    <2>4. CASE \E n \in Nodes : list_add_tail(n, h) \/ list_del(n)
      BY <1>4, <1>5, <2>4 DEF Lines!Next
    <2>. QED
      BY <2>1, <2>2, <2>3, <2>4
  <1>. QED
    BY <1>6, <1>7

(* Followed forwards, the rings are in every behaviour the sequences that  *)
(* ListSpec promises: nodes in the order of adding, less the deleted ones. *)
THEOREM Refinement == Spec => Implements
  BY InitRefines, NextRefines, Invariance, PTL DEF Spec, Implements, Lines!Spec

=============================================================================
