--------------------------- MODULE ProgramProofs ---------------------------
(* Proofs about Program, for any number of sockets, descriptors, cells and *)
(* jobs.                                                                   *)
EXTENDS Program, Induction, FiniteSetTheorems, TLAPS

-----------------------------------------------------------------------------
(* Lemmas about the operations of Exceptions, for any number of cells: a   *)
(* list of messages that is whole, what is added to it, copied from it and *)
(* deleted with it, and what is left when one of its messages is gone.     *)
Content == {Unmapped, Text, Address}
               \cup [kind : {"message"}, type : Type, buf : Ptr, empty : BOOLEAN, next : Ptr]
Heaps == [Cell -> Content]
ExceptionRecords == [type : Type, first : Ptr, last : Ptr, print : Ptr]
Outcomes == [heap : Heaps, exc : ExceptionRecords, dead : BOOLEAN]

IsMessage(h, c) == h[c].kind = "message"

(* s is the way through the list of e, up to Null or to what is no message.*)
Path(h, e, s) ==
    /\ s \in Seq(Cell)
    /\ \A i, j \in 1..Len(s) : s[i] = s[j] => i = j
    /\ e.first = IF Len(s) = 0 THEN Null ELSE s[1]
    /\ \A i \in 1..Len(s) : Behind(h, s[i]) = IF i = Len(s) THEN Null ELSE s[i + 1]

(* The messages of e are s. *)
Whole(h, e, s) ==
    /\ Path(h, e, s)
    /\ \A i \in 1..Len(s) : IsMessage(h, s[i])
    /\ e.last = IF Len(s) = 0 THEN Null ELSE s[Len(s)]

(* Some message of e is gone. *)
Broken(h, e) == \E s : Path(h, e, s) /\ \E i \in 1..Len(s) : ~IsMessage(h, s[i])

(* g is h without some of its cells. *)
Shrunk(g, h) == \A c \in Cell : g[c] = h[c] \/ g[c] = Unmapped

(* A sequence of different cells is not longer than there are cells. *)
LEMMA PathLength ==
    ASSUME NEW h, NEW e, NEW s, Path(h, e, s)
    PROVE  Len(s) \in Nat /\ Len(s) <= Cells
<1>1. s \in Seq(Cell) /\ \A i, j \in 1..Len(s) : s[i] = s[j] => i = j
  BY DEF Path
<1>2. Len(s) \in Nat /\ s \in [1..Len(s) -> Cell]
  BY <1>1
<1>3. IsFiniteSet(1..Len(s)) /\ Cardinality(1..Len(s)) = Len(s)
  <2>1. 1 \in Int /\ Len(s) \in Int
    BY <1>2
  <2>2. QED
    BY <1>2, <2>1, FS_Interval, SMTT(30)
<1>4. IsFiniteSet(Cell) /\ Cardinality(Cell) = Cells
  <2>1. 1 \in Int /\ Cells \in Int
    BY CellsAssumption
  <2>2. QED
    BY CellsAssumption, <2>1, FS_Interval, SMTT(30) DEF Cell
<1>5. ~(Cells < Len(s))
  <2> SUFFICES ASSUME Cells < Len(s) PROVE FALSE
    OBVIOUS
  <2>1. \E i, j \in 1..Len(s) : i # j /\ s[i] = s[j]
    BY <1>2, <1>3, <1>4, FS_PigeonHole
  <2>2. QED
    BY <1>1, <2>1
<1>6. QED
  BY <1>2, <1>5, CellsAssumption

(* The chain that the loops of the code follow is that way. *)
LEMMA PathIsChain ==
    ASSUME NEW h, NEW e, NEW s, Path(h, e, s)
    PROVE  Chain(h, e) = s
<1> USE CellsAssumption, NullAssumption
<1>0. Len(s) \in Nat /\ Len(s) <= Cells /\ s \in Seq(Cell) /\ \A i \in 1..Len(s) : s[i] # Null
  <2>1. Len(s) \in Nat /\ Len(s) <= Cells /\ s \in Seq(Cell)
    BY PathLength DEF Path
  <2>2. Null \notin Cell
    BY DEF Cell
  <2>3. QED
    BY <2>1, <2>2
<1> DEFINE Steps(f) ==
               f = [i \in 0..Cells |-> IF i = 0 THEN e.first ELSE Behind(h, f[i - 1])]
           g == [i \in 0..Cells |-> IF i < Len(s) THEN s[i + 1] ELSE Null]
<1>1. ASSUME NEW i \in 1..Cells
      PROVE  g[i] = Behind(h, g[i - 1])
  <2>1. i - 1 \in 0..Cells /\ i \in 0..Cells
    BY <1>1
  <2>2. CASE i - 1 < Len(s)
    <3>1. i \in 1..Len(s) /\ g[i - 1] = s[i]
      BY <1>0, <2>1, <2>2
    <3>2. Behind(h, s[i]) = IF i = Len(s) THEN Null ELSE s[i + 1]
      BY <3>1 DEF Path
    <3>3. g[i] = IF i = Len(s) THEN Null ELSE s[i + 1]
      BY <1>0, <2>1, <3>1
    <3> HIDE DEF g
    <3>4. QED
      BY <3>1, <3>2, <3>3
  <2>3. CASE ~(i - 1 < Len(s))
    <3>1. g[i - 1] = Null /\ g[i] = Null
      BY <1>0, <2>1, <2>3
    <3> HIDE DEF g
    <3>2. QED
      BY <3>1 DEF Behind
  <2>4. QED
    BY <2>2, <2>3
<1>2. g[0] = e.first
  BY <1>0 DEF Path
<1>3. DOMAIN g = 0..Cells /\ g = [i \in 0..Cells |-> g[i]]
  OBVIOUS
<1>4. Steps(g)
  <2> HIDE DEF g
  <2>1. \A i \in 0..Cells : g[i] = IF i = 0 THEN e.first ELSE Behind(h, g[i - 1])
    <3> TAKE i \in 0..Cells
    <3>1. i = 0 \/ i \in 1..Cells
      OBVIOUS
    <3>2. QED
      BY <1>1, <1>2, <3>1
  <2>2. QED
    BY <1>3, <2>1
<1>5. ASSUME NEW f, Steps(f)
      PROVE  f = g
  <2>1. f[0] = e.first /\ \A i \in 1..Cells : f[i] = Behind(h, f[i - 1])
    BY <1>5
  <2>2. f = [i \in 0..Cells |-> f[i]]
    BY <1>5
  <2> HIDE DEF Steps, g
  <2> DEFINE S == {i \in 0..Cells : f[i] = g[i]}
  <2>3. 0 \in S
    BY <1>2, <2>1
  <2>4. \A i \in 1..Cells : i - 1 \in S => i \in S
    BY <1>1, <2>1
  <2> HIDE DEF S
  <2>5. 0..Cells \subseteq S
    BY <2>3, <2>4, InductionUpTo
  <2>6. \A i \in 0..Cells : f[i] = g[i]
    BY <2>5 DEF S
  <2>7. QED
    BY <1>3, <2>2, <2>6
<1> DEFINE node == CHOOSE f : Steps(f)
<1>6. node = g
  <2> HIDE DEF g, Steps
  <2>1. Steps(CHOOSE f : Steps(f))
    BY <1>4
  <2>2. QED
    BY <1>5, <2>1
<1>7. Chain(h, e) = [i \in {k \in 1..Cells : node[k - 1] # Null} |-> node[i - 1]]
  BY DEF Chain
<1> HIDE DEF node
<1>8. {k \in 1..Cells : g[k - 1] # Null} = 1..Len(s)
  BY <1>0
<1>9. \A i \in 1..Len(s) : g[i - 1] = s[i]
  BY <1>0
<1> HIDE DEF g
<1>10. Chain(h, e) = [i \in 1..Len(s) |-> s[i]]
  BY <1>6, <1>7, <1>8, <1>9
<1>11. QED
  BY <1>0, <1>10

LEMMA WholeChain ==
    ASSUME NEW h, NEW e, NEW s, Whole(h, e, s)
    PROVE  Chain(h, e) = s /\ Intact(h, e) /\ s \in Seq(Cell)
<1>1. Chain(h, e) = s /\ s \in Seq(Cell)
  BY PathIsChain DEF Whole, Path
<1>2. QED
  BY <1>1 DEF Whole, Intact, IsMessage

LEMMA BrokenChain ==
    ASSUME NEW h, NEW e, Broken(h, e)
    PROVE  /\ ~Intact(h, e)
           /\ Chain(h, e) \in Seq(Cell)
           /\ \E i \in DOMAIN Chain(h, e) : h[Chain(h, e)[i]].kind # "message"
<1>1. PICK s : Path(h, e, s) /\ \E i \in 1..Len(s) : ~IsMessage(h, s[i])
  BY DEF Broken
<1>2. Chain(h, e) = s /\ s \in Seq(Cell)
  BY <1>1, PathIsChain DEF Path
<1>3. QED
  BY <1>1, <1>2 DEF Intact, IsMessage

(* Whatever the cells are, the chain is a sequence of cells. *)
LEMMA ChainIsSequence ==
    ASSUME NEW h \in Heaps, NEW e \in ExceptionRecords
    PROVE  Chain(h, e) \in Seq(Cell)
<1> USE CellsAssumption, NullAssumption
<1>0. Null \notin Cell /\ e.first \in Ptr
  BY DEF Cell, ExceptionRecords
<1>1. ASSUME NEW p \in Ptr
      PROVE  Behind(h, p) \in Ptr /\ (p = Null => Behind(h, p) = Null)
  <2>1. CASE p # Null /\ h[p].kind = "message"
    <3>1. p \in Cell
      BY <2>1 DEF Ptr
    <3>2. h[p] \in Content
      BY <3>1 DEF Heaps
    <3>3. h[p].next \in Ptr
      BY <2>1, <3>2 DEF Content, Unmapped, Text, Address
    <3>4. QED
      BY <2>1, <3>3 DEF Behind
  <2>2. CASE ~(p # Null /\ h[p].kind = "message")
    BY <2>2 DEF Behind, Ptr
  <2>3. QED
    BY <2>1, <2>2
<1> DEFINE B == [p \in Ptr |-> Behind(h, p)]
           Steps(f) ==
               f = [i \in 0..Cells |-> IF i = 0 THEN e.first ELSE Behind(h, f[i - 1])]
           node == CHOOSE f : Steps(f)
<1>2. Steps(node)
  <2> HIDE DEF Steps
  <2>1. \E f : Steps(f)
    <3> DEFINE S == {m \in 0..Cells :
                        \E f : f = [i \in 0..m |-> IF i = 0 THEN e.first ELSE Behind(h, f[i - 1])]}
    <3>1. 0 \in S
      <4> DEFINE f0 == [i \in 0..0 |-> e.first]
      <4>1. \A i \in 0..0 : e.first = IF i = 0 THEN e.first ELSE Behind(h, f0[i - 1])
        <5> HIDE DEF f0
        <5>1. QED
          OBVIOUS
      <4>2. f0 = [i \in 0..0 |-> IF i = 0 THEN e.first ELSE Behind(h, f0[i - 1])]
        BY <4>1, Zenon
      <4>3. 0 \in 0..Cells
        BY CellsAssumption
      <4> HIDE DEF f0
      <4>4. \E f : f = [i \in 0..0 |-> IF i = 0 THEN e.first ELSE Behind(h, f[i - 1])]
        BY <4>2, Zenon
      <4>5. QED
        BY <4>3, <4>4
    <3>2. ASSUME NEW m \in 1..Cells, m - 1 \in S
          PROVE  m \in S
      <4>1. PICK f : f = [i \in 0..(m - 1) |-> IF i = 0 THEN e.first ELSE Behind(h, f[i - 1])]
        BY <3>2
      <4>2. f[0] = e.first /\ \A i \in 1..(m - 1) : f[i] = Behind(h, f[i - 1])
        BY <4>1
      <4> DEFINE g == [i \in 0..m |-> IF i = m THEN Behind(h, f[m - 1]) ELSE f[i]]
      <4>3. g[0] = e.first
        BY <4>2
      <4>4. ASSUME NEW i \in 1..m
            PROVE  g[i] = Behind(h, g[i - 1])
        <5>1. g[i - 1] = f[i - 1] /\ g[i] = (IF i = m THEN Behind(h, f[m - 1]) ELSE f[i])
          OBVIOUS
        <5>2. i # m => i \in 1..(m - 1)
          OBVIOUS
        <5> HIDE DEF g
        <5>3. QED
          BY <4>2, <5>1, <5>2
      <4>5. g = [i \in 0..m |-> g[i]]
        OBVIOUS
      <4> HIDE DEF g
      <4>6. \A i \in 0..m : g[i] = IF i = 0 THEN e.first ELSE Behind(h, g[i - 1])
        BY <4>3, <4>4
      <4>7. g = [i \in 0..m |-> IF i = 0 THEN e.first ELSE Behind(h, g[i - 1])]
        BY <4>5, <4>6
      <4>8. QED
        BY <4>7
    <3> HIDE DEF S
    <3>3. Cells \in S
      BY <3>1, <3>2, InductionUpTo
    <3>4. QED
      BY <3>3 DEF S, Steps
  <2>2. QED
    BY <2>1
<1>3. Chain(h, e) = [i \in {k \in 1..Cells : node[k - 1] # Null} |-> node[i - 1]]
  BY DEF Chain
<1> HIDE DEF node
<1>4. node[0] = e.first /\ \A i \in 1..Cells : node[i] = Behind(h, node[i - 1])
  BY <1>2
<1> HIDE DEF Steps
<1> DEFINE N == {i \in 0..Cells : node[i] \in Ptr}
<1>5. 0..Cells \subseteq N
  <2>1. 0 \in N
    BY <1>0, <1>4
  <2>2. ASSUME NEW i \in 1..Cells, i - 1 \in N
        PROVE  i \in N
    <3>1. node[i - 1] \in Ptr /\ i \in 0..Cells
      BY <2>2
    <3>2. QED
      BY <1>1, <1>4, <3>1
  <2> HIDE DEF N
  <2>3. QED
    BY <2>1, <2>2, InductionUpTo
<1>6. \A i \in 0..Cells : node[i] \in Ptr
  BY <1>5
<1> HIDE DEF N
<1>7. \A i \in 1..Cells : i - 1 \in 0..Cells /\ (node[i - 1] = Null => node[i] = Null)
  BY <1>1, <1>4, <1>6
<1> DEFINE M == {k \in 1..Cells : node[k - 1] = Null}
<1>8. CASE M = {}
  <2>1. {k \in 1..Cells : node[k - 1] # Null} = 1..Cells
    BY <1>8
  <2>2. \A i \in 1..Cells : node[i - 1] \in Cell
    BY <1>6, <1>7, <2>1 DEF Ptr
  <2>3. Chain(h, e) = [i \in 1..Cells |-> node[i - 1]]
    BY <1>3, <2>1
  <2>4. QED
    BY <2>2, <2>3
<1>9. CASE M # {}
  <2>1. M \in SUBSET Nat
    OBVIOUS
  <2>2. PICK m \in M : \A k \in M : m <= k
    <3> HIDE DEF M
    <3>1. QED
      BY <1>9, <2>1, LeastNumber
  <2>3. m \in 1..Cells /\ node[m - 1] = Null /\ \A k \in 1..(m - 1) : node[k - 1] # Null
    BY <2>2
  <2> DEFINE Z == {k \in 0..(Cells - m) : node[m + k - 1] = Null}
             c == Cells - m
  <2>4. 0 \in Z
    BY <2>3
  <2>5. ASSUME NEW k \in 1..c, k - 1 \in Z
        PROVE  k \in Z
    <3> DEFINE i == m + k - 1
    <3>1. i \in 1..Cells /\ i - 1 = m + (k - 1) - 1 /\ k \in 0..c
      BY <2>3
    <3>2. node[i - 1] = Null
      BY <2>5, <3>1
    <3> HIDE DEF i
    <3>3. node[i] = Null
      BY <1>7, <3>1, <3>2
    <3>4. QED
      BY <3>1, <3>3 DEF i
  <2>6. c \in Nat
    BY <2>3
  <2>7. 0..c \subseteq Z
    <3> HIDE DEF Z, c
    <3>1. QED
      BY <2>4, <2>5, <2>6, InductionUpTo
  <2>8. ASSUME NEW k \in m..Cells
        PROVE  node[k - 1] = Null
    <3>1. k - m \in 0..c /\ m + (k - m) - 1 = k - 1
      BY <2>3
    <3>2. QED
      BY <2>7, <3>1
  <2>9. {k \in 1..Cells : node[k - 1] # Null} = 1..(m - 1)
    BY <2>3, <2>8
  <2>10. \A i \in 1..(m - 1) : node[i - 1] \in Cell
    <3>1. ASSUME NEW i \in 1..(m - 1)
          PROVE  node[i - 1] \in Cell
      <4>1. i \in 1..Cells /\ i - 1 \in 0..Cells /\ node[i - 1] # Null
        BY <2>3
      <4>2. QED
        BY <1>6, <4>1 DEF Ptr
    <3>2. QED
      BY <3>1
  <2>11. Chain(h, e) = [i \in 1..(m - 1) |-> node[i - 1]]
    BY <1>3, <2>9
  <2>12. m - 1 \in Nat
    BY <2>3
  <2>13. QED
    BY <2>10, <2>11, <2>12
<1>10. QED
  BY <1>8, <1>9

(* The list only depends on the messages and where they lead. *)
SameLinks(g, h) ==
    \A c \in Cell : /\ IsMessage(g, c) <=> IsMessage(h, c)
                    /\ IsMessage(h, c) => g[c].next = h[c].next

LEMMA SameLinksSamePath ==
    ASSUME NEW g, NEW h, NEW e, NEW f, NEW s, Path(h, e, s), SameLinks(g, h), f.first = e.first
    PROVE  Path(g, f, s)
<1>1. \A i \in 1..Len(s) : s[i] \in Cell
  BY DEF Path
<1>2. \A i \in 1..Len(s) : Behind(g, s[i]) = Behind(h, s[i])
  BY <1>1 DEF SameLinks, Behind, IsMessage
<1>3. QED
  BY <1>2 DEF Path

LEMMA StaysBroken ==
    ASSUME NEW g, NEW h, NEW e, NEW f, Broken(h, e), SameLinks(g, h), f.first = e.first
    PROVE  Broken(g, f)
<1>1. PICK s : Path(h, e, s) /\ \E i \in 1..Len(s) : ~IsMessage(h, s[i])
  BY DEF Broken
<1>2. Path(g, f, s)
  BY <1>1, SameLinksSamePath
<1>3. \A i \in 1..Len(s) : s[i] \in Cell
  BY <1>1 DEF Path
<1>4. QED
  BY <1>1, <1>2, <1>3 DEF Broken, SameLinks

LEMMA StaysWhole ==
    ASSUME NEW g, NEW h, NEW e, NEW f, NEW s, Whole(h, e, s), SameLinks(g, h),
           f.first = e.first, f.last = e.last
    PROVE  Whole(g, f, s)
<1>1. Path(h, e, s) /\ \A i \in 1..Len(s) : s[i] \in Cell
  BY DEF Whole, Path
<1>2. Path(g, f, s)
  BY <1>1, SameLinksSamePath
<1>3. QED
  BY <1>1, <1>2 DEF Whole, SameLinks

(* A list that loses cells is whole or broken. *)
LEMMA ShrunkList ==
    ASSUME NEW g, NEW h, NEW e, NEW s, Whole(h, e, s), Shrunk(g, h)
    PROVE  Whole(g, e, s) \/ Broken(g, e)
<1>0. Path(h, e, s) /\ s \in Seq(Cell) /\ \A i \in 1..Len(s) : s[i] \in Cell
  BY DEF Whole, Path
<1>1. ASSUME NEW i \in 1..Len(s), IsMessage(g, s[i])
      PROVE  g[s[i]] = h[s[i]] /\ Behind(g, s[i]) = Behind(h, s[i])
  BY <1>0, <1>1 DEF Shrunk, IsMessage, Unmapped, Behind
<1>2. CASE \A i \in 1..Len(s) : IsMessage(g, s[i])
  BY <1>0, <1>1, <1>2 DEF Whole, Path
<1>3. CASE \E i \in 1..Len(s) : ~IsMessage(g, s[i])
  <2> DEFINE T == {i \in 1..Len(s) : ~IsMessage(g, s[i])}
  <2>1. T \in SUBSET Nat /\ T # {}
    BY <1>0, <1>3
  <2>2. PICK k \in T : \A j \in T : k <= j
    <3> HIDE DEF T
    <3>1. QED
      BY <2>1, LeastNumber
  <2>3. k \in 1..Len(s) /\ ~IsMessage(g, s[k]) /\ \A i \in 1..(k - 1) : IsMessage(g, s[i])
    BY <1>0, <2>2
  <2> DEFINE p == SubSeq(s, 1, k)
  <2>4. p \in Seq(Cell) /\ Len(p) = k /\ \A i \in 1..k : p[i] = s[i]
    BY <1>0, <2>3
  <2> HIDE DEF p
  <2>5. Path(g, e, p)
    <3>1. \A i, j \in 1..Len(p) : p[i] = p[j] => i = j
      BY <1>0, <2>3, <2>4 DEF Path
    <3>2. e.first = IF Len(p) = 0 THEN Null ELSE p[1]
      BY <1>0, <2>3, <2>4 DEF Path
    <3>3. ASSUME NEW i \in 1..Len(p)
          PROVE  Behind(g, p[i]) = IF i = Len(p) THEN Null ELSE p[i + 1]
      <4>1. CASE i = k
        BY <2>3, <2>4, <4>1 DEF Behind, IsMessage
      <4>2. CASE i # k
        <5>1. i \in 1..(k - 1) /\ i \in 1..Len(s) /\ i # Len(s) /\ i + 1 \in 1..k
          BY <1>0, <2>3, <2>4, <4>2
        <5>2. Behind(g, s[i]) = Behind(h, s[i]) /\ Behind(h, s[i]) = s[i + 1]
          BY <1>0, <1>1, <2>3, <5>1 DEF Path
        <5>3. QED
          BY <2>4, <4>2, <5>1, <5>2
      <4>3. QED
        BY <4>1, <4>2
    <3>4. QED
      BY <2>4, <3>1, <3>2, <3>3 DEF Path
  <2>6. k \in 1..Len(p) /\ ~IsMessage(g, p[k])
    BY <2>3, <2>4
  <2>7. QED
    BY <2>5, <2>6 DEF Broken
<1>4. QED
  BY <1>2, <1>3

-----------------------------------------------------------------------------
(* asign: a message n that was not mapped goes behind the last one; no     *)
(* other cell is mapped or unmapped by it. *)
Appended(o, h, e, s, n) ==
    /\ o.dead = FALSE
    /\ o.heap \in Heaps /\ o.exc \in ExceptionRecords
    /\ o.exc.type = e.type /\ o.exc.print = e.print
    /\ n \in Cell /\ n \notin Mapped(h) /\ n \in Mapped(o.heap)
    /\ Whole(o.heap, o.exc, Append(s, n))
    /\ o.heap[n].type = e.type
    /\ \A c \in Cell \ {n} : c # e.last => o.heap[c] = h[c]
    /\ \A c \in Cell \ {n} : /\ o.heap[c].kind = h[c].kind
                             /\ IsMessage(h, c) => o.heap[c].type = h[c].type

LEMMA MessageContent ==
    ASSUME NEW type \in Type, NEW buf \in Ptr
    PROVE  /\ Message(type, buf) \in Content
           /\ Message(type, buf).kind = "message"
           /\ Message(type, buf).type = type
           /\ Message(type, buf).next = Null
  BY DEF Message, Content, Ptr

LEMMA LinkedContent ==
    ASSUME NEW m \in Content, m.kind = "message", NEW n \in Ptr
    PROVE  /\ [m EXCEPT !.next = n] \in Content
           /\ [m EXCEPT !.next = n].kind = "message"
           /\ [m EXCEPT !.next = n].type = m.type
           /\ [m EXCEPT !.next = n].next = n
<1>1. m \in [kind : {"message"}, type : Type, buf : Ptr, empty : BOOLEAN, next : Ptr]
  BY DEF Content, Unmapped, Text, Address
<1>2. QED
  BY <1>1 DEF Content

LEMMA AsignAppends ==
    ASSUME NEW h \in Heaps, NEW e \in ExceptionRecords, NEW s, Whole(h, e, s),
           NEW o \in Asign(h, e)
    PROVE  \E n : Appended(o, h, e, s, n)
<1> USE NullAssumption
<1>0. /\ Path(h, e, s) /\ s \in Seq(Cell) /\ Len(s) \in Nat
      /\ \A i \in 1..Len(s) : s[i] \in Cell /\ IsMessage(h, s[i])
      /\ Null \notin Cell
  <2>1. Null \notin Cell
    BY DEF Cell
  <2>2. QED
    BY <2>1 DEF Whole, Path
<1>1. e.last = IF Len(s) = 0 THEN Null ELSE s[Len(s)]
  BY DEF Whole
<1>2. e.last # Null => e.last \in Cell /\ h[e.last].kind = "message"
  BY <1>0, <1>1 DEF IsMessage
<1> DEFINE Result(n, d) ==
          [heap |-> AfterAssign(Linked([h EXCEPT ![n] = Message(e.type, d), ![d] = Text], e, n), d),
           exc |-> [e EXCEPT !.first = IF @ = Null THEN n ELSE @, !.last = n],
           dead |-> FALSE]
<1>3a. \E n \in Placements(h) :
         \E d \in Placements([h EXCEPT ![n] = Message(e.type, Null)]) : o = Result(n, d)
  BY <1>2 DEF Asign, Advanced
<1>3b. PICK n \in Placements(h) :
         \E d \in Placements([h EXCEPT ![n] = Message(e.type, Null)]) : o = Result(n, d)
  BY <1>3a
<1>3. PICK d \in Placements([h EXCEPT ![n] = Message(e.type, Null)]) : o = Result(n, d)
  BY <1>3b
<1>4. n \in Cell /\ d \in Cell /\ n # d /\ h[n].kind = "none" /\ h[d].kind = "none"
  <2>1. n \in Cell /\ h[n].kind = "none"
    BY DEF Placements, Mapped
  <2>2. d \in Cell /\ [h EXCEPT ![n] = Message(e.type, Null)][d].kind = "none"
    BY DEF Placements, Mapped
  <2>3. n # d
    BY <2>1, <2>2 DEF Heaps, Message
  <2>4. QED
    BY <2>1, <2>2, <2>3 DEF Heaps
<1>5. h[n] = Unmapped /\ h[d] = Unmapped
  BY <1>4 DEF Heaps, Content, Unmapped, Text, Address
<1>6. e.last # n /\ e.last # d
  BY <1>2, <1>4, <1>0
<1>7. e.type \in Type /\ d \in Ptr /\ n \in Ptr
  BY <1>4 DEF ExceptionRecords, Ptr
<1> DEFINE new == Message(e.type, d)
           link == [h[e.last] EXCEPT !.next = n]
           g == [h EXCEPT ![n] = new, ![d] = Text]
<1>8. o.heap = AfterAssign(Linked(g, e, n), d) /\ o.dead = FALSE
      /\ o.exc = [e EXCEPT !.first = IF @ = Null THEN n ELSE @, !.last = n]
  BY <1>3
<1>9. o.heap = [c \in Cell |-> IF c = n THEN new ELSE IF c = e.last THEN link ELSE h[c]]
  <2> HIDE DEF new
  <2>1. d # Null
    BY <1>0, <1>4
  <2>2. CASE e.last = Null
    <3>1. o.heap = [g EXCEPT ![d] = Unmapped]
      BY <1>8, <2>1, <2>2 DEF AfterAssign, Linked, Delete
    <3>2. g = [c \in Cell |-> IF c = d THEN Text ELSE IF c = n THEN new ELSE h[c]]
      BY <1>4 DEF Heaps
    <3> HIDE DEF link, g
    <3>3. o.heap = [c \in Cell |-> IF c = d THEN Unmapped ELSE IF c = n THEN new ELSE h[c]]
      BY <1>4, <3>1, <3>2
    <3>4. \A c \in Cell : c # e.last
      BY <1>0, <2>2
    <3>5. QED
      BY <1>4, <1>5, <3>3, <3>4
  <2>3. CASE e.last # Null
    <3>1. o.heap = [[g EXCEPT ![e.last].next = n] EXCEPT ![d] = Unmapped]
      BY <1>8, <2>1, <2>3 DEF AfterAssign, Linked, Delete
    <3>2. g[e.last] = h[e.last] /\ g \in [Cell -> {new, Text} \cup Content]
      BY <1>2, <1>4, <1>6, <2>3 DEF Heaps
    <3>3. [g EXCEPT ![e.last].next = n] = [g EXCEPT ![e.last] = link]
      BY <3>2
    <3> HIDE DEF link
    <3>4. QED
      BY <1>0, <1>2, <1>4, <1>5, <1>6, <2>3, <3>1, <3>3 DEF Heaps
  <2>4. QED
    BY <2>2, <2>3
<1>10. /\ new \in Content /\ new.kind = "message" /\ new.type = e.type /\ new.next = Null
       /\ e.last # Null => /\ link \in Content /\ link.kind = "message"
                           /\ link.type = h[e.last].type /\ link.next = n
  <2>1. e.last # Null => h[e.last] \in Content
    BY <1>2 DEF Heaps
  <2>2. QED
    BY <1>2, <1>7, <2>1, MessageContent, LinkedContent
<1> HIDE DEF new, link
<1>11. /\ o.heap \in Heaps /\ o.heap[n] = new
       /\ e.last # Null => o.heap[e.last] = link
       /\ \A c \in Cell \ {n} : c # e.last => o.heap[c] = h[c]
  BY <1>0, <1>2, <1>4, <1>6, <1>9, <1>10 DEF Heaps
<1>12. /\ o.exc \in ExceptionRecords /\ o.exc.type = e.type /\ o.exc.print = e.print
       /\ o.exc.first = (IF e.first = Null THEN n ELSE e.first) /\ o.exc.last = n
  BY <1>7, <1>8 DEF ExceptionRecords
<1> DEFINE t == Append(s, n)
<1>13. /\ t \in Seq(Cell) /\ Len(t) = Len(s) + 1 /\ t[Len(s) + 1] = n
       /\ \A i \in 1..Len(s) : t[i] = s[i]
  BY <1>0, <1>4
<1> HIDE DEF t
<1>14. ASSUME NEW i \in 1..Len(s)
       PROVE  /\ s[i] # n
              /\ s[i] = e.last <=> i = Len(s)
              /\ IsMessage(o.heap, s[i])
              /\ o.heap[s[i]].next = IF i = Len(s) THEN n ELSE s[i + 1]
  <2>1. s[i] \in Cell /\ h[s[i]].kind = "message" /\ s[i] # n
    BY <1>0, <1>4 DEF IsMessage
  <2>2. s[i] = e.last <=> i = Len(s)
    BY <1>0, <1>1 DEF Path
  <2>3. Behind(h, s[i]) = IF i = Len(s) THEN Null ELSE s[i + 1]
    BY <1>0 DEF Path
  <2>4. Behind(h, s[i]) = h[s[i]].next
    BY <1>0, <2>1 DEF Behind
  <2>5. i = Len(s) => e.last # Null /\ o.heap[s[i]] = link
    BY <1>0, <1>11, <2>1, <2>2
  <2>6. i # Len(s) => o.heap[s[i]] = h[s[i]]
    BY <1>11, <2>1, <2>2
  <2>7. QED
    BY <1>10, <2>1, <2>2, <2>3, <2>4, <2>5, <2>6 DEF IsMessage
<1>15. Path(o.heap, o.exc, t)
  <2>1. \A i, j \in 1..Len(t) : t[i] = t[j] => i = j
    <3>1. \A i, j \in 1..Len(s) : s[i] = s[j] => i = j
      BY <1>0 DEF Path
    <3>2. \A i \in 1..Len(t) : i = Len(t) \/ i \in 1..Len(s)
      BY <1>0, <1>13
    <3>3. QED
      BY <1>0, <1>13, <1>14, <3>1, <3>2
  <2>2. o.exc.first = IF Len(t) = 0 THEN Null ELSE t[1]
    <3>1. e.first = IF Len(s) = 0 THEN Null ELSE s[1]
      BY <1>0 DEF Path
    <3>2. Len(s) # 0 => 1 \in 1..Len(s)
      BY <1>0
    <3>3. QED
      BY <1>0, <1>12, <1>13, <3>1, <3>2
  <2>3. ASSUME NEW i \in 1..Len(t)
        PROVE  Behind(o.heap, t[i]) = IF i = Len(t) THEN Null ELSE t[i + 1]
    <3>1. CASE i = Len(t)
      BY <1>0, <1>4, <1>10, <1>11, <1>13, <3>1 DEF Behind
    <3>2. CASE i # Len(t)
      <4>1. i \in 1..Len(s) /\ t[i] = s[i] /\ t[i] # Null
        BY <1>0, <1>13, <3>2
      <4>2. Behind(o.heap, t[i]) = IF i = Len(s) THEN n ELSE s[i + 1]
        BY <1>14, <4>1 DEF Behind, IsMessage
      <4>3. i # Len(s) => i + 1 \in 1..Len(s)
        BY <1>0, <4>1
      <4>4. QED
        BY <1>13, <3>2, <4>1, <4>2, <4>3
    <3>3. QED
      BY <3>1, <3>2
  <2>4. QED
    BY <1>13, <2>1, <2>2, <2>3 DEF Path
<1>16. Whole(o.heap, o.exc, t)
  <2>1. ASSUME NEW i \in 1..Len(t)
        PROVE  IsMessage(o.heap, t[i])
    <3>1. i = Len(t) \/ i \in 1..Len(s)
      BY <1>0, <1>13
    <3>2. QED
      BY <1>10, <1>11, <1>13, <1>14, <3>1 DEF IsMessage
  <2>2. o.exc.last = IF Len(t) = 0 THEN Null ELSE t[Len(t)]
    BY <1>0, <1>12, <1>13
  <2>3. QED
    BY <1>15, <2>1, <2>2 DEF Whole
<1>17. n \in Mapped(o.heap) /\ n \notin Mapped(h)
  BY <1>4, <1>10, <1>11 DEF Mapped
<1>18. \A c \in Cell \ {n} : /\ o.heap[c].kind = h[c].kind
                             /\ IsMessage(h, c) => o.heap[c].type = h[c].type
  BY <1>0, <1>2, <1>10, <1>11
<1>19. QED
  BY <1>4, <1>8, <1>10, <1>11, <1>12, <1>16, <1>17, <1>18 DEF Appended, t

-----------------------------------------------------------------------------
(* The copy of an exception: a list t of new messages; what was mapped     *)
(* before stays as it was, and nothing else is mapped. *)
CopiedTo(o, h, e, t) ==
    /\ ~o.dead
    /\ o.heap \in Heaps /\ o.exc \in ExceptionRecords /\ o.exc.print = Null
    /\ Whole(o.heap, o.exc, t)
    /\ \A i \in 1..Len(t) : t[i] \notin Mapped(h)
    /\ \A c \in Mapped(h) : o.heap[c] = h[c]
    /\ \A c \in Mapped(o.heap) : c \in Mapped(h) \/ \E i \in 1..Len(t) : c = t[i]

LEMMA CopyGrows ==
    ASSUME NEW h, NEW e, NEW o, NEW t, CopiedTo(o, h, e, t), NEW q \in Asign(o.heap, o.exc)
    PROVE  \E u : CopiedTo(q, h, e, u)
<1>0. /\ o.heap \in Heaps /\ o.exc \in ExceptionRecords /\ o.exc.print = Null
      /\ Whole(o.heap, o.exc, t) /\ t \in Seq(Cell) /\ Len(t) \in Nat
      /\ \A i \in 1..Len(t) : t[i] \notin Mapped(h)
      /\ \A c \in Mapped(h) : o.heap[c] = h[c]
      /\ \A c \in Mapped(o.heap) : c \in Mapped(h) \/ \E i \in 1..Len(t) : c = t[i]
  BY DEF CopiedTo, Whole, Path
<1>1. PICK n : Appended(q, o.heap, o.exc, t, n)
  BY <1>0, AsignAppends
<1>2. /\ ~q.dead /\ q.heap \in Heaps /\ q.exc \in ExceptionRecords /\ q.exc.print = Null
      /\ n \in Cell /\ n \notin Mapped(o.heap)
      /\ Whole(q.heap, q.exc, Append(t, n))
      /\ \A c \in Cell \ {n} : c # o.exc.last => q.heap[c] = o.heap[c]
      /\ \A c \in Cell \ {n} : q.heap[c].kind = o.heap[c].kind
  BY <1>0, <1>1 DEF Appended
<1> DEFINE u == Append(t, n)
<1>3. /\ Len(u) = Len(t) + 1 /\ u[Len(t) + 1] = n
      /\ \A i \in 1..Len(t) : u[i] = t[i]
      /\ \A i \in 1..Len(u) : i = Len(t) + 1 \/ i \in 1..Len(t)
  BY <1>0, <1>2
<1> HIDE DEF u
<1>4. n \notin Mapped(h)
  BY <1>0, <1>2 DEF Mapped
<1>5. \A i \in 1..Len(u) : u[i] \notin Mapped(h)
  BY <1>0, <1>3, <1>4
<1>6. o.exc.last \notin Mapped(h)
  <2>1. o.exc.last = IF Len(t) = 0 THEN Null ELSE t[Len(t)]
    BY <1>0 DEF Whole
  <2>2. Null \notin Mapped(h)
    BY NullAssumption DEF Mapped, Cell
  <2>3. Len(t) # 0 => Len(t) \in 1..Len(t)
    BY <1>0
  <2>4. QED
    BY <1>0, <2>1, <2>2, <2>3
<1>7. \A c \in Mapped(h) : q.heap[c] = h[c]
  BY <1>0, <1>2, <1>4, <1>6 DEF Mapped
<1>8. ASSUME NEW c \in Mapped(q.heap)
      PROVE  c \in Mapped(h) \/ \E i \in 1..Len(u) : c = u[i]
  <2>1. CASE c = n
    <3>1. Len(t) + 1 \in 1..Len(u)
      BY <1>0, <1>3
    <3>2. QED
      BY <1>3, <2>1, <3>1
  <2>2. CASE c # n
    <3>1. c \in Mapped(o.heap)
      BY <1>2, <2>2 DEF Mapped
    <3>2. \A i \in 1..Len(t) : i \in 1..Len(u)
      BY <1>0, <1>3
    <3>3. QED
      BY <1>0, <1>3, <3>1, <3>2
  <2>3. QED
    BY <2>1, <2>2
<1>9. CopiedTo(q, h, e, u)
  BY <1>2, <1>5, <1>7, <1>8 DEF CopiedTo, u
<1>10. QED
  BY <1>9

(* The function of Copying, and that there is one. *)
Repeats(f, v, n) ==
    f = [k \in 0..n |-> IF k = 0 THEN v ELSE UNION {CopyOne(c) : c \in f[k - 1]}]

LEMMA RepeatsExists ==
    ASSUME NEW v, NEW n \in Nat
    PROVE  \E f : Repeats(f, v, n)
<1> DEFINE Turn(C) == UNION {CopyOne(c) : c \in C}
           S == {m \in 0..n : \E f : Repeats(f, v, m)}
<1>0. ASSUME NEW f, NEW m
      PROVE  Repeats(f, v, m) <=> f = [k \in 0..m |-> IF k = 0 THEN v ELSE Turn(f[k - 1])]
  BY Zenon DEF Repeats
<1> HIDE DEF Turn
<1>1. 0 \in S
  <2> DEFINE f0 == [k \in 0..0 |-> v]
  <2>1. f0 = [k \in 0..0 |-> IF k = 0 THEN v ELSE Turn(f0[k - 1])]
    OBVIOUS
  <2>2. Repeats(f0, v, 0)
    BY <1>0, <2>1
  <2>3. QED
    BY <2>2
<1>2. ASSUME NEW m \in 1..n, m - 1 \in S
      PROVE  m \in S
  <2>1. PICK f : Repeats(f, v, m - 1)
    BY <1>2
  <2>2. f[0] = v /\ \A k \in 1..(m - 1) : f[k] = Turn(f[k - 1])
    <3>1. f = [k \in 0..(m - 1) |-> IF k = 0 THEN v ELSE Turn(f[k - 1])]
      BY <1>0, <2>1, Zenon
    <3>2. QED
      BY <3>1
  <2> DEFINE g == [k \in 0..m |-> IF k = m THEN Turn(f[m - 1]) ELSE f[k]]
  <2>3. g[0] = v
    BY <2>2
  <2>4. ASSUME NEW k \in 1..m
        PROVE  g[k] = Turn(g[k - 1])
    <3>1. g[k - 1] = f[k - 1]
      OBVIOUS
    <3>2. g[k] = IF k = m THEN Turn(f[m - 1]) ELSE f[k]
      OBVIOUS
    <3>3. k # m => k \in 1..(m - 1)
      OBVIOUS
    <3> HIDE DEF g
    <3>4. QED
      BY <2>2, <3>1, <3>2, <3>3
  <2>5. g = [k \in 0..m |-> g[k]]
    OBVIOUS
  <2> HIDE DEF g
  <2>6. \A k \in 0..m : g[k] = IF k = 0 THEN v ELSE Turn(g[k - 1])
    BY <2>3, <2>4
  <2>7. g = [k \in 0..m |-> IF k = 0 THEN v ELSE Turn(g[k - 1])]
    BY <2>5, <2>6
  <2>8. Repeats(g, v, m)
    BY <1>0, <2>7, Zenon
  <2>9. QED
    BY <2>8
<1> HIDE DEF S
<1>3. 0..n \subseteq S
  BY <1>1, <1>2, InductionUpTo
<1>4. n \in 0..n
  OBVIOUS
<1>5. QED
  BY <1>3, <1>4 DEF S

(* After k turns a copy is at message k + 1 of the list s, or at its end,  *)
(* the last one of which is a message by then. *)
CopyingAt(c, h, e, s, k) ==
    /\ c.out.heap \in Heaps /\ c.out.exc \in ExceptionRecords /\ c.out.dead \in BOOLEAN
    /\ ~c.out.dead =>
           /\ \E t : CopiedTo(c.out, h, e, t)
           /\ c.cur # Null => k + 1 \in 1..Len(s) /\ c.cur = s[k + 1]
           /\ c.cur = Null => Len(s) = 0 \/ IsMessage(c.out.heap, s[Len(s)])

LEMMA CopyTurn ==
    ASSUME NEW h, NEW e, NEW s, Path(h, e, s), NEW k \in Nat, NEW c, CopyingAt(c, h, e, s, k),
           NEW d \in CopyOne(c)
    PROVE  CopyingAt(d, h, e, s, k + 1)
<1>0. /\ s \in Seq(Cell) /\ Len(s) \in Nat /\ \A i \in 1..Len(s) : s[i] \in Cell
      /\ \A i \in 1..Len(s) : Behind(h, s[i]) = IF i = Len(s) THEN Null ELSE s[i + 1]
      /\ Null \notin Cell
  <2>1. Null \notin Cell
    BY NullAssumption DEF Cell
  <2>2. QED
    BY <2>1 DEF Path
<1>1. CASE c.cur = Null \/ c.out.dead
  <2>1. d = c
    BY <1>1 DEF CopyOne
  <2>2. QED
    BY <1>1, <2>1 DEF CopyingAt
<1>2. CASE ~(c.cur = Null \/ c.out.dead)
  <2>1. PICK q \in Asign(c.out.heap, c.out.exc) : d = CopyNext(q, c.cur)
    BY <1>2 DEF CopyOne
  <2>2. PICK t : CopiedTo(c.out, h, e, t)
    BY <1>2 DEF CopyingAt
  <2>3. PICK u : CopiedTo(q, h, e, u)
    BY <2>1, <2>2, CopyGrows
  <2>4. /\ ~q.dead /\ q.heap \in Heaps /\ q.exc \in ExceptionRecords /\ q.exc.print = Null
        /\ Whole(q.heap, q.exc, u)
        /\ \A i \in 1..Len(u) : u[i] \notin Mapped(h)
        /\ \A x \in Mapped(h) : q.heap[x] = h[x]
        /\ \A x \in Mapped(q.heap) : x \in Mapped(h) \/ \E i \in 1..Len(u) : x = u[i]
    BY <2>3 DEF CopiedTo
  <2> DEFINE i == k + 1
             nxt == Behind(q.heap, s[i])
             dies == q.heap[s[i]].kind # "message" \/ nxt \in Messages(q)
  <2>5. i \in 1..Len(s) /\ c.cur = s[i]
    BY <1>2 DEF CopyingAt
  <2>6. /\ d.out.heap = q.heap /\ d.out.exc = q.exc /\ (d.out.dead <=> dies)
        /\ d.out.dead \in BOOLEAN /\ d.cur = nxt
    BY <2>1, <2>4, <2>5 DEF CopyNext
  <2>7. Chain(q.heap, q.exc) = u /\ Len(u) \in Nat /\ \A j \in 1..Len(u) : u[j] \in Messages(q)
    <3>1. Chain(q.heap, q.exc) = u /\ u \in Seq(Cell)
      BY <2>4, WholeChain
    <3>2. QED
      BY <3>1 DEF Messages
  <2>8. ASSUME ~dies
        PROVE  /\ nxt # Null => i + 1 \in 1..Len(s) /\ nxt = s[i + 1]
               /\ nxt = Null => IsMessage(q.heap, s[Len(s)])
    <3>1. IsMessage(q.heap, s[i]) /\ s[i] \in Mapped(q.heap) /\ nxt \notin Messages(q)
      BY <1>0, <2>5, <2>8 DEF IsMessage, Mapped
    <3>2. CASE s[i] \in Mapped(h)
      <4>1. nxt = Behind(h, s[i])
        BY <2>4, <3>2 DEF Behind
      <4>2. nxt = IF i = Len(s) THEN Null ELSE s[i + 1]
        BY <1>0, <2>5, <4>1
      <4> HIDE DEF nxt
      <4>3. i # Len(s) => i + 1 \in 1..Len(s) /\ s[i + 1] # Null
        BY <1>0, <2>5
      <4>4. QED
        BY <3>1, <4>2, <4>3
    <3>3. CASE s[i] \notin Mapped(h)
      <4>1. Behind(h, s[i]) = Null
        BY <1>0, <2>5, <3>3 DEF Behind, Mapped
      <4>2. i = Len(s)
        <5>1. i # Len(s) => i + 1 \in 1..Len(s) /\ s[i + 1] \in Cell
          BY <1>0, <2>5
        <5>2. QED
          BY <1>0, <2>5, <4>1, <5>1
      <4>3. PICK j \in 1..Len(u) : s[i] = u[j]
        BY <2>4, <3>1, <3>3
      <4>4. nxt = IF j = Len(u) THEN Null ELSE u[j + 1]
        BY <2>4, <4>3 DEF Whole, Path
      <4>5. nxt = Null
        <5>1. j # Len(u) => j + 1 \in 1..Len(u)
          BY <2>7
        <5> HIDE DEF nxt
        <5>2. QED
          BY <2>7, <3>1, <4>4, <5>1
      <4>6. QED
        BY <3>1, <4>2, <4>5
    <3>4. QED
      BY <3>2, <3>3
  <2>9. ASSUME ~dies
        PROVE  CopiedTo(d.out, h, e, u)
    BY <2>3, <2>6, <2>9 DEF CopiedTo
  <2> HIDE DEF nxt, dies
  <2>10. QED
    BY <2>4, <2>6, <2>8, <2>9 DEF CopyingAt
<1>3. QED
  BY <1>1, <1>2

(* A copy that ends has walked along the whole list. *)
LEMMA CopyWalks ==
    ASSUME NEW h \in Heaps, NEW e \in ExceptionRecords, NEW s, Path(h, e, s),
           NEW o \in Copy(h, e)
    PROVE  /\ o.heap \in Heaps /\ o.exc \in ExceptionRecords /\ o.dead \in BOOLEAN
           /\ ~o.dead => /\ \E t : CopiedTo(o, h, e, t)
                         /\ Len(s) = 0 \/ IsMessage(o.heap, s[Len(s)])
<1>1. Len(s) \in Nat /\ Len(s) <= Cells /\ Cells \in Nat
  BY CellsAssumption, PathLength
<1> DEFINE copy == [NewException EXCEPT !.type = e.type]
           first0 == [out |-> [heap |-> h, exc |-> copy, dead |-> FALSE], cur |-> e.first]
           start == {first0}
           Steps(f) == Repeats(f, start, Cells)
           f == CHOOSE f : Steps(f)
<1>2. Copying(h, e) = f[Cells]
  BY Zenon DEF Copying, Repeats
<1>3. Steps(f)
  <2>1. \E g : Steps(g)
    <3> HIDE DEF start
    <3>1. QED
      BY <1>1, RepeatsExists
  <2> HIDE DEF Steps
  <2>2. QED
    BY <2>1
<1> HIDE DEF f
<1>4. f[0] = start /\ \A k \in 1..Cells : f[k] = UNION {CopyOne(c) : c \in f[k - 1]}
  <2> DEFINE Turn(C) == UNION {CopyOne(c) : c \in C}
  <2>1. f = [k \in 0..Cells |-> IF k = 0 THEN start ELSE Turn(f[k - 1])]
    BY <1>3, Zenon DEF Repeats
  <2> HIDE DEF start, Turn
  <2>2. f[0] = start /\ \A k \in 1..Cells : f[k] = Turn(f[k - 1])
    BY <1>1, <2>1
  <2>3. QED
    BY <2>2, Zenon DEF Turn
<1> DEFINE S == {k \in 0..Cells : \A c \in f[k] : CopyingAt(c, h, e, s, k)}
<1>5. 0 \in S
  <2>1. copy \in ExceptionRecords /\ copy.first = Null /\ copy.last = Null /\ copy.print = Null
    BY DEF NewException, ExceptionRecords, Ptr, Type
  <2> HIDE DEF copy
  <2>2. Whole(h, copy, <<>>)
    BY <2>1 DEF Whole, Path
  <2>3. CopiedTo(first0.out, h, e, <<>>)
    BY <2>1, <2>2 DEF CopiedTo
  <2>4. e.first # Null => 0 + 1 \in 1..Len(s) /\ e.first = s[0 + 1]
    BY <1>1 DEF Path
  <2>5. e.first = Null => Len(s) = 0
    <3>1. Len(s) # 0 => 1 \in 1..Len(s) /\ e.first = s[1]
      BY <1>1 DEF Path
    <3>2. Len(s) # 0 => e.first \in Cell
      BY <3>1 DEF Path
    <3>3. QED
      BY <3>2, NullAssumption DEF Cell
  <2>6. CopyingAt(first0, h, e, s, 0)
    BY <2>1, <2>3, <2>4, <2>5 DEF CopyingAt
  <2>7. \A c \in f[0] : c = first0
    BY <1>4
  <2>8. 0 \in 0..Cells
    BY <1>1
  <2> HIDE DEF first0
  <2>9. QED
    BY <2>6, <2>7, <2>8
<1>6. ASSUME NEW k \in 1..Cells, k - 1 \in S
      PROVE  k \in S
  <2>1. ASSUME NEW d \in f[k]
        PROVE  CopyingAt(d, h, e, s, k)
    <3>1. PICK c \in f[k - 1] : d \in CopyOne(c)
      BY <1>4
    <3>2. CopyingAt(c, h, e, s, k - 1) /\ k - 1 \in Nat /\ (k - 1) + 1 = k
      BY <1>6, <3>1
    <3>3. CopyingAt(d, h, e, s, (k - 1) + 1)
      BY <3>1, <3>2, CopyTurn
    <3>4. QED
      BY <3>2, <3>3
  <2>2. QED
    BY <2>1
<1> HIDE DEF S
<1>7. Cells \in S
  <2>1. 0..Cells \subseteq S
    BY <1>1, <1>5, <1>6, InductionUpTo
  <2>2. QED
    BY <1>1, <2>1
<1>8. PICK c \in f[Cells] : o = c.out
  BY <1>2 DEF Copy
<1>9. CopyingAt(c, h, e, s, Cells)
  BY <1>7, <1>8 DEF S
<1>10. ~(Cells + 1 \in 1..Len(s))
  BY <1>1
<1>11. QED
  BY <1>8, <1>9, <1>10 DEF CopyingAt

-----------------------------------------------------------------------------
(* Deleting only unmaps. *)
LEMMA DeleteShrinks ==
    ASSUME NEW h \in Heaps, NEW p \in Ptr
    PROVE  /\ Delete(h, p) \in Heaps
           /\ Shrunk(Delete(h, p), h)
           /\ p # Null => Delete(h, p)[p] = Unmapped
  BY DEF Delete, Heaps, Content, Shrunk, Ptr

LEMMA ShrunkTwice ==
    ASSUME NEW f, NEW g, NEW h, Shrunk(f, g), Shrunk(g, h)
    PROVE  Shrunk(f, h)
  BY DEF Shrunk

Deletions == [heap : Heaps, dead : BOOLEAN]

LEMMA DeleteMessageShrinks ==
    ASSUME NEW o \in Deletions, NEW n \in Cell
    PROVE  /\ DeleteMessage(o, n) \in Deletions
           /\ Shrunk(DeleteMessage(o, n).heap, o.heap)
           /\ ~DeleteMessage(o, n).dead => ~o.dead /\ DeleteMessage(o, n).heap[n] = Unmapped
<1>0. o.heap \in Heaps /\ o.dead \in BOOLEAN /\ n \in Ptr /\ n # Null
  BY NullAssumption DEF Deletions, Ptr, Cell
<1>1. CASE o.dead \/ o.heap[n].kind # "message"
  <2>1. DeleteMessage(o, n) = [o EXCEPT !.dead = TRUE]
    BY <1>1 DEF DeleteMessage
  <2>2. QED
    BY <2>1 DEF Deletions, Shrunk
<1>2. CASE ~o.dead /\ o.heap[n].kind = "message"
  <2> DEFINE g == Delete(o.heap, o.heap[n].buf)
             r == Delete(g, n)
  <2>1. DeleteMessage(o, n) = [o EXCEPT !.heap = r]
    BY <1>2 DEF DeleteMessage, Deletions
  <2>2. o.heap[n].buf \in Ptr
    BY <1>0, <1>2 DEF Heaps, Content, Unmapped, Text, Address
  <2>3. g \in Heaps /\ Shrunk(g, o.heap)
    BY <1>0, <2>2, DeleteShrinks
  <2> HIDE DEF g
  <2>4. r \in Heaps /\ Shrunk(r, g) /\ r[n] = Unmapped
    BY <1>0, <2>3, DeleteShrinks
  <2>5. Shrunk(r, o.heap)
    BY <2>3, <2>4, ShrunkTwice
  <2> HIDE DEF r
  <2>6. DeleteMessage(o, n).heap = r /\ DeleteMessage(o, n) \in Deletions
    BY <2>1, <2>4 DEF Deletions
  <2>7. QED
    BY <1>2, <2>4, <2>5, <2>6
<1>3. QED
  BY <1>1, <1>2

(* Deleting a list unmaps every message of it, or ends at one that is gone.*)
LEMMA DeleteMessagesShrinks ==
    ASSUME NEW h \in Heaps, NEW s \in Seq(Cell)
    PROVE  /\ DeleteMessages(h, s) \in Deletions
           /\ Shrunk(DeleteMessages(h, s).heap, h)
           /\ ~DeleteMessages(h, s).dead
                => \A i \in 1..Len(s) : IsMessage(h, s[i])
                                        /\ DeleteMessages(h, s).heap[s[i]] = Unmapped
<1>0. Len(s) \in Nat
  OBVIOUS
<1> DEFINE order == LastFirst(s)
           n == Len(order)
           gone == \E i \in DOMAIN s : h[s[i]].kind # "message"
           v == [heap |-> h, dead |-> gone]
           Steps(f) == f = [k \in 0..n |-> IF k = 0 THEN v ELSE DeleteMessage(f[k - 1], order[k])]
           after == CHOOSE f : Steps(f)
<1>1. order \in Seq(Cell) /\ n = Len(s) /\ \A k \in 1..n : order[k] = s[Len(s) + 1 - k]
  BY DEF LastFirst
<1>2. DeleteMessages(h, s) = after[n]
  BY DEF DeleteMessages
<1>3. v \in Deletions /\ v.heap = h /\ v.dead = gone
  BY DEF Deletions
<1>4. n \in Nat /\ \A k \in 1..n : order[k] \in Cell
  BY <1>0, <1>1
<1> HIDE DEF order, v
<1>5. Steps(after)
  <2> DEFINE hh == [k \in 1..n |-> [o \in Deletions |-> DeleteMessage(o, order[k])]]
  <2>1. StepsOf(Deletions, v, n, hh)
    BY <1>3, <1>4, DeleteMessageShrinks DEF StepsOf
  <2>2. PICK f : Follows(f, Deletions, v, n, hh)
    <3> HIDE DEF hh
    <3>1. QED
      BY <2>1, RecursiveFunction
  <2>3. f \in [0..n -> Deletions] /\ f[0] = v /\ \A k \in 1..n : f[k] = hh[k][f[k - 1]]
    BY <2>2 DEF Follows
  <2>4. ASSUME NEW k \in 1..n
        PROVE  f[k] = DeleteMessage(f[k - 1], order[k])
    <3>1. k - 1 \in 0..n
      BY <1>4
    <3>2. f[k - 1] \in Deletions
      BY <2>3, <3>1
    <3>3. hh[k] = [o \in Deletions |-> DeleteMessage(o, order[k])]
      OBVIOUS
    <3> HIDE DEF hh
    <3>4. QED
      BY <2>3, <3>2, <3>3
  <2>5. Steps(f)
    BY <1>4, <2>3, <2>4
  <2> HIDE DEF Steps
  <2>6. QED
    BY <2>5
<1> HIDE DEF after
<1>6. after[0] = v /\ \A k \in 1..n : after[k] = DeleteMessage(after[k - 1], order[k])
  BY <1>4, <1>5
<1> DEFINE Done(k) ==
               /\ after[k] \in Deletions
               /\ Shrunk(after[k].heap, h)
               /\ ~after[k].dead => /\ ~gone
                                    /\ \A j \in 1..k : after[k].heap[order[j]] = Unmapped
           S == {k \in 0..n : Done(k)}
<1> HIDE DEF gone
<1>7. 0 \in S
  BY <1>3, <1>4, <1>6 DEF Shrunk
<1>8. ASSUME NEW k \in 1..n, k - 1 \in S
      PROVE  k \in S
  <2>1. Done(k - 1)
    BY <1>8
  <2>2. /\ after[k] \in Deletions
        /\ Shrunk(after[k].heap, after[k - 1].heap)
        /\ ~after[k].dead => ~after[k - 1].dead /\ after[k].heap[order[k]] = Unmapped
    <3>1. after[k - 1] \in Deletions /\ order[k] \in Cell
      BY <1>4, <2>1
    <3>2. after[k] = DeleteMessage(after[k - 1], order[k])
      BY <1>6
    <3>3. QED
      BY <3>1, <3>2, DeleteMessageShrinks
  <2>3. Shrunk(after[k].heap, h)
    BY <2>1, <2>2, ShrunkTwice
  <2>4. ASSUME ~after[k].dead, NEW j \in 1..k
        PROVE  after[k].heap[order[j]] = Unmapped
    <3>1. j = k \/ j \in 1..(k - 1)
      OBVIOUS
    <3>2. j \in 1..(k - 1) => after[k - 1].heap[order[j]] = Unmapped /\ order[j] \in Cell
      BY <1>4, <2>1, <2>2, <2>4
    <3>3. QED
      BY <2>2, <2>4, <3>1, <3>2 DEF Shrunk
  <2>5. Done(k)
    BY <2>1, <2>2, <2>3, <2>4
  <2> HIDE DEF Done
  <2>6. QED
    BY <2>5
<1> HIDE DEF S
<1>9. 0..n \subseteq S
  BY <1>4, <1>7, <1>8, InductionUpTo
<1>10. Done(n)
  BY <1>4, <1>9 DEF S
<1>11. ASSUME ~after[n].dead, NEW i \in 1..Len(s)
       PROVE  IsMessage(h, s[i]) /\ after[n].heap[s[i]] = Unmapped
  <2>1. Len(s) + 1 - i \in 1..n
    BY <1>0, <1>1
  <2>2. order[Len(s) + 1 - i] = s[i]
    BY <1>0, <1>1, <2>1
  <2>3. QED
    BY <1>10, <1>11, <2>1, <2>2 DEF gone, IsMessage
<1>12. QED
  BY <1>2, <1>10, <1>11

(* The destructor only unmaps: the messages, their texts and what() ... *)
LEMMA DestroyShrinks ==
    ASSUME NEW h \in Heaps, NEW e \in ExceptionRecords, Chain(h, e) \in Seq(Cell)
    PROVE  /\ Destroy(h, e) \in Deletions
           /\ Shrunk(Destroy(h, e).heap, h)
           /\ ~Destroy(h, e).dead => \A i \in 1..Len(Chain(h, e)) :
                                         /\ IsMessage(h, Chain(h, e)[i])
                                         /\ Destroy(h, e).heap[Chain(h, e)[i]] = Unmapped
           /\ e.print # Null => Destroy(h, e).heap[e.print] = Unmapped
<1> DEFINE s == Chain(h, e)
           r == DeleteMessages(h, s)
           g == Delete(r.heap, e.print)
<1>1. Destroy(h, e) = [heap |-> g, dead |-> r.dead]
  BY DEF Destroy
<1> HIDE DEF s
<1>2. /\ r \in Deletions /\ Shrunk(r.heap, h)
      /\ ~r.dead => \A i \in 1..Len(s) : IsMessage(h, s[i]) /\ r.heap[s[i]] = Unmapped
  BY DeleteMessagesShrinks DEF s
<1>3. r.heap \in Heaps /\ r.dead \in BOOLEAN /\ e.print \in Ptr
  BY <1>2 DEF Deletions, ExceptionRecords
<1> HIDE DEF r
<1>4. g \in Heaps /\ Shrunk(g, r.heap) /\ (e.print # Null => g[e.print] = Unmapped)
  BY <1>3, DeleteShrinks
<1>5. Shrunk(g, h)
  BY <1>2, <1>4, ShrunkTwice
<1>6. \A i \in 1..Len(s) : s[i] \in Cell
  BY DEF s
<1>7. ~r.dead => \A i \in 1..Len(s) : IsMessage(h, s[i]) /\ g[s[i]] = Unmapped
  BY <1>2, <1>4, <1>6 DEF Shrunk
<1> HIDE DEF g
<1>8. QED
  BY <1>1, <1>3, <1>4, <1>5, <1>7 DEF Deletions, s

(* ... so that nothing of an exception stays mapped. *)
LEMMA NothingStays ==
    ASSUME NEW h \in Heaps, NEW e \in ExceptionRecords, NEW s, Whole(h, e, s),
           ~Destroy(h, e).dead, NEW c \in Mapped(Destroy(h, e).heap)
    PROVE  c \in Mapped(h) /\ c # e.print /\ \A i \in 1..Len(s) : c # s[i]
<1>1. Chain(h, e) = s /\ s \in Seq(Cell)
  BY WholeChain
<1>2. c \in Cell /\ Destroy(h, e).heap[c] # Unmapped
  BY DEF Mapped, Unmapped
<1>3. Shrunk(Destroy(h, e).heap, h)
  BY <1>1, DestroyShrinks
<1>4. c \in Mapped(h)
  BY <1>2, <1>3 DEF Shrunk, Mapped
<1>5. e.print # Null => Destroy(h, e).heap[e.print] = Unmapped
  BY <1>1, DestroyShrinks
<1>6. \A i \in 1..Len(s) : Destroy(h, e).heap[s[i]] = Unmapped
  BY <1>1, DestroyShrinks
<1>7. c # Null
  BY NullAssumption DEF Mapped, Cell
<1>8. QED
  BY <1>2, <1>4, <1>5, <1>6, <1>7

LEMMA DestroyBroken ==
    ASSUME NEW h \in Heaps, NEW e \in ExceptionRecords, Broken(h, e)
    PROVE  Destroy(h, e).dead
<1>1. /\ Chain(h, e) \in Seq(Cell)
      /\ \E i \in 1..Len(Chain(h, e)) : ~IsMessage(h, Chain(h, e)[i])
  BY BrokenChain DEF IsMessage
<1>2. QED
  BY <1>1, DestroyShrinks DEF Deletions

(* The copy of a broken exception does not end well, or has a message      *)
(* where the broken one was: the destructor of that one takes it along.    *)
LEMMA CopyOfBroken ==
    ASSUME NEW h \in Heaps, NEW e \in ExceptionRecords, Broken(h, e), NEW o \in Copy(h, e)
    PROVE  /\ o.exc \in ExceptionRecords /\ o.dead \in BOOLEAN
           /\ Destroy(o.heap, e) \in Deletions
           /\ \/ o.dead \/ Destroy(o.heap, e).dead
              \/ o.exc.print = Null /\ Broken(Destroy(o.heap, e).heap, o.exc)
<1>1. PICK s : Path(h, e, s) /\ \E i \in 1..Len(s) : ~IsMessage(h, s[i])
  BY DEF Broken
<1>2. /\ o.heap \in Heaps /\ o.exc \in ExceptionRecords /\ o.dead \in BOOLEAN
      /\ ~o.dead => (\E t : CopiedTo(o, h, e, t)) /\ (Len(s) = 0 \/ IsMessage(o.heap, s[Len(s)]))
  BY <1>1, CopyWalks
<1>3. Destroy(o.heap, e) \in Deletions
  BY <1>2, ChainIsSequence, DestroyShrinks
<1>4. ASSUME ~o.dead, ~Destroy(o.heap, e).dead
      PROVE  o.exc.print = Null /\ Broken(Destroy(o.heap, e).heap, o.exc)
  <2> DEFINE n == Len(s)
             g == Destroy(o.heap, e).heap
  <2>1. /\ s \in Seq(Cell) /\ n \in Nat \ {0} /\ n \in 1..n /\ \A i \in 1..n : s[i] \in Cell
        /\ \A i, j \in 1..n : s[i] = s[j] => i = j
        /\ \A i \in 1..n : Behind(h, s[i]) = IF i = n THEN Null ELSE s[i + 1]
        /\ e.first = s[1] /\ Null \notin Cell
    <3>1. Null \notin Cell
      BY NullAssumption DEF Cell
    <3>2. n \in Nat /\ n # 0
      BY <1>1 DEF Path
    <3>3. QED
      BY <1>1, <3>1, <3>2 DEF Path
  <2>2. ASSUME NEW i \in 1..n, i # n
        PROVE  IsMessage(h, s[i]) /\ Behind(h, s[i]) = s[i + 1]
    <3>1. i + 1 \in 1..n
      BY <2>1, <2>2
    <3>2. Behind(h, s[i]) = s[i + 1] /\ s[i + 1] # Null
      BY <2>1, <2>2, <3>1
    <3>3. QED
      BY <3>2 DEF Behind, IsMessage
  <2>3. ~IsMessage(h, s[n]) /\ IsMessage(o.heap, s[n])
    BY <1>1, <1>2, <1>4, <2>1, <2>2
  <2>4. PICK t : CopiedTo(o, h, e, t)
    BY <1>2, <1>4
  <2>5. /\ o.exc.print = Null /\ Whole(o.heap, o.exc, t)
        /\ \A i \in 1..Len(t) : t[i] \notin Mapped(h)
        /\ \A c \in Mapped(h) : o.heap[c] = h[c]
        /\ \A c \in Mapped(o.heap) : c \in Mapped(h) \/ \E i \in 1..Len(t) : c = t[i]
    BY <2>4 DEF CopiedTo
  <2>6. /\ t \in Seq(Cell) /\ Len(t) \in Nat /\ \A i \in 1..Len(t) : t[i] \in Cell
        /\ \A i, j \in 1..Len(t) : t[i] = t[j] => i = j
        /\ \A i \in 1..Len(t) : Behind(o.heap, t[i]) = IF i = Len(t) THEN Null ELSE t[i + 1]
    BY <2>5 DEF Whole, Path
  <2>7. PICK j \in 1..Len(t) : s[n] = t[j]
    BY <2>1, <2>3, <2>5 DEF IsMessage, Mapped
  <2>8. ASSUME NEW i \in 1..n, i # n
        PROVE  s[i] \in Mapped(h) /\ Behind(o.heap, s[i]) = s[i + 1]
    <3>1. s[i] \in Mapped(h) /\ o.heap[s[i]] = h[s[i]]
      BY <2>1, <2>2, <2>5, <2>8 DEF IsMessage, Mapped
    <3>2. QED
      BY <2>2, <2>8, <3>1 DEF Behind
  <2> DEFINE m == n + (Len(t) - j)
             at(i) == IF i < n THEN s[i] ELSE t[j + (i - n)]
             p == [i \in 1..m |-> at(i)]
  <2>9. m \in Nat /\ n \in 1..m /\ 1 \in 1..m
    BY <2>1, <2>6, <2>7
  <2>10. ASSUME NEW i \in 1..m
         PROVE  \/ i \in 1..n /\ i # n /\ at(i) = s[i]
                \/ i >= n /\ j + (i - n) \in 1..Len(t) /\ at(i) = t[j + (i - n)]
    BY <2>1, <2>6, <2>7, SMTT(30)
  <2>11. p \in Seq(Cell) /\ Len(p) = m /\ \A i \in 1..m : p[i] = at(i)
    <3>1. ASSUME NEW i \in 1..m
          PROVE  at(i) \in Cell
      <4> HIDE DEF at, m
      <4>1. CASE i \in 1..n /\ i # n /\ at(i) = s[i]
        BY <2>1, <4>1
      <4>2. CASE i >= n /\ j + (i - n) \in 1..Len(t) /\ at(i) = t[j + (i - n)]
        BY <2>6, <4>2
      <4>3. QED
        BY <2>10, <4>1, <4>2
    <3> HIDE DEF at, m
    <3>2. QED
      BY <2>9, <3>1
  <2>12. at(n) = s[n] /\ at(1) = s[1]
    BY <2>1, <2>7
  <2> HIDE DEF p
  <2>13. Path(o.heap, e, p)
    <3>1. ASSUME NEW i \in 1..m, NEW k \in 1..m, at(i) = at(k)
          PROVE  i = k
      <4>1. CASE i \in 1..n /\ i # n /\ at(i) = s[i]
        <5>1. CASE k \in 1..n /\ k # n /\ at(k) = s[k]
          <6> HIDE DEF at
          <6>1. QED
            BY <2>1, <3>1, <4>1, <5>1
        <5>2. CASE k >= n /\ j + (k - n) \in 1..Len(t) /\ at(k) = t[j + (k - n)]
          <6> HIDE DEF at
          <6>1. QED
            BY <2>5, <2>8, <3>1, <4>1, <5>2
        <5>3. QED
          BY <2>10, <5>1, <5>2
      <4>2. CASE i >= n /\ j + (i - n) \in 1..Len(t) /\ at(i) = t[j + (i - n)]
        <5>1. CASE k \in 1..n /\ k # n /\ at(k) = s[k]
          <6> HIDE DEF at
          <6>1. QED
            BY <2>5, <2>8, <3>1, <4>2, <5>1
        <5>2. CASE k >= n /\ j + (k - n) \in 1..Len(t) /\ at(k) = t[j + (k - n)]
          <6>1. j + (i - n) = j + (k - n)
            <7> HIDE DEF at
            <7>1. QED
              BY <2>6, <3>1, <4>2, <5>2
          <6>2. i \in Int /\ k \in Int /\ n \in Int /\ j \in Int
            BY <2>1
          <6> HIDE DEF at, n
          <6>3. QED
            BY <6>1, <6>2
        <5>3. QED
          BY <2>10, <5>1, <5>2
      <4>3. QED
        BY <2>10, <4>1, <4>2
    <3>2. ASSUME NEW i \in 1..m
          PROVE  Behind(o.heap, at(i)) = IF i = m THEN Null ELSE at(i + 1)
      <4>1. CASE i \in 1..n /\ i # n /\ at(i) = s[i]
        <5>1. i # m /\ i + 1 \in 1..n /\ Behind(o.heap, s[i]) = s[i + 1]
          BY <2>1, <2>6, <2>7, <2>8, <4>1
        <5>2. at(i + 1) = s[i + 1]
          <6>1. CASE i + 1 = n
            BY <2>12, <6>1
          <6>2. CASE i + 1 # n
            BY <2>1, <5>1, <6>2
          <6>3. QED
            BY <6>1, <6>2
        <5> HIDE DEF at, m
        <5>3. QED
          BY <4>1, <5>1, <5>2
      <4>2. CASE i >= n /\ j + (i - n) \in 1..Len(t) /\ at(i) = t[j + (i - n)]
        <5> DEFINE k == j + (i - n)
        <5>1. (i = m <=> k = Len(t)) /\ (i # m => at(i + 1) = t[k + 1])
          BY <2>1, <2>6, <2>7, <4>2
        <5>2. Behind(o.heap, t[k]) = IF k = Len(t) THEN Null ELSE t[k + 1]
          BY <2>6, <4>2
        <5>3. at(i) = t[k]
          BY <4>2, Zenon
        <5> HIDE DEF at, m, k
        <5>4. QED
          BY <5>1, <5>2, <5>3
      <4>3. QED
        BY <2>10, <4>1, <4>2
    <3> HIDE DEF at, m
    <3>3. e.first = p[1] /\ Len(p) # 0
      BY <2>1, <2>9, <2>11, <2>12
    <3>4. \A i, k \in 1..Len(p) : p[i] = p[k] => i = k
      BY <2>11, <3>1
    <3>5. \A i \in 1..Len(p) : i # m => i + 1 \in 1..m
      BY <2>9, <2>11
    <3>6. \A i \in 1..Len(p) : Behind(o.heap, p[i]) = IF i = Len(p) THEN Null ELSE p[i + 1]
      BY <2>11, <3>2, <3>5
    <3>7. QED
      BY <2>11, <3>3, <3>4, <3>6 DEF Path
  <2>14. Chain(o.heap, e) = p
    BY <2>13, PathIsChain
  <2> HIDE DEF at, m
  <2>15. p \in Seq(Cell) /\ n \in 1..Len(p) /\ p[n] = s[n]
    BY <2>9, <2>11, <2>12
  <2>16. g[s[n]] = Unmapped /\ Shrunk(g, o.heap)
    <3>1. /\ Shrunk(Destroy(o.heap, e).heap, o.heap)
          /\ \A i \in 1..Len(p) : Destroy(o.heap, e).heap[p[i]] = Unmapped
      BY <1>2, <1>4, <2>14, <2>15, DestroyShrinks
    <3>2. QED
      BY <2>15, <3>1
  <2> HIDE DEF g
  <2>17. ~IsMessage(g, t[j])
    BY <2>7, <2>16 DEF IsMessage, Unmapped
  <2>18. Broken(g, o.exc)
    <3>1. Whole(g, o.exc, t) \/ Broken(g, o.exc)
      BY <2>5, <2>16, ShrunkList
    <3>2. QED
      BY <2>17, <3>1 DEF Whole
  <2>19. QED
    BY <2>5, <2>18 DEF g
<1>5. QED
  BY <1>2, <1>3, <1>4

-----------------------------------------------------------------------------
(* what() leaves the messages alone; its buffer is a text of its own. *)
Printed(h, e, o) ==
    /\ o.exc.first = e.first /\ o.exc.last = e.last /\ o.exc.type = e.type
    /\ o.exc.print # Null => o.heap[o.exc.print].kind = "text"
    /\ SameLinks(o.heap, h)
    /\ Mapped(o.heap) \subseteq (Mapped(h) \ {e.print}) \cup {o.exc.print}

LEMMA WhatPrints ==
    ASSUME NEW h \in Heaps, NEW e \in ExceptionRecords, NEW o \in What(h, e),
           e.print # Null => ~IsMessage(h, e.print)
    PROVE  o \in Outcomes /\ Printed(h, e, o)
<1> DEFINE g == Delete(h, e.print)
           none == [heap |-> g, exc |-> [e EXCEPT !.print = Null], dead |-> FALSE]
           died == [heap |-> g, exc |-> [e EXCEPT !.print = Null], dead |-> TRUE]
           new(d) == [heap |-> Delete([g EXCEPT ![d] = Text], Null),
                      exc |-> [e EXCEPT !.print = d], dead |-> FALSE]
<1>0. e.print \in Ptr /\ Null \in Ptr /\ Null \notin Cell /\ \A c \in Cell : c \in Ptr
  BY NullAssumption DEF ExceptionRecords, Ptr, Cell
<1>1. g \in Heaps /\ Shrunk(g, h) /\ (e.print # Null => g[e.print] = Unmapped)
  BY <1>0, DeleteShrinks
<1>2. o = none \/ o = died \/ \E d \in Placements(g) : o = new(d)
  <2> DEFINE printed == {[heap |-> r.heap, exc |-> [e EXCEPT !.print = r.buf], dead |-> FALSE]
                            : r \in PushBack(g, Null)}
  <2>1. o \in printed \/ o = none \/ o = died
    <3> HIDE DEF printed, none, died, g
    <3>1. What(h, e) \subseteq printed \cup {none, died}
      BY DEF What, printed, none, died, g
    <3>2. QED
      BY <3>1
  <2>2. ASSUME o \in printed
        PROVE  \E d \in Placements(g) : o = new(d)
    <3>1. PICK r \in PushBack(g, Null) :
              o = [heap |-> r.heap, exc |-> [e EXCEPT !.print = r.buf], dead |-> FALSE]
      BY <2>2
    <3>2. PICK d \in Placements(g) : r = [heap |-> Delete([g EXCEPT ![d] = Text], Null), buf |-> d]
      BY DEF PushBack
    <3>3. o = new(d)
      BY <3>1, <3>2
    <3>4. QED
      BY <3>3
  <2>3. QED
    BY <2>1, <2>2
<1>3. \A c \in Cell : c # e.print => g[c] = h[c]
  BY DEF Delete, Heaps
<1> HIDE DEF g
<1>4. SameLinks(g, h) /\ Mapped(g) \subseteq Mapped(h) \ {e.print}
  BY <1>0, <1>1, <1>3 DEF SameLinks, Shrunk, Mapped, IsMessage, Unmapped
<1>5. ASSUME NEW p \in Ptr
      PROVE  /\ [e EXCEPT !.print = p] \in ExceptionRecords
             /\ [e EXCEPT !.print = p].print = p
             /\ [e EXCEPT !.print = p].first = e.first
             /\ [e EXCEPT !.print = p].last = e.last
             /\ [e EXCEPT !.print = p].type = e.type
  BY DEF ExceptionRecords
<1>6. CASE o = none \/ o = died
  <2>1. o.heap = g /\ o.exc = [e EXCEPT !.print = Null] /\ o.dead \in BOOLEAN
        /\ o = [heap |-> o.heap, exc |-> o.exc, dead |-> o.dead]
    <3>1. CASE o = none
      BY <3>1
    <3>2. CASE o = died
      BY <3>2
    <3>3. QED
      BY <1>6, <3>1, <3>2
  <2>2. o \in Outcomes
    BY <1>0, <1>1, <1>5, <2>1 DEF Outcomes
  <2>3. QED
    BY <1>0, <1>4, <1>5, <2>1, <2>2 DEF Printed
<1>7. ASSUME NEW d \in Placements(g), o = new(d)
      PROVE  o \in Outcomes /\ Printed(h, e, o)
  <2>1. d \in Cell /\ g[d].kind = "none" /\ d # Null /\ d \in Ptr
    BY <1>0 DEF Placements, Mapped
  <2>2. o.heap = [g EXCEPT ![d] = Text] /\ o.exc = [e EXCEPT !.print = d] /\ o.dead = FALSE
        /\ o = [heap |-> o.heap, exc |-> o.exc, dead |-> o.dead]
    BY <1>7 DEF Delete
  <2>3. Text \in Content /\ Text.kind = "text"
    BY DEF Content, Text
  <2>4. /\ o.heap \in Heaps /\ o.heap[d] = Text
        /\ \A c \in Cell \ {d} : o.heap[c] = g[c]
    BY <1>1, <2>1, <2>2, <2>3 DEF Heaps
  <2>5. o \in Outcomes
    BY <1>5, <2>1, <2>2, <2>4 DEF Outcomes
  <2>6. SameLinks(o.heap, g)
    BY <2>1, <2>3, <2>4 DEF SameLinks, IsMessage
  <2>7. SameLinks(o.heap, h)
    BY <1>4, <2>6 DEF SameLinks
  <2>8. Mapped(o.heap) \subseteq Mapped(g) \cup {d}
    BY <2>4 DEF Mapped
  <2>9. /\ o.exc.first = e.first /\ o.exc.last = e.last /\ o.exc.type = e.type
        /\ o.exc.print = d
    BY <1>5, <2>1, <2>2
  <2>10. Mapped(o.heap) \subseteq (Mapped(h) \ {e.print}) \cup {o.exc.print}
    BY <1>4, <2>8, <2>9, Zenon
  <2>11. o.heap[o.exc.print].kind = "text"
    BY <2>3, <2>4, <2>9
  <2>12. QED
    BY <2>5, <2>7, <2>9, <2>10, <2>11, Zenon DEF Printed
<1>8. QED
  BY <1>2, <1>6, <1>7

-----------------------------------------------------------------------------
(* A list keeps its messages while the cells that are mapped stay.         *)
LEMMA KeptWhole ==
    ASSUME NEW g, NEW h, NEW e, NEW s, Whole(h, e, s), \A c \in Mapped(h) : g[c] = h[c]
    PROVE  Whole(g, e, s)
<1>1. \A i \in 1..Len(s) : s[i] \in Cell /\ IsMessage(h, s[i])
  BY DEF Whole, Path
<1>2. \A i \in 1..Len(s) : g[s[i]] = h[s[i]]
  BY <1>1 DEF Mapped, IsMessage
<1>3. QED
  BY <1>1, <1>2 DEF Whole, Path, IsMessage, Behind

(* Nothing but K and the messages s is mapped. *)
OnlyMapped(h, K, s) == \A c \in Mapped(h) : c \in K \/ \E i \in 1..Len(s) : c = s[i]

(* What is left of an exception: it is broken, or only K is mapped beside. *)
Remains(h, e, K) ==
    Broken(h, e) \/ \E s : Whole(h, e, s) /\ OnlyMapped(h, K, s)

(* throw: the exception is copied and the original destroyed, and more     *)
(* cells may go.  What is left is the copy: nothing of the original or of  *)
(* its what() is mapped, or the destructor died. *)
LEMMA ThrowKeeps ==
    ASSUME NEW h \in Heaps, NEW e \in ExceptionRecords, NEW s, Whole(h, e, s),
           NEW o \in Copy(h, e), NEW g, Shrunk(g, Destroy(o.heap, e).heap),
           NEW K, OnlyMapped(h, K \cup {e.print}, s)
    PROVE  /\ o.exc \in ExceptionRecords /\ o.dead \in BOOLEAN
           /\ Destroy(o.heap, e) \in Deletions
           /\ \/ o.dead \/ Destroy(o.heap, e).dead
              \/ o.exc.print = Null /\ Remains(g, o.exc, K)
<1>1. /\ o.heap \in Heaps /\ o.exc \in ExceptionRecords /\ o.dead \in BOOLEAN
      /\ ~o.dead => \E t : CopiedTo(o, h, e, t)
  BY CopyWalks DEF Whole
<1>2. Destroy(o.heap, e) \in Deletions /\ Shrunk(Destroy(o.heap, e).heap, o.heap)
  BY <1>1, ChainIsSequence, DestroyShrinks
<1>3. ASSUME ~o.dead, ~Destroy(o.heap, e).dead
      PROVE  o.exc.print = Null /\ Remains(g, o.exc, K)
  <2>1. PICK t : CopiedTo(o, h, e, t)
    BY <1>1, <1>3
  <2>2. /\ o.exc.print = Null /\ Whole(o.heap, o.exc, t)
        /\ \A c \in Mapped(h) : o.heap[c] = h[c]
        /\ \A c \in Mapped(o.heap) : c \in Mapped(h) \/ \E i \in 1..Len(t) : c = t[i]
    BY <2>1 DEF CopiedTo
  <2>3. Whole(o.heap, e, s)
    BY <2>2, KeptWhole
  <2>4. Shrunk(g, o.heap)
    BY <1>2, ShrunkTwice
  <2>5. Whole(g, o.exc, t) \/ Broken(g, o.exc)
    BY <2>2, <2>4, ShrunkList
  <2>6. ASSUME NEW c \in Mapped(g)
        PROVE  c \in K \/ \E i \in 1..Len(t) : c = t[i]
    <3>1. c \in Mapped(Destroy(o.heap, e).heap)
      BY DEF Shrunk, Mapped, Unmapped
    <3>2. c \in Mapped(o.heap) /\ c # e.print /\ \A i \in 1..Len(s) : c # s[i]
      BY <1>1, <1>3, <2>3, <3>1, NothingStays
    <3>3. c \in Mapped(h) => c \in K \/ c = e.print \/ \E i \in 1..Len(s) : c = s[i]
      BY DEF OnlyMapped
    <3>4. QED
      BY <2>2, <3>2, <3>3
  <2>7. QED
    BY <2>2, <2>5, <2>6 DEF Remains, OnlyMapped
<1>4. QED
  BY <1>1, <1>2, <1>3

-----------------------------------------------------------------------------
(* The pool.  A pointer leads to an object that was started, whose         *)
(* _ParentPid is its id; a job that was not started has nothing behind it. *)
Linkage ==
    /\ object \in [Job -> {"none", "live", "deleted"}]
    /\ running \subseteq Job /\ orphans \subseteq Job /\ jobs \subseteq Job /\ strayed \subseteq Job
    /\ {first, last, curth} \subseteq Job \cup {None}
    /\ next \in [Job -> Job \cup {None}]
    /\ threadPid = [j \in Job |-> NoTid]
    /\ parentPid \in [Job -> {NoTid} \cup {Tid(j) : j \in Job}]
    /\ \A p \in Job : p \in {first, last, curth} \/ (\E j \in Job : next[j] = p)
                      => object[p] # "none"
    /\ \A j \in Job : object[j] # "none" => parentPid[j] = Tid(j)
    /\ \A j \in Job : object[j] = "none" => next[j] = None

(* The jobs of the pool are in the list, which leads over live objects,    *)
(* and its last job ends it if that is in it. *)
AllListed ==
    /\ jobs \subseteq Listed \cup strayed
    /\ \A j \in Listed : object[j] = "live"
    /\ first # None => last # None
    /\ first # None /\ last \in Listed => next[last] = None

(* The list does not come back to a job. *)
Rising(r) == \A k \in Listed : next[k] # None => r[k] < r[next[k]]
Ranked == \E r \in [Job -> Nat] : Rising(r)

PoolInv == Linkage /\ AllListed /\ Ranked

(* joinable() is false of every job that was started. *)
LEMMA NeverJoinable ==
    ASSUME Linkage, NEW j \in Job, object[j] # "none"
    PROVE  ~Joinable(j)
  BY DEF Linkage, Joinable, Tid, NoTid

(* A set that is closed from the first job has the list. *)
LEMMA ListedLeast ==
    ASSUME NEW S \in SUBSET Job, ClosedFrom(S, first)
    PROVE  Listed \subseteq S
  BY DEF Listed, Walk

(* An empty list has no jobs. *)
ClosedAfter(S) == /\ first' \in S \/ first' = None
                  /\ \A k \in S : next'[k] \in S \/ next'[k] = None

LEMMA ListedLeastAfter ==
    ASSUME NEW S \in SUBSET Job, ClosedAfter(S)
    PROVE  Listed' \subseteq S
  BY DEF ClosedAfter, ClosedFrom, Listed, Walk

LEMMA NothingListed ==
    ASSUME first = None
    PROVE  Listed = {}
<1>1. {} \in SUBSET Job /\ ClosedFrom({}, first)
  BY DEF ClosedFrom
<1>2. QED
  BY <1>1, ListedLeast

(* The list is closed itself. *)
LEMMA ListedClosed ==
    ASSUME Linkage
    PROVE  ClosedFrom(Listed, first) /\ Listed \subseteq Job
<1>1. first \in Job \cup {None} /\ \A k \in Job : next[k] \in Job \cup {None}
  BY DEF Linkage
<1>2. first \in Listed \/ first = None
  BY <1>1 DEF Listed, Walk, ClosedFrom
<1>3. ASSUME NEW k \in Listed, next[k] # None
      PROVE  next[k] \in Listed
  <2>1. k \in Job /\ next[k] \in Job
    BY <1>1, <1>3 DEF Listed, Walk
  <2>2. ASSUME NEW S \in SUBSET Job, ClosedFrom(S, first)
        PROVE  next[k] \in S
    <3>1. k \in S
      BY <2>2, ListedLeast
    <3>2. QED
      BY <1>3, <2>2, <3>1 DEF ClosedFrom
  <2>3. QED
    BY <2>1, <2>2 DEF Listed, Walk
<1>4. Listed \subseteq Job
  BY DEF Listed, Walk
<1>5. QED
  BY <1>2, <1>3, <1>4 DEF ClosedFrom

(* addjob keeps what is listed, and lists the new job unless the last one  *)
(* is not in the list. *)
LEMMA AddJobLists ==
    ASSUME PoolInv, NEW j \in Job, AddJob(j)
    PROVE  /\ Listed \subseteq Listed' /\ Listed' \subseteq Listed \cup {j}
           /\ j \in Listed' <=> first = None \/ last \in Listed
           /\ j \notin Listed
<1>0. /\ ClosedFrom(Listed, first) /\ Listed \subseteq Job /\ first \in Job \cup {None}
      /\ next \in [Job -> Job \cup {None}]
  BY ListedClosed DEF PoolInv, Linkage
<1>1. j \notin Listed
  BY DEF PoolInv, AllListed, AddJob, Started
<1>2. /\ \A i \in Job : next'[i] = IF first # None /\ i = last THEN j
                                   ELSE IF i = j THEN None ELSE next[i]
      /\ first' = IF first = None THEN j ELSE first
      /\ next' \in [Job -> Job \cup {None}]
  BY <1>0 DEF AddJob
<1>3. CASE first = None
  <2>1. Listed = {} /\ first' = j /\ next'[j] = None
    BY <1>2, <1>3, NothingListed
  <2>2. ClosedFrom({j}, first)'
    BY <2>1 DEF ClosedFrom
  <2>3. Listed' \subseteq {j}
    BY <2>2 DEF Listed, Walk
  <2>4. j \in Listed'
    BY <2>1, NoneAssumption DEF Listed, Walk, ClosedFrom
  <2>5. QED
    BY <1>1, <1>3, <2>1, <2>3, <2>4
<1>4. CASE first # None
  <2>1. first' = first /\ first \in Listed
    BY <1>0, <1>2, <1>4 DEF ClosedFrom
  <2>2. \A k \in Listed : k # last => next'[k] = next[k]
    BY <1>0, <1>1, <1>2
  <2>3. last \in Listed => next[last] = None /\ next'[last] = j
    BY <1>0, <1>2, <1>4 DEF PoolInv, AllListed
  <2>4. ASSUME NEW S \in SUBSET Job, ClosedFrom(S, first)'
        PROVE  Listed \subseteq S
    <3>1. ClosedFrom(S \cap Listed, first)
      <4>1. first \in S
        BY <1>0, <1>4, <2>1, <2>4 DEF ClosedFrom
      <4>2. ASSUME NEW k \in S \cap Listed
            PROVE  next[k] \in S \cap Listed \/ next[k] = None
        <5>1. next[k] \in Listed \/ next[k] = None
          BY <1>0, <4>2 DEF ClosedFrom
        <5>2. k # last => next[k] \in S \/ next[k] = None
          BY <2>2, <2>4, <4>2 DEF ClosedFrom
        <5>3. QED
          BY <2>3, <4>2, <5>1, <5>2
      <4>3. QED
        BY <2>1, <4>1, <4>2 DEF ClosedFrom
    <3>2. QED
      BY <3>1, ListedLeast
  <2>5. Listed \subseteq Listed'
    BY <1>0, <2>4 DEF Listed, Walk
  <2>6. CASE last \in Listed
    <3>1. ASSUME NEW S \in SUBSET Job, ClosedFrom(S, first)'
          PROVE  j \in S
      <4>1. last \in S
        BY <2>4, <2>6, <3>1
      <4>2. next'[last] \in S \/ next'[last] = None
        BY <3>1, <4>1 DEF ClosedFrom
      <4>3. QED
        BY <2>3, <2>6, <4>2, NoneAssumption
    <3>2. j \in Listed'
      BY <3>1 DEF Listed, Walk
    <3>3. ClosedAfter(Listed \cup {j})
      <4>1. next'[j] = None
        BY <1>1, <1>2, <2>6
      <4>2. ASSUME NEW k \in Listed
            PROVE  next'[k] \in Listed \cup {j} \/ next'[k] = None
        BY <1>0, <2>2, <2>3, <4>2 DEF ClosedFrom
      <4>3. QED
        BY <2>1, <4>1, <4>2 DEF ClosedAfter
    <3>4. Listed' \subseteq Listed \cup {j}
      BY <1>0, <3>3, ListedLeastAfter
    <3>5. QED
      BY <1>1, <2>5, <2>6, <3>2, <3>4
  <2>7. CASE last \notin Listed
    <3>1. ClosedAfter(Listed)
      BY <1>0, <2>1, <2>2, <2>7 DEF ClosedAfter, ClosedFrom
    <3>2. Listed' \subseteq Listed
      BY <1>0, <3>1, ListedLeastAfter
    <3>3. QED
      BY <1>1, <1>4, <2>5, <2>7, <3>2
  <2>8. QED
    BY <2>6, <2>7
<1>5. QED
  BY <1>3, <1>4

(* deljob and join take one job out of the list and no other. *)
LEMMA TakeOutLists ==
    ASSUME Linkage, Ranked, NEW j \in Listed, TakeOut(j)
    PROVE  Listed' = Listed \ {j}
<1>0. /\ ClosedFrom(Listed, first) /\ Listed \subseteq Job /\ j \in Job
      /\ next \in [Job -> Job \cup {None}] /\ first \in Job \cup {None}
  BY ListedClosed DEF Linkage
<1>1. /\ first' = IF first = j THEN next[j] ELSE first
      /\ \A i \in Job : next'[i] = IF i = j THEN None
                                   ELSE IF next[i] = j THEN next[j] ELSE next[i]
  BY DEF TakeOut, NextOf
<1>2. next[j] # j
  BY <1>0, NoneAssumption DEF Ranked, Rising
<1>3. ASSUME NEW S \in SUBSET Job, ClosedFrom(S, first)'
      PROVE  Listed \ {j} \subseteq S
  <2>1. /\ first' \in S \/ first' = None
        /\ \A k \in S : next'[k] \in S \/ next'[k] = None
    BY <1>3 DEF ClosedFrom
  <2>2. CASE next[j] \in S \/ next[j] = None
    <3>1. ClosedFrom(S \cup {j}, first)
      BY <1>0, <1>1, <2>1, <2>2 DEF ClosedFrom
    <3>2. Listed \subseteq S \cup {j}
      BY <1>0, <3>1, ListedLeast
    <3>3. QED
      BY <3>2
  <2>3. CASE ~(next[j] \in S \/ next[j] = None)
    <3>1. ClosedFrom(S \ {j}, first)
      BY <1>0, <1>1, <2>1, <2>3 DEF ClosedFrom
    <3>2. Listed \subseteq S \ {j}
      BY <3>1, ListedLeast
    <3>3. QED
      BY <3>2
  <2>4. QED
    BY <2>2, <2>3
<1>4. Listed \ {j} \subseteq Listed'
  BY <1>0, <1>3 DEF Listed, Walk
<1>5. ClosedAfter(Listed \ {j})
  BY <1>0, <1>1, <1>2 DEF ClosedAfter, ClosedFrom
<1>6. Listed' \subseteq Listed \ {j}
  BY <1>0, <1>5, ListedLeastAfter
<1>7. QED
  BY <1>4, <1>6

LEMMA PoolStep ==
    ASSUME PoolInv, [Next]_vars
    PROVE  PoolInv'
<1>0. Linkage /\ AllListed /\ Ranked
  BY DEF PoolInv
<1>1. ASSUME UNCHANGED threads
      PROVE  PoolInv'
  BY <1>0, <1>1 DEF threads, list, PoolInv, Linkage, AllListed, Ranked, Rising, Listed, Walk,
     ClosedFrom
<1>2. ASSUME NEW j \in Job, AddJob(j)
      PROVE  PoolInv'
  <2>1. Linkage'
    BY <1>0, <1>2, NoneAssumption DEF AddJob, Started, Linkage
  <2>2. /\ Listed \subseteq Listed' /\ Listed' \subseteq Listed \cup {j} /\ j \notin Listed
        /\ j \in Listed' <=> first = None \/ last \in Listed
    BY <1>2, AddJobLists
  <2>3. /\ \A i \in Job : next'[i] = IF first # None /\ i = last THEN j
                                     ELSE IF i = j THEN None ELSE next[i]
        /\ last' = j /\ jobs' = jobs \cup {j}
        /\ strayed' = IF first # None /\ last \notin Listed THEN strayed \cup {j} ELSE strayed
        /\ object' = [object EXCEPT ![j] = "live"]
    BY <1>0, <1>2 DEF AddJob, Started, Linkage
  <2>4. ClosedFrom(Listed, first) /\ Listed \subseteq Job
    BY <1>0, ListedClosed
  <2>5. j \in Listed' => next'[j] = None
    BY <2>2, <2>3
  <2>6. AllListed'
    <3>1. jobs' \subseteq Listed' \cup strayed'
      BY <1>0, <2>2, <2>3 DEF AllListed
    <3>2. \A i \in Listed' : object'[i] = "live"
      BY <1>0, <2>2, <2>3, <2>4 DEF AllListed, Linkage
    <3>3. QED
      BY <2>3, <2>5, <3>1, <3>2, NoneAssumption DEF AllListed
  <2>7. Ranked'
    <3>1. PICK r \in [Job -> Nat] : Rising(r)
      BY <1>0 DEF Ranked
    <3>0. PICK q : q = IF last \in Listed THEN [r EXCEPT ![j] = r[last] + 1] ELSE r
      OBVIOUS
    <3>2. q \in [Job -> Nat] /\ \A i \in Job : i # j => q[i] = r[i]
      BY <2>4, <3>0, <3>1
    <3>3. last \in Listed => q[last] < q[j]
      BY <2>2, <2>4, <3>0, <3>1
    <3>4. ASSUME NEW k \in Listed', next'[k] # None
          PROVE  q[k] < q[next'[k]]
      <4>1. k \in Listed /\ k # j
        BY <2>2, <2>5, <3>4
      <4>2. CASE k = last /\ first # None
        BY <2>3, <2>4, <3>3, <4>1, <4>2
      <4>3. CASE ~(k = last /\ first # None)
        <5>1. next'[k] = next[k]
          BY <2>3, <2>4, <4>1, <4>3
        <5>2. next[k] \in Listed /\ next[k] # j
          BY <2>2, <2>4, <3>4, <4>1, <5>1 DEF ClosedFrom
        <5>3. r[k] < r[next[k]]
          BY <3>1, <3>4, <4>1, <5>1 DEF Rising
        <5>4. QED
          BY <2>4, <3>2, <4>1, <5>1, <5>2, <5>3
      <4>4. QED
        BY <4>2, <4>3
    <3>5. Rising(q)'
      BY <3>4 DEF Rising
    <3>6. QED
      BY <3>2, <3>5 DEF Ranked
  <2>8. QED
    BY <2>1, <2>6, <2>7 DEF PoolInv
<1>3. ASSUME NEW j \in Listed, TakeOut(j), UNCHANGED <<curth, strayed>>, jobs' = jobs \ {j}
      PROVE  PoolInv'
  <2>0. j \in Job /\ Listed \subseteq Job /\ object[j] = "live" /\ ClosedFrom(Listed, first)
    BY <1>0, <1>3, ListedClosed DEF AllListed
  <2>1. Linkage'
    BY <1>0, <1>3, <2>0, NoneAssumption DEF TakeOut, NextOf, Orphaned, Linkage
  <2>2. Listed' = Listed \ {j}
    BY <1>0, <1>3, TakeOutLists
  <2>3. /\ \A i \in Job : next'[i] = IF i = j THEN None
                                     ELSE IF next[i] = j THEN next[j] ELSE next[i]
        /\ object' = [object EXCEPT ![j] = "deleted"] /\ last' = last
    BY <1>3 DEF TakeOut, NextOf
  <2>4. first # None
    BY <1>3, NothingListed
  <2>5. AllListed'
    <3>1. jobs' \subseteq Listed' \cup strayed'
      BY <1>0, <1>3, <2>2 DEF AllListed
    <3>2. \A i \in Listed' : object'[i] = "live"
      BY <1>0, <2>0, <2>2, <2>3 DEF AllListed, Linkage
    <3>3. last' # None
      BY <1>0, <2>3, <2>4 DEF AllListed
    <3>4. last' \in Listed' => next'[last'] = None
      BY <1>0, <2>0, <2>2, <2>3, <2>4, NoneAssumption DEF AllListed
    <3>5. QED
      BY <3>1, <3>2, <3>3, <3>4 DEF AllListed
  <2>6. Ranked'
    <3>1. PICK r \in [Job -> Nat] : Rising(r)
      BY <1>0 DEF Ranked
    <3>2. ASSUME NEW k \in Listed', next'[k] # None
          PROVE  r[k] < r[next'[k]]
      <4>1. k \in Listed /\ k # j /\ k \in Job
        BY <2>0, <2>2, <3>2
      <4>2. CASE next[k] = j
        <5>1. next'[k] = next[j] /\ r[k] < r[j] /\ r[j] < r[next[j]]
          BY <1>3, <2>0, <2>3, <3>1, <3>2, <4>1, <4>2, NoneAssumption DEF Rising
        <5>2. next[j] \in Job
          BY <2>0, <2>3, <3>2, <4>1, <4>2 DEF ClosedFrom
        <5>3. r[k] \in Nat /\ r[j] \in Nat /\ r[next[j]] \in Nat
          BY <2>0, <3>1, <4>1, <5>2
        <5>4. QED
          BY <5>1, <5>3
      <4>3. CASE next[k] # j
        BY <2>3, <3>1, <3>2, <4>1, <4>3 DEF Rising
      <4>4. QED
        BY <4>2, <4>3
    <3>3. Rising(r)'
      BY <3>2 DEF Rising
    <3>4. QED
      BY <3>3 DEF Ranked
  <2>7. QED
    BY <2>1, <2>5, <2>6 DEF PoolInv
<1>4. ASSUME NEW j \in Job, WorkerEnds(j) \/ OrphanEnds(j)
      PROVE  PoolInv'
  <2>1. Linkage'
    BY <1>0, <1>4 DEF WorkerEnds, OrphanEnds, list, Linkage
  <2>2. UNCHANGED <<object, list>>
    BY <1>4 DEF WorkerEnds, OrphanEnds
  <2>3. QED
    BY <1>0, <2>1, <2>2 DEF list, PoolInv, AllListed, Ranked, Rising, Listed, Walk, ClosedFrom
<1>5. ASSUME RenewPool
      PROVE  PoolInv'
  <2>1. Linkage'
    BY <1>0, <1>5, NoneAssumption DEF RenewPool, Orphaned, Linkage
  <2>2. Listed' = {}
    <3>1. ClosedFrom({}, first)'
      BY <1>5 DEF RenewPool, ClosedFrom
    <3>2. QED
      BY <3>1 DEF Listed, Walk
  <2>3. AllListed'
    BY <1>5, <2>2 DEF RenewPool, AllListed
  <2>4. Ranked'
    <3>1. [i \in Job |-> 0] \in [Job -> Nat]
      OBVIOUS
    <3>2. Rising([i \in Job |-> 0])'
      BY <2>2 DEF Rising
    <3>3. QED
      BY <3>1, <3>2 DEF Ranked
  <2>5. QED
    BY <2>1, <2>3, <2>4 DEF PoolInv
<1>6. ASSUME curth' \in {None, first} \/ (curth # None /\ curth' = next[curth]),
             UNCHANGED <<object, running, orphans, threadPid, parentPid, list>>
      PROVE  PoolInv'
  <2>1. Linkage'
    <3>1. curth' \in Job \cup {None}
      BY <1>0, <1>6 DEF Linkage, list
    <3>2. curth' \in Job => object[curth'] # "none"
      BY <1>0, <1>6 DEF Linkage
    <3>3. QED
      BY <1>0, <1>6, <3>1, <3>2 DEF Linkage, list
  <2>2. QED
    BY <1>0, <1>6, <2>1 DEF list, PoolInv, AllListed, Ranked, Rising, Listed, Walk, ClosedFrom
<1>7. CASE Handling
  BY <1>1, <1>7 DEF Handling, AddMessage, Throw, ReadWhat, Rethrow, EndCatch, AppThrows
<1>8. CASE Serving
  BY <1>1, <1>8 DEF Serving, NewUnix, NewUnixFails, BindFails, NewInet, DeleteServer,
     MethodFails, NewClient, DeleteClient, Accept, TransferFails
<1>9. ASSUME NEW j \in Job, StartJob(j) \/ DelJob(j) \/ JobEnds(j) \/ LateEnd(j)
      PROVE  PoolInv'
  <2>1. CASE StartJob(j)
    BY <1>2, <2>1 DEF StartJob
  <2>2. CASE DelJob(j)
    BY <1>3, <2>2 DEF DelJob
  <2>3. CASE JobEnds(j) \/ LateEnd(j)
    BY <1>4, <2>3 DEF JobEnds, LateEnd
  <2>4. QED
    BY <1>9, <2>1, <2>2, <2>3
<1>10. CASE JoinStep
  <2>1. curth \in Job /\ ~Joinable(curth)
    BY <1>0, <1>10, NeverJoinable DEF JoinStep, Linkage
  <2>2. QED
    BY <1>6, <1>10, <2>1 DEF JoinStep, list
<1>11. CASE StartFails
  BY <1>1, <1>11 DEF StartFails
<1>12. CASE Join \/ JoinAgain
  BY <1>6, <1>12 DEF Join, JoinAgain
<1>13. CASE JoinReturn
  BY <1>1, <1>13 DEF JoinReturn
<1>14. CASE PoolEnds
  BY <1>5, <1>14 DEF PoolEnds
<1>15. CASE UNCHANGED vars
  BY <1>1, <1>15 DEF vars
<1>16. QED
  BY <1>7, <1>8, <1>9, <1>10, <1>11, <1>12, <1>13, <1>14, <1>15 DEF Next, Pooling, Joining

(* The invariant of the pool: the list leads over live objects and ends,   *)
(* every other pointer leads to an object that was started, and every job  *)
(* of the pool is in the list or was put behind one that is not. *)
THEOREM PoolInvariant == Spec => []PoolInv
<1>1. Init => PoolInv
  <2> SUFFICES ASSUME Init PROVE PoolInv
    OBVIOUS
  <2>1. Linkage
    BY NoneAssumption DEF Init, ThreadsInit, Linkage
  <2>2. first = None /\ Listed = {}
    BY NothingListed DEF Init, ThreadsInit
  <2>3. AllListed
    BY <2>2 DEF Init, ThreadsInit, AllListed
  <2>4. Ranked
    <3>1. [i \in Job |-> 0] \in [Job -> Nat] /\ Rising([i \in Job |-> 0])
      BY <2>2 DEF Rising
    <3>2. QED
      BY <3>1 DEF Ranked
  <2>5. QED
    BY <2>1, <2>3, <2>4 DEF PoolInv
<1>2. PoolInv /\ [Next]_vars => PoolInv'
  BY PoolStep
<1>3. QED
  BY <1>1, <1>2, PTL DEF Spec

(* JobsListed: the list never leads over a deleted Thread, and no job is   *)
(* lost from it but those that addjob put behind one that is not in it. *)
THEOREM AlwaysListed == Spec => []JobsListed
<1>1. PoolInv => JobsListed
  BY DEF PoolInv, AllListed, JobsListed
<1>2. QED
  BY <1>1, PoolInvariant, PTL

-----------------------------------------------------------------------------
(* The descriptors.  They are those of the server sockets, those of the    *)
(* client sockets that were accepted, and those that a constructor lost;   *)
(* no two of these are the same. *)
SocketTypes ==
    /\ server \in [Server -> [fd : 0..Fds, path : Ptr, live : BOOLEAN]]
    /\ client \in [Client -> [fd : 0..Fds, addr : Ptr \cup {Overwritten}, live : BOOLEAN]]
    /\ open \subseteq 1..Fds
    /\ lost \in [fds : SUBSET (1..Fds), cells : SUBSET Cell]
    /\ \A s \in Server : server[s].live <=> server[s].fd # NoFd
    /\ \A c \in Client : ~client[c].live => client[c] = NoClient

Owned ==
    /\ \A f \in open : \/ f \in lost.fds
                       \/ \E s \in Server : server[s].fd = f
                       \/ \E c \in Client : client[c].fd = f
    /\ lost.fds \subseteq open
    /\ \A s \in Server : server[s].fd \in (open \ lost.fds) \cup {NoFd}
    /\ \A c \in Client : client[c].fd \in (open \ lost.fds) \cup {NoFd}

Unshared ==
    /\ \A s, r \in Server : server[s].fd # NoFd /\ server[s].fd = server[r].fd => s = r
    /\ \A c, d \in Client : client[c].fd # NoFd /\ client[c].fd = client[d].fd => c = d
    /\ \A s \in Server, c \in Client : server[s].fd # NoFd => server[s].fd # client[c].fd

SocketInv == SocketTypes /\ Owned /\ Unshared

LEMMA PlacementsFree ==
    ASSUME NEW h, NEW d \in Placements(h)
    PROVE  d \in Cell /\ d \notin Mapped(h)
  BY DEF Placements

LEMMA SocketStep ==
    ASSUME SocketInv, [Next]_vars
    PROVE  SocketInv'
<1>0. SocketTypes /\ Owned /\ Unshared /\ Fds \in Nat
  BY BoundsAssumption DEF SocketInv
<1> USE DEF NoFd
<1>1. ASSUME UNCHANGED sockets
      PROVE  SocketInv'
  BY <1>0, <1>1 DEF sockets, SocketInv, SocketTypes, Owned, Unshared
<1>2. ASSUME NEW s \in Server, NEW f \in 1..Fds, NEW p \in Ptr, Opened(f), server[s].fd = NoFd,
             open' = open \cup {f}, UNCHANGED <<client, lost>>,
             server' = [server EXCEPT ![s] = [fd |-> f, path |-> p, live |-> TRUE]]
      PROVE  SocketInv'
  <2>1. SocketTypes'
    BY <1>0, <1>2 DEF SocketTypes
  <2>2. f \notin open
    BY <1>2 DEF Opened
  <2>3. \A r \in Server : server'[r].fd = IF r = s THEN f ELSE server[r].fd
    BY <1>0, <1>2 DEF SocketTypes
  <2>4. Owned'
    BY <1>0, <1>2, <2>2, <2>3 DEF Owned, SocketTypes
  <2>5. Unshared'
    BY <1>0, <1>2, <2>2, <2>3 DEF Owned, Unshared, SocketTypes
  <2>6. QED
    BY <2>1, <2>4, <2>5 DEF SocketInv
<1>3. CASE Handling
  BY <1>1, <1>3 DEF Handling, AddMessage, Throw, ReadWhat, Rethrow, EndCatch, AppThrows
<1>4. CASE Pooling
  BY <1>1, <1>4 DEF Pooling, StartJob, DelJob, JobEnds, LateEnd, StartFails, Join, Joining,
     JoinStep, JoinAgain, JoinReturn, PoolEnds, exceptions
<1>5. ASSUME NEW s \in Server, NewUnix(s)
      PROVE  SocketInv'
  <2>1. PICK f \in 1..Fds, d \in Placements(heap) :
            /\ Opened(f) /\ open' = open \cup {f}
            /\ server' = [server EXCEPT ![s] = [fd |-> f, path |-> d, live |-> TRUE]]
    BY <1>5 DEF NewUnix
  <2>2. d \in Ptr /\ server[s].fd = NoFd
    BY <1>0, <1>5, PlacementsFree DEF NewUnix, Ptr, SocketTypes
  <2>3. QED
    BY <1>2, <1>5, <2>1, <2>2 DEF NewUnix
<1>6. ASSUME NEW s \in Server, NewInet(s)
      PROVE  SocketInv'
  <2>1. PICK f \in 0..Fds :
            /\ InetSocket(f) /\ open' = open \cup ({f} \ {NoFd})
            /\ server' = [server EXCEPT ![s] = [fd |-> f, path |-> Null, live |-> TRUE]]
    BY <1>6 DEF NewInet
  <2>2. f \in 1..Fds /\ Opened(f) /\ open' = open \cup {f}
    BY <2>1 DEF InetSocket, Opened
  <2>3. Null \in Ptr /\ server[s].fd = NoFd
    BY <1>0, <1>6 DEF NewInet, Ptr, SocketTypes
  <2>4. QED
    BY <1>2, <1>6, <2>1, <2>2, <2>3 DEF NewInet
<1>7. ASSUME NEW s \in Server, BindFails(s)
      PROVE  SocketInv'
  <2>1. PICK f \in 1..Fds : /\ Opened(f) /\ open' = open \cup {f}
                            /\ lost' = [lost EXCEPT !.fds = @ \cup {f}]
    BY <1>7 DEF BindFails
  <2>2. f \notin open /\ UNCHANGED <<server, client>>
    BY <1>7, <2>1 DEF Opened, BindFails
  <2>3. lost'.fds = lost.fds \cup {f} /\ lost'.cells = lost.cells
    BY <1>0, <2>1 DEF SocketTypes
  <2>4. SocketTypes'
    BY <1>0, <2>1, <2>2 DEF SocketTypes
  <2>5. Owned'
    BY <1>0, <2>1, <2>2, <2>3 DEF Owned, SocketTypes
  <2>6. QED
    BY <1>0, <2>2, <2>4, <2>5 DEF SocketInv, Unshared
<1>8. ASSUME NEW s \in Server, DeleteServer(s)
      PROVE  SocketInv'
  <2>1. /\ open' = open \ {server[s].fd}
        /\ server' = [server EXCEPT ![s] = NoServer]
        /\ lost' = [lost EXCEPT !.cells = @ \ {server[s].path}]
        /\ client' = client
        /\ server[s].fd # NoFd
    BY <1>0, <1>8 DEF DeleteServer, SocketTypes
  <2>2. SocketTypes'
    BY <1>0, <2>1 DEF SocketTypes, NoServer, Ptr
  <2>3. \A r \in Server : server'[r].fd = IF r = s THEN NoFd ELSE server[r].fd
    BY <1>0, <2>1 DEF SocketTypes, NoServer
  <2>4. lost'.fds = lost.fds
    BY <1>0, <2>1 DEF SocketTypes
  <2>5. Owned'
    BY <1>0, <2>1, <2>3, <2>4 DEF Owned, Unshared, SocketTypes
  <2>6. Unshared'
    BY <1>0, <2>1, <2>3 DEF Unshared
  <2>7. QED
    BY <2>2, <2>5, <2>6 DEF SocketInv
<1>9. ASSUME NEW c \in Client, NewClient(c)
      PROVE  SocketInv'
  <2>1. PICK a \in Placements(heap) :
            client' = [client EXCEPT ![c] = [fd |-> NoFd, addr |-> a, live |-> TRUE]]
    BY <1>9 DEF NewClient
  <2>2. a \in Cell /\ client[c].fd = NoFd /\ UNCHANGED <<server, open, lost>>
    BY <1>0, <1>9, PlacementsFree DEF NewClient, SocketTypes, NoClient
  <2>3. SocketTypes'
    BY <1>0, <2>1, <2>2 DEF SocketTypes, Ptr
  <2>4. \A d \in Client : client'[d].fd = client[d].fd
    BY <1>0, <2>1, <2>2 DEF SocketTypes
  <2>5. Owned' /\ Unshared'
    BY <1>0, <2>2, <2>4 DEF Owned, Unshared
  <2>6. QED
    BY <2>3, <2>5 DEF SocketInv
<1>10. ASSUME NEW c \in Client, DeleteClient(c)
       PROVE  SocketInv'
  <2>1. /\ open' = open \ {client[c].fd}
        /\ client' = [client EXCEPT ![c] = NoClient]
        /\ UNCHANGED <<server, lost>>
    BY <1>10 DEF DeleteClient, Closed
  <2>2. SocketTypes'
    <3>1. NoClient \in [fd : 0..Fds, addr : Ptr \cup {Overwritten}, live : BOOLEAN]
      BY <1>0 DEF NoClient, Ptr
    <3>2. client' \in [Client -> [fd : 0..Fds, addr : Ptr \cup {Overwritten}, live : BOOLEAN]]
      BY <1>0, <2>1, <3>1 DEF SocketTypes
    <3>3. \A d \in Client : ~client'[d].live => client'[d] = NoClient
      BY <1>0, <2>1 DEF SocketTypes, NoClient
    <3>4. QED
      BY <1>0, <2>1, <3>2, <3>3 DEF SocketTypes
  <2>3. \A d \in Client : client'[d].fd = IF d = c THEN NoFd ELSE client[d].fd
    BY <1>0, <2>1 DEF SocketTypes, NoClient
  <2>4. Owned'
    BY <1>0, <2>1, <2>3 DEF Owned, Unshared, SocketTypes
  <2>5. Unshared'
    BY <1>0, <2>1, <2>3 DEF Unshared
  <2>6. QED
    BY <2>2, <2>4, <2>5 DEF SocketInv
<1>11. ASSUME NEW s \in Server, NEW c \in Client, Accept(s, c)
       PROVE  SocketInv'
  <2>1. PICK f \in 1..Fds :
            /\ Opened(f) /\ open' = open \cup {f}
            /\ client' = [client EXCEPT ![c].fd = f, ![c].addr = Overwritten]
    BY <1>11 DEF Accept
  <2>2. /\ f \notin open /\ client[c].live /\ client[c].fd = NoFd
        /\ lost' = [lost EXCEPT !.cells = @ \cup ({client[c].addr} \cap Mapped(heap))]
        /\ server' = server
    BY <1>11, <2>1 DEF Opened, Accept
  <2>3. lost'.fds = lost.fds
    BY <1>0, <2>2 DEF SocketTypes
  <2>4. \A d \in Client : client'[d].fd = IF d = c THEN f ELSE client[d].fd
    BY <1>0, <2>1 DEF SocketTypes
  <2>5. SocketTypes'
    <3>1. client' \in [Client -> [fd : 0..Fds, addr : Ptr \cup {Overwritten}, live : BOOLEAN]]
      <4>1. client[c] \in [fd : 0..Fds, addr : Ptr \cup {Overwritten}, live : BOOLEAN]
        BY <1>0 DEF SocketTypes
      <4>2. f \in 0..Fds /\ Overwritten \in Ptr \cup {Overwritten}
        BY <1>0
      <4>3. [client[c] EXCEPT !.fd = f, !.addr = Overwritten]
              \in [fd : 0..Fds, addr : Ptr \cup {Overwritten}, live : BOOLEAN]
        BY <4>1, <4>2
      <4>4. client' = [client EXCEPT ![c] = [client[c] EXCEPT !.fd = f, !.addr = Overwritten]]
        BY <1>0, <2>1 DEF SocketTypes
      <4>5. QED
        BY <1>0, <4>3, <4>4 DEF SocketTypes
    <3>2. lost' \in [fds : SUBSET (1..Fds), cells : SUBSET Cell]
      BY <1>0, <2>2 DEF SocketTypes, Mapped
    <3>3. \A d \in Client : client'[d].live = client[d].live
      BY <1>0, <2>1 DEF SocketTypes
    <3>4. QED
      BY <1>0, <2>1, <2>2, <2>4, <3>1, <3>2, <3>3 DEF SocketTypes
  <2>6. Owned'
    BY <1>0, <2>1, <2>2, <2>3, <2>4 DEF Owned, SocketTypes
  <2>7. Unshared'
    BY <1>0, <2>1, <2>2, <2>4 DEF Owned, Unshared, SocketTypes
  <2>8. QED
    BY <2>5, <2>6, <2>7 DEF SocketInv
<1>12. CASE UNCHANGED vars
  BY <1>1, <1>12 DEF vars
<1>13. CASE Serving
  <2>1. ASSUME NEW s \in Server, NewUnixFails(s) \/ MethodFails(s)
        PROVE  SocketInv'
    BY <1>1, <2>1 DEF NewUnixFails, MethodFails
  <2>2. ASSUME NEW s \in Server, NEW c \in Client, TransferFails(s, c)
        PROVE  SocketInv'
    BY <1>1, <2>2 DEF TransferFails
  <2>3. QED
    BY <1>5, <1>6, <1>7, <1>8, <1>9, <1>10, <1>11, <1>13, <2>1, <2>2 DEF Serving
<1>14. QED
  BY <1>3, <1>4, <1>12, <1>13 DEF Next

(* The invariant of the sockets: every open descriptor is one object's or  *)
(* was lost by a constructor that threw. *)
THEOREM SocketInvariant == Spec => []SocketInv
<1>1. Init => SocketInv
  <2> SUFFICES ASSUME Init PROVE SocketInv
    OBVIOUS
  <2>1. SocketTypes
    BY BoundsAssumption DEF Init, SocketTypes, NoServer, NoClient, NoFd, Ptr
  <2>2. Owned /\ Unshared
    BY DEF Init, Owned, Unshared, NoServer, NoClient, NoFd
  <2>3. QED
    BY <2>1, <2>2 DEF SocketInv
<1>2. SocketInv /\ [Next]_vars => SocketInv'
  BY SocketStep
<1>3. QED
  BY <1>1, <1>2, PTL DEF Spec

(* DescriptorsOwned: a descriptor is open exactly while one object has it  *)
(* or a constructor that threw left it open, and no two have the same. *)
THEOREM AlwaysOwned == Spec => []DescriptorsOwned
<1>1. SocketInv => DescriptorsOwned
  <2> SUFFICES ASSUME SocketInv, NEW f \in 1..Fds
               PROVE  /\ f \in open <=> Holders(f) # {} \/ f \in lost.fds
                      /\ Cardinality(Holders(f)) + (IF f \in lost.fds THEN 1 ELSE 0) <= 1
    BY DEF DescriptorsOwned
  <2>0. SocketTypes /\ Owned /\ Unshared /\ f # NoFd
    BY BoundsAssumption DEF SocketInv, NoFd
  <2>1. f \in open <=> Holders(f) # {} \/ f \in lost.fds
    BY <2>0 DEF Owned, Holders
  <2>2. f \in lost.fds => Holders(f) = {}
    BY <2>0 DEF Owned, Holders
  <2>3. Holders(f) = {} \/ \E x : Holders(f) = {x}
    BY <2>0 DEF Unshared, Holders
  <2>4. Holders(f) = {} => Cardinality(Holders(f)) = 0
    BY FS_EmptySet
  <2>5. Holders(f) # {} => Cardinality(Holders(f)) = 1
    BY <2>3, FS_Singleton
  <2>6. QED
    BY <2>1, <2>2, <2>4, <2>5
<1>2. QED
  BY <1>1, SocketInvariant, PTL

-----------------------------------------------------------------------------
(* The exceptions.  One that is being built has its messages, with the     *)
(* types that were said; one that is handled has them all or is broken,    *)
(* because a destructor took a cell of it; what is mapped beside them are  *)
(* the addresses of clients, or cells that accept left behind. *)
Kept == {client[c].addr : c \in Client} \cup lost.cells

ExceptionTypes ==
    /\ part \in {"sockets", "pool"}
    /\ pc \in {"idle", "raise", "catch", "join"}
    /\ dead \in BOOLEAN
    /\ heap \in Heaps
    /\ built \in ExceptionRecords /\ thrown \in ExceptionRecords
    /\ members \subseteq Cell
    /\ left \in Seq(Type)

Says(h, s, types) ==
    Len(types) = Len(s) /\ \A i \in 1..Len(s) : h[s[i]].type = types[i]

Raising(s) ==
    /\ Whole(heap, built, s) /\ built.print = Null
    /\ said \in Seq(Type) /\ Says(heap, s, said)
    /\ OnlyMapped(heap, Kept, s)

Catching ==
    /\ thrown.print # Null => heap[thrown.print].kind = "text"
    /\ Remains(heap, thrown, Kept \cup {thrown.print})

Handled ==
    /\ pc # "raise" => built = NewException /\ said = <<>>
    /\ pc = "raise" => \E s : Raising(s)
    /\ pc = "catch" => Catching
    /\ pc \in {"idle", "join"} => Mapped(heap) \subseteq Kept

ExceptionInv == ExceptionTypes /\ (~dead => Handled)

LEMMA EmptyExceptionWhole ==
    ASSUME NEW h
    PROVE  Whole(h, NewException, <<>>) /\ NewException \in ExceptionRecords
  BY DEF Whole, Path, NewException, ExceptionRecords, Ptr, Type

(* A call that throws begins with no message. *)
LEMMA RaiseStep ==
    ASSUME ExceptionInv, At("idle"), NEW types \in Seq(Type), NEW buffers \in SUBSET Cell,
           Raise(types, buffers), UNCHANGED <<part, client, dead>>, lost'.cells = lost.cells
    PROVE  ExceptionInv'
<1>1. ExceptionTypes /\ Handled /\ pc = "idle"
  BY DEF ExceptionInv, At
<1>2. /\ pc' = "raise" /\ left' = types /\ members' = buffers
      /\ UNCHANGED <<heap, built, said, thrown, part, dead>> /\ Kept' = Kept
  BY DEF Raise, Kept
<1>3. ExceptionTypes'
  BY <1>1, <1>2 DEF ExceptionTypes
<1>4. built = NewException /\ said = <<>> /\ Mapped(heap) \subseteq Kept
  BY <1>1 DEF Handled
<1>5. Raising(<<>>)'
  <2>1. Whole(heap, NewException, <<>>)
    BY EmptyExceptionWhole
  <2>2. NewException.print = Null
    BY DEF NewException
  <2>3. OnlyMapped(heap, Kept, <<>>)
    BY <1>4 DEF OnlyMapped
  <2>4. Says(heap, <<>>, <<>>) /\ <<>> \in Seq(Type)
    BY DEF Says
  <2>5. QED
    BY <1>2, <1>4, <2>1, <2>2, <2>3, <2>4 DEF Raising
<1>6. Handled'
  BY <1>2, <1>5 DEF Handled
<1>7. QED
  BY <1>3, <1>6 DEF ExceptionInv

LEMMA AddMessageStep ==
    ASSUME ExceptionInv, AddMessage
    PROVE  ExceptionInv'
<1>1. ExceptionTypes /\ Handled /\ pc = "raise" /\ left # <<>>
  BY DEF ExceptionInv, AddMessage, At
<1>2. PICK s : Raising(s)
  BY <1>1 DEF Handled
<1> DEFINE e == [built EXCEPT !.type = Head(left)]
<1>3. PICK o \in Asign(heap, e) : heap' = o.heap /\ built' = o.exc /\ dead' = o.dead
  BY DEF AddMessage
<1>4. /\ said' = Append(said, Head(left)) /\ left' = Tail(left)
      /\ UNCHANGED <<part, pc, members, thrown>> /\ Kept' = Kept
  BY DEF AddMessage, sockets, Kept
<1>5. Head(left) \in Type /\ Tail(left) \in Seq(Type) /\ heap \in Heaps
  BY <1>1 DEF ExceptionTypes
<1>6. /\ e \in ExceptionRecords /\ e.first = built.first /\ e.last = built.last
      /\ e.print = built.print /\ e.type = Head(left)
  BY <1>1, <1>5 DEF ExceptionTypes, ExceptionRecords
<1> HIDE DEF e
<1>7. Whole(heap, e, s)
  <2>1. SameLinks(heap, heap)
    BY DEF SameLinks
  <2>2. QED
    BY <1>2, <1>6, <2>1, StaysWhole DEF Raising
<1>8. PICK n : Appended(o, heap, e, s, n)
  BY <1>5, <1>6, <1>7, AsignAppends
<1>9. /\ o.dead = FALSE /\ heap' \in Heaps /\ built' \in ExceptionRecords
      /\ built'.print = Null /\ n \in Cell /\ n \notin Mapped(heap)
      /\ Whole(heap', built', Append(s, n))
      /\ heap'[n].type = Head(left)
      /\ \A c \in Cell \ {n} : /\ heap'[c].kind = heap[c].kind
                               /\ IsMessage(heap, c) => heap'[c].type = heap[c].type
  BY <1>2, <1>3, <1>6, <1>8 DEF Appended, Raising
<1>10. ExceptionTypes'
  BY <1>1, <1>3, <1>4, <1>5, <1>9 DEF ExceptionTypes
<1> DEFINE t == Append(s, n)
<1>11. /\ s \in Seq(Cell) /\ Len(s) \in Nat /\ Len(t) = Len(s) + 1 /\ t[Len(s) + 1] = n
       /\ \A i \in 1..Len(s) : t[i] = s[i] /\ s[i] \in Cell /\ IsMessage(heap, s[i])
       /\ \A i \in 1..Len(t) : i = Len(s) + 1 \/ i \in 1..Len(s)
  <2>1. s \in Seq(Cell) /\ Len(s) \in Nat /\ \A i \in 1..Len(s) : IsMessage(heap, s[i])
    BY <1>7 DEF Whole, Path
  <2>2. QED
    BY <1>9, <2>1
<1> HIDE DEF t
<1>12. said' \in Seq(Type) /\ Says(heap', t, said')
  <2>1. said \in Seq(Type) /\ Len(said) = Len(s) /\ \A i \in 1..Len(s) : heap[s[i]].type = said[i]
    BY <1>2 DEF Raising, Says
  <2>2. /\ said' \in Seq(Type) /\ Len(said') = Len(s) + 1 /\ said'[Len(s) + 1] = Head(left)
        /\ \A i \in 1..Len(s) : said'[i] = said[i]
    BY <1>4, <1>5, <2>1
  <2>3. \A i \in 1..Len(s) : s[i] # n
    BY <1>9, <1>11 DEF Mapped, IsMessage
  <2>4. \A i \in 1..Len(s) : heap'[s[i]].type = heap[s[i]].type
    BY <1>9, <1>11, <2>3
  <2>5. \A i \in 1..Len(t) : heap'[t[i]].type = said'[i]
    BY <1>9, <1>11, <2>1, <2>2, <2>4
  <2>6. QED
    BY <1>11, <2>2, <2>5 DEF Says
<1>13. OnlyMapped(heap', Kept, t)
  <2>1. ASSUME NEW c \in Mapped(heap'), c # n
        PROVE  c \in Kept \/ \E i \in 1..Len(t) : c = t[i]
    <3>1. c \in Mapped(heap)
      BY <1>9, <2>1 DEF Mapped
    <3>2. c \in Kept \/ \E i \in 1..Len(s) : c = s[i]
      BY <1>2, <3>1 DEF Raising, OnlyMapped
    <3>3. \A i \in 1..Len(s) : i \in 1..Len(t)
      BY <1>11
    <3>4. QED
      BY <1>11, <3>2, <3>3
  <2>2. Len(s) + 1 \in 1..Len(t)
    BY <1>11
  <2>3. QED
    BY <1>11, <2>1, <2>2 DEF OnlyMapped
<1>14. Raising(t)'
  BY <1>4, <1>9, <1>12, <1>13 DEF Raising, t
<1>15. Handled'
  BY <1>1, <1>4, <1>14 DEF Handled
<1>16. QED
  BY <1>10, <1>15 DEF ExceptionInv

LEMMA ThrowStep ==
    ASSUME ExceptionInv, Throw
    PROVE  ExceptionInv'
<1>1. ExceptionTypes /\ Handled /\ pc = "raise"
  BY DEF ExceptionInv, Throw, At
<1>2. PICK s : Raising(s)
  BY <1>1 DEF Handled
<1>3. PICK o \in Copy(heap, built) :
          heap' = Left(o).heap /\ dead' = Left(o).dead /\ thrown' = o.exc
  BY DEF Throw
<1>4. /\ pc' = "catch" /\ built' = NewException /\ said' = <<>> /\ members' = {}
      /\ UNCHANGED <<part, left>> /\ Kept' = Kept
  BY DEF Throw, sockets, Kept
<1> DEFINE r == Destroy(o.heap, built)
<1>5. heap' = DeleteAll(r.heap, members) /\ dead' = (o.dead \/ r.dead)
  BY <1>3 DEF Left
<1>6. heap \in Heaps /\ built \in ExceptionRecords
  BY <1>1 DEF ExceptionTypes
<1>7. /\ Whole(heap, built, s) /\ built.print = Null
      /\ OnlyMapped(heap, Kept \cup {built.print}, s)
  BY <1>2 DEF Raising, OnlyMapped
<1>8. Shrunk(heap', r.heap)
  BY <1>5 DEF DeleteAll, Shrunk
<1>9. /\ o.exc \in ExceptionRecords /\ o.dead \in BOOLEAN /\ r \in Deletions
      /\ o.dead \/ r.dead \/ (o.exc.print = Null /\ Remains(heap', o.exc, Kept))
  BY <1>6, <1>7, <1>8, ThrowKeeps
<1> HIDE DEF r
<1>10. heap' \in Heaps
  BY <1>5, <1>9 DEF DeleteAll, Deletions, Heaps, Content
<1>11. ExceptionTypes'
  BY <1>1, <1>3, <1>4, <1>5, <1>9, <1>10, EmptyExceptionWhole DEF ExceptionTypes, Deletions
<1>12. ~dead' => Catching'
  BY <1>3, <1>4, <1>5, <1>9 DEF Catching, Remains, OnlyMapped
<1>13. ~dead' => Handled'
  BY <1>4, <1>12 DEF Handled
<1>14. QED
  BY <1>11, <1>13 DEF ExceptionInv

LEMMA RethrowStep ==
    ASSUME ExceptionInv, Rethrow
    PROVE  ExceptionInv'
<1>1. ExceptionTypes /\ Handled /\ pc = "catch" /\ Catching
  BY DEF ExceptionInv, Rethrow, At, Handled
<1> DEFINE r(o) == Destroy(o.heap, thrown)
<1>2. PICK o \in Copy(heap, thrown) :
          heap' = r(o).heap /\ thrown' = o.exc /\ dead' = (o.dead \/ r(o).dead)
  BY DEF Rethrow
<1>3. UNCHANGED <<part, pc, left, built, said, members>> /\ Kept' = Kept
  BY DEF Rethrow, sockets, Kept
<1>4. heap \in Heaps /\ thrown \in ExceptionRecords
  BY <1>1 DEF ExceptionTypes
<1>5. CASE Broken(heap, thrown)
  <2>1. /\ o.exc \in ExceptionRecords /\ o.dead \in BOOLEAN /\ r(o) \in Deletions
        /\ o.dead \/ r(o).dead \/ (o.exc.print = Null /\ Broken(r(o).heap, o.exc))
    BY <1>4, <1>5, CopyOfBroken
  <2> HIDE DEF r
  <2>2. ExceptionTypes'
    BY <1>1, <1>2, <1>3, <2>1 DEF ExceptionTypes, Deletions
  <2>3. ~dead' => Catching'
    BY <1>2, <2>1 DEF Catching, Remains
  <2>4. ~dead' => Handled'
    BY <1>1, <1>3, <2>3 DEF Handled
  <2>5. QED
    BY <2>2, <2>4 DEF ExceptionInv
<1>6. CASE \E s : Whole(heap, thrown, s) /\ OnlyMapped(heap, Kept \cup {thrown.print}, s)
  <2>1. PICK s : Whole(heap, thrown, s) /\ OnlyMapped(heap, Kept \cup {thrown.print}, s)
    BY <1>6
  <2>3. Shrunk(heap', r(o).heap)
    BY <1>2 DEF Shrunk
  <2>4. /\ o.exc \in ExceptionRecords /\ o.dead \in BOOLEAN /\ r(o) \in Deletions
        /\ o.dead \/ r(o).dead \/ (o.exc.print = Null /\ Remains(heap', o.exc, Kept))
    BY <1>4, <2>1, <2>3, ThrowKeeps
  <2> HIDE DEF r
  <2>5. ExceptionTypes'
    BY <1>1, <1>2, <1>3, <2>4 DEF ExceptionTypes, Deletions
  <2>6. ~dead' => Catching'
    BY <1>2, <1>3, <2>4 DEF Catching, Remains, OnlyMapped
  <2>7. ~dead' => Handled'
    BY <1>1, <1>3, <2>6 DEF Handled
  <2>8. QED
    BY <2>5, <2>7 DEF ExceptionInv
<1>7. QED
  BY <1>1, <1>5, <1>6 DEF Catching, Remains

LEMMA ReadWhatStep ==
    ASSUME ExceptionInv, ReadWhat
    PROVE  ExceptionInv'
<1>1. ExceptionTypes /\ Handled /\ pc = "catch" /\ Catching
  BY DEF ExceptionInv, ReadWhat, At, Handled
<1>2. PICK o \in What(heap, thrown) : heap' = o.heap /\ thrown' = o.exc /\ dead' = o.dead
  BY DEF ReadWhat
<1>3. UNCHANGED <<part, pc, left, built, said, members>> /\ Kept' = Kept
  BY DEF ReadWhat, sockets, Kept
<1>4. heap \in Heaps /\ thrown \in ExceptionRecords
  BY <1>1 DEF ExceptionTypes
<1>5. thrown.print # Null => ~IsMessage(heap, thrown.print)
  BY <1>1 DEF Catching, IsMessage
<1>6. o \in Outcomes /\ Printed(heap, thrown, o)
  BY <1>4, <1>5, WhatPrints
<1>7. ExceptionTypes'
  BY <1>1, <1>2, <1>3, <1>6 DEF ExceptionTypes, Outcomes
<1>8. Catching'
  <2>1. thrown'.print # Null => heap'[thrown'.print].kind = "text"
    BY <1>2, <1>6 DEF Printed
  <2>2. SameLinks(heap', heap) /\ thrown'.first = thrown.first /\ thrown'.last = thrown.last
    BY <1>2, <1>6 DEF Printed
  <2>3. CASE Broken(heap, thrown)
    <3>1. Broken(heap', thrown')
      BY <2>2, <2>3, StaysBroken
    <3>2. QED
      BY <2>1, <3>1 DEF Catching, Remains
  <2>4. CASE \E t : Whole(heap, thrown, t) /\ OnlyMapped(heap, Kept \cup {thrown.print}, t)
    <3>1. PICK t : Whole(heap, thrown, t) /\ OnlyMapped(heap, Kept \cup {thrown.print}, t)
      BY <2>4
    <3>2. Whole(heap', thrown', t)
      BY <2>2, <3>1, StaysWhole
    <3>3. OnlyMapped(heap', Kept \cup {thrown'.print}, t)
      BY <1>2, <1>6, <3>1 DEF Printed, OnlyMapped
    <3>4. QED
      BY <1>3, <2>1, <3>2, <3>3 DEF Catching, Remains
  <2>5. QED
    BY <1>1, <2>3, <2>4 DEF Catching, Remains
<1>9. Handled'
  BY <1>1, <1>3, <1>8 DEF Handled
<1>10. QED
  BY <1>7, <1>9 DEF ExceptionInv

LEMMA EndCatchStep ==
    ASSUME ExceptionInv, EndCatch
    PROVE  ExceptionInv'
<1>1. ExceptionTypes /\ Handled /\ pc = "catch" /\ Catching
  BY DEF ExceptionInv, EndCatch, At, Handled
<1> DEFINE r == Destroy(heap, thrown)
<1>2. /\ heap' = r.heap /\ dead' = r.dead /\ thrown' = NewException /\ pc' = "idle"
      /\ UNCHANGED <<part, left, built, said, members>> /\ Kept' = Kept
  BY DEF EndCatch, sockets, Kept
<1>3. heap \in Heaps /\ thrown \in ExceptionRecords
  BY <1>1 DEF ExceptionTypes
<1>4. Chain(heap, thrown) \in Seq(Cell)
  BY <1>1, WholeChain, BrokenChain DEF Catching, Remains
<1>5. r \in Deletions
  BY <1>3, <1>4, DestroyShrinks
<1>6. ExceptionTypes'
  BY <1>1, <1>2, <1>5, EmptyExceptionWhole DEF ExceptionTypes, Deletions
<1>7. ASSUME ~r.dead
      PROVE  Mapped(r.heap) \subseteq Kept
  <2>1. ~Broken(heap, thrown)
    BY <1>3, <1>7, DestroyBroken
  <2>2. PICK t : Whole(heap, thrown, t) /\ OnlyMapped(heap, Kept \cup {thrown.print}, t)
    BY <1>1, <2>1 DEF Catching, Remains
  <2>3. ASSUME NEW c \in Mapped(r.heap)
        PROVE  c \in Mapped(heap) /\ c # thrown.print /\ \A i \in 1..Len(t) : c # t[i]
    BY <1>3, <1>7, <2>2, <2>3, NothingStays
  <2>4. QED
    BY <2>2, <2>3 DEF OnlyMapped
<1>8. ~dead' => Handled'
  BY <1>1, <1>2, <1>7 DEF Handled
<1>9. QED
  BY <1>6, <1>8 DEF ExceptionInv

(* An idle program keeps its exceptions as they are; what it maps or       *)
(* unmaps is a client's address. *)
LEMMA IdleStep ==
    ASSUME ExceptionInv, At("idle"), heap' \in Heaps, Mapped(heap') \subseteq Kept',
           UNCHANGED <<part, pc, left, built, said, members, thrown, dead>>
    PROVE  ExceptionInv'
  BY DEF ExceptionInv, ExceptionTypes, Handled, At

(* A heap in which nothing is mapped or unmapped and no message leads      *)
(* elsewhere or becomes another's. *)
Alike(g, h) ==
    /\ g \in Heaps /\ SameLinks(g, h)
    /\ \A c \in Cell : /\ g[c].kind = h[c].kind
                       /\ IsMessage(h, c) => g[c].type = h[c].type

LEMMA ZeroWrittenAlike ==
    ASSUME NEW h \in Heaps, NEW g \in ZeroWritten(h)
    PROVE  Alike(g, h)
<1>1. CASE g = h
  BY <1>1 DEF Alike, SameLinks
<1>2. CASE g # h
  <2>1. PICK d \in Cell : h[d].kind = "message" /\ g = Emptied(h, d)
    BY <1>2 DEF ZeroWritten
  <2>2. h[d] \in [kind : {"message"}, type : Type, buf : Ptr, empty : BOOLEAN, next : Ptr]
    <3>1. h[d] \in Content
      BY DEF Heaps
    <3>2. QED
      BY <2>1, <3>1 DEF Content, Unmapped, Text, Address
  <2> DEFINE m == [h[d] EXCEPT !.empty = TRUE]
  <2>3. /\ m \in [kind : {"message"}, type : Type, buf : Ptr, empty : BOOLEAN, next : Ptr]
        /\ m.kind = "message" /\ m.type = h[d].type /\ m.next = h[d].next
    BY <2>2
  <2>4. g = [h EXCEPT ![d] = m]
    BY <2>1 DEF Emptied
  <2> HIDE DEF m
  <2>5. g[d] = m /\ \A c \in Cell : c # d => g[c] = h[c]
    BY <2>4 DEF Heaps
  <2>6. g \in Heaps
    BY <2>3, <2>4 DEF Heaps, Content
  <2>7. QED
    BY <2>1, <2>3, <2>5, <2>6 DEF Alike, SameLinks, IsMessage
<1>3. QED
  BY <1>1, <1>2

(* Steps that touch neither the heap nor the exceptions, or only the sizes *)
(* of their texts. *)
LEMMA OtherStep ==
    ASSUME ExceptionInv, Alike(heap', heap), Kept \subseteq Kept',
           UNCHANGED <<part, left, built, said, members, thrown>>,
           dead' \in BOOLEAN, dead' = dead \/ dead' = TRUE,
           pc' = pc \/ (pc \in {"idle", "join"} /\ pc' \in {"idle", "join"})
    PROVE  ExceptionInv'
<1>1. ExceptionTypes'
  BY DEF ExceptionInv, ExceptionTypes, Alike
<1>2. ASSUME Handled
      PROVE  Handled'
  <2>0. Mapped(heap') = Mapped(heap) /\ SameLinks(heap', heap)
    BY DEF Alike, Mapped
  <2>1. ASSUME NEW s, Raising(s)
        PROVE  Raising(s)'
    <3>1. Whole(heap', built', s)
      BY <2>0, <2>1, StaysWhole DEF Raising
    <3>2. \A i \in 1..Len(s) : s[i] \in Cell /\ IsMessage(heap, s[i])
      BY <2>1 DEF Raising, Whole, Path
    <3>3. Says(heap', s, said)
      BY <2>1, <3>2 DEF Raising, Says, Alike
    <3>4. OnlyMapped(heap', Kept', s)
      BY <2>0, <2>1 DEF Raising, OnlyMapped
    <3>5. QED
      BY <2>1, <3>1, <3>3, <3>4 DEF Raising
  <2>2. ASSUME Catching
        PROVE  Catching'
    <3>1. thrown.print # Null => heap'[thrown.print].kind = "text"
      <4>1. thrown.print \in Ptr
        BY DEF ExceptionInv, ExceptionTypes, ExceptionRecords
      <4>2. QED
        BY <2>2, <4>1 DEF Catching, Alike, Ptr
    <3>2. Broken(heap, thrown) => Broken(heap', thrown)
      BY <2>0, StaysBroken
    <3>3. ASSUME NEW t, Whole(heap, thrown, t), OnlyMapped(heap, Kept \cup {thrown.print}, t)
          PROVE  Whole(heap', thrown, t) /\ OnlyMapped(heap', Kept' \cup {thrown.print}, t)
      <4>1. Whole(heap', thrown, t)
        BY <2>0, <3>3, StaysWhole
      <4>2. OnlyMapped(heap', Kept' \cup {thrown.print}, t)
        BY <2>0, <3>3 DEF OnlyMapped
      <4>3. QED
        BY <4>1, <4>2
    <3>4. QED
      BY <2>2, <3>1, <3>2, <3>3 DEF Catching, Remains
  <2>3. pc \in {"idle", "join"} => Mapped(heap') \subseteq Kept'
    BY <1>2, <2>0 DEF Handled
  <2>4. QED
    BY <1>2, <2>1, <2>2, <2>3 DEF Handled
<1>3. QED
  BY <1>1, <1>2 DEF ExceptionInv

LEMMA Unaltered ==
    ASSUME ExceptionInv, heap' = heap
    PROVE  Alike(heap', heap)
  BY DEF ExceptionInv, ExceptionTypes, Alike, SameLinks

LEMMA ServingStep ==
    ASSUME ExceptionInv, SocketInv, Serving
    PROVE  ExceptionInv'
<1> USE NullAssumption
<1>0. SocketTypes /\ ExceptionTypes /\ heap \in Heaps /\ Null \notin Cell
  BY DEF SocketInv, ExceptionInv, ExceptionTypes, Cell
<1>1. At("idle") => Mapped(heap) \subseteq Kept
  BY DEF ExceptionInv, Handled, At
<1>2. ASSUME NEW s \in Server, NewUnix(s)
      PROVE  ExceptionInv'
  <2>1. PICK d \in Placements(heap) : heap' = AfterAssign([heap EXCEPT ![d] = Text], d)
    BY <1>2 DEF NewUnix
  <2>2. d \in Cell /\ heap[d].kind = "none"
    BY DEF Placements, Mapped
  <2>3. heap[d] = Unmapped
    BY <1>0, <2>2 DEF Heaps, Content, Unmapped, Text, Address
  <2>4. heap' = heap
    BY <1>0, <2>1, <2>2, <2>3 DEF AfterAssign, Delete, Heaps
  <2>5. Kept' = Kept /\ UNCHANGED <<part, pc, left, built, said, members, thrown, dead>>
    BY <1>2 DEF NewUnix, Kept
  <2>6. dead' \in BOOLEAN
    BY <1>0, <2>5 DEF ExceptionTypes
  <2>7. Alike(heap', heap)
    BY <1>0, <2>4 DEF Alike, SameLinks
  <2>8. QED
    BY <2>5, <2>6, <2>7, OtherStep
<1>3. ASSUME NEW s \in Server, NewUnixFails(s)
      PROVE  ExceptionInv'
  <2>1. PICK buffers \in {{}} \cup {{d} : d \in Placements(heap)} : Raise(<<"Critical">>, buffers)
    BY <1>3 DEF NewUnixFails
  <2>2. buffers \in SUBSET Cell
    BY PlacementsFree
  <2>3. <<"Critical">> \in Seq(Type)
    BY DEF Type
  <2>4. At("idle") /\ UNCHANGED <<part, client, dead>> /\ lost'.cells = lost.cells
    BY <1>3 DEF NewUnixFails, Using, sockets
  <2>5. QED
    BY <2>1, <2>2, <2>3, <2>4, RaiseStep
<1>4. ASSUME NEW s \in Server, BindFails(s)
      PROVE  ExceptionInv'
  <2>1. PICK f \in 1..Fds, d \in Placements(heap) :
            lost' = [lost EXCEPT !.fds = @ \cup {f}] /\ Raise(<<"Error">>, {d})
    BY <1>4 DEF BindFails
  <2>2. {d} \in SUBSET Cell
    BY PlacementsFree
  <2>3. <<"Error">> \in Seq(Type)
    BY DEF Type
  <2>4. lost'.cells = lost.cells
    BY <1>0, <2>1 DEF SocketTypes
  <2>5. At("idle") /\ UNCHANGED <<part, client, dead>>
    BY <1>4 DEF BindFails, Using
  <2>6. QED
    BY <2>1, <2>2, <2>3, <2>4, <2>5, RaiseStep
<1>5. ASSUME NEW s \in Server, MethodFails(s)
      PROVE  ExceptionInv'
  <2>1. PICK type \in {"Error", "Critical"} : Raise(<<type>>, {})
    BY <1>5 DEF MethodFails
  <2>2. <<type>> \in Seq(Type) /\ {} \in SUBSET Cell
    BY DEF Type
  <2>3. At("idle") /\ UNCHANGED <<part, client, dead>> /\ lost'.cells = lost.cells
    BY <1>5 DEF MethodFails, Using, sockets
  <2>4. QED
    BY <2>1, <2>2, <2>3, RaiseStep
<1>6. ASSUME NEW s \in Server, NEW c \in Client, TransferFails(s, c)
      PROVE  ExceptionInv'
  <2>1. <<"Error", "Error">> \in Seq(Type) /\ {} \in SUBSET Cell
    BY DEF Type
  <2>2. At("idle") /\ UNCHANGED <<part, client, dead>> /\ lost'.cells = lost.cells
        /\ Raise(<<"Error", "Error">>, {})
    BY <1>6 DEF TransferFails, Using, sockets
  <2>3. QED
    BY <2>1, <2>2, RaiseStep
<1>7. ASSUME NEW s \in Server, NewInet(s)
      PROVE  ExceptionInv'
  <2>1. Kept' = Kept /\ UNCHANGED <<heap, part, pc, left, built, said, members, thrown, dead>>
    BY <1>7 DEF NewInet, exceptions, Kept
  <2>2. dead' \in BOOLEAN
    BY <1>0, <2>1 DEF ExceptionTypes
  <2>3. Alike(heap', heap)
    BY <1>0, <2>1 DEF Alike, SameLinks
  <2>4. QED
    BY <2>1, <2>2, <2>3, OtherStep
<1>8. ASSUME NEW s \in Server, DeleteServer(s)
      PROVE  ExceptionInv'
  <2>1. /\ At("idle") /\ heap' = Delete(heap, server[s].path) /\ client' = client
        /\ lost' = [lost EXCEPT !.cells = @ \ {server[s].path}]
        /\ UNCHANGED <<part, pc, left, built, said, members, thrown, dead>>
    BY <1>8 DEF DeleteServer, Using
  <2>2. server[s].path \in Ptr /\ lost'.cells = lost.cells \ {server[s].path}
    BY <1>0, <2>1 DEF SocketTypes
  <2>3. /\ heap' \in Heaps /\ Shrunk(heap', heap)
        /\ server[s].path # Null => heap'[server[s].path] = Unmapped
    BY <1>0, <2>1, <2>2, DeleteShrinks
  <2>4. Mapped(heap') \subseteq Mapped(heap) \ {server[s].path}
    BY <1>0, <2>3 DEF Mapped, Shrunk, Unmapped
  <2>5. Mapped(heap') \subseteq Kept'
    BY <1>1, <2>1, <2>2, <2>4 DEF Kept
  <2>6. QED
    BY <2>1, <2>3, <2>5, IdleStep
<1>9. ASSUME NEW c \in Client, NewClient(c)
      PROVE  ExceptionInv'
  <2>1. PICK a \in Placements(heap) :
            /\ heap' = [heap EXCEPT ![a] = Address]
            /\ client' = [client EXCEPT ![c] = [fd |-> NoFd, addr |-> a, live |-> TRUE]]
    BY <1>9 DEF NewClient
  <2>2. /\ At("idle") /\ lost' = lost /\ ~client[c].live
        /\ UNCHANGED <<part, pc, left, built, said, members, thrown, dead>>
    BY <1>9 DEF NewClient, Using
  <2>3. a \in Cell /\ client[c].addr = Null
    BY <1>0, <2>2, PlacementsFree DEF SocketTypes, NoClient
  <2>4. heap' \in Heaps /\ Mapped(heap') \subseteq Mapped(heap) \cup {a}
    BY <1>0, <2>1, <2>3 DEF Heaps, Content, Mapped
  <2>5. /\ client'[c].addr = a
        /\ \A d \in Client : d # c => client'[d].addr = client[d].addr
    BY <1>0, <2>1 DEF SocketTypes
  <2>6. Mapped(heap) \subseteq Kept \ {Null}
    BY <1>0, <1>1, <2>2 DEF Mapped
  <2>7. Mapped(heap') \subseteq Kept'
    BY <2>2, <2>3, <2>4, <2>5, <2>6 DEF Kept
  <2>8. QED
    BY <2>2, <2>4, <2>7, IdleStep
<1>10. ASSUME NEW c \in Client, DeleteClient(c)
       PROVE  ExceptionInv'
  <2>1. /\ At("idle") /\ lost' = lost
        /\ heap' = (IF client[c].addr \in Cell THEN Delete(heap, client[c].addr) ELSE heap)
        /\ client' = [client EXCEPT ![c] = NoClient]
        /\ UNCHANGED <<part, pc, left, built, said, members, thrown, dead>>
    BY <1>10 DEF DeleteClient, Using
  <2>2. heap' \in Heaps /\ Mapped(heap') \subseteq Mapped(heap) \ {client[c].addr}
    <3>1. CASE client[c].addr \in Cell
      <4>1. client[c].addr \in Ptr /\ client[c].addr # Null
        BY <1>0, <3>1 DEF Ptr
      <4>2. heap' \in Heaps /\ Shrunk(heap', heap) /\ heap'[client[c].addr] = Unmapped
        BY <1>0, <2>1, <3>1, <4>1, DeleteShrinks
      <4>3. QED
        BY <4>2 DEF Mapped, Shrunk, Unmapped
    <3>2. CASE client[c].addr \notin Cell
      BY <1>0, <2>1, <3>2 DEF Mapped
    <3>3. QED
      BY <3>1, <3>2
  <2>3. \A d \in Client : d # c => client'[d].addr = client[d].addr
    BY <1>0, <2>1 DEF SocketTypes
  <2>4. Mapped(heap') \subseteq Kept'
    BY <1>1, <2>1, <2>2, <2>3 DEF Kept
  <2>5. QED
    BY <2>1, <2>2, <2>4, IdleStep
<1>11. ASSUME NEW s \in Server, NEW c \in Client, Accept(s, c)
       PROVE  ExceptionInv'
  <2>1. PICK f \in 1..Fds : client' = [client EXCEPT ![c].fd = f, ![c].addr = Overwritten]
    BY <1>11 DEF Accept
  <2>2. /\ At("idle") /\ lost' = [lost EXCEPT !.cells = @ \cup ({client[c].addr} \cap Mapped(heap))]
        /\ UNCHANGED <<heap, part, pc, left, built, said, members, thrown, dead>>
    BY <1>11 DEF Accept, exceptions, Using
  <2>3. lost'.cells = lost.cells \cup ({client[c].addr} \cap Mapped(heap))
    BY <1>0, <2>2 DEF SocketTypes
  <2>4. \A d \in Client : d # c => client'[d].addr = client[d].addr
    BY <1>0, <2>1 DEF SocketTypes
  <2>5. Mapped(heap') \subseteq Kept'
    BY <1>1, <2>2, <2>3, <2>4 DEF Kept
  <2>6. QED
    BY <1>0, <2>2, <2>5, IdleStep
<1>12. QED
  BY <1>2, <1>3, <1>4, <1>5, <1>6, <1>7, <1>8, <1>9, <1>10, <1>11 DEF Serving

LEMMA PoolingStep ==
    ASSUME ExceptionInv, Pooling
    PROVE  ExceptionInv'
<1>0. dead \in BOOLEAN
  BY DEF ExceptionInv, ExceptionTypes
<1>1. CASE StartFails
  <2>1. CASE Raise(<<"Error">>, {}) /\ UNCHANGED dead
    <3>1. <<"Error">> \in Seq(Type) /\ {} \in SUBSET Cell
      BY DEF Type
    <3>2. At("idle") /\ UNCHANGED <<part, client, dead>> /\ lost'.cells = lost.cells
      BY <1>1, <2>1 DEF StartFails, Using, sockets
    <3>3. QED
      BY <2>1, <3>1, <3>2, RaiseStep
  <2>2. CASE dead' = TRUE /\ UNCHANGED exceptions
    <3>1. UNCHANGED <<heap, part, pc, left, built, said, members, thrown>> /\ Kept' = Kept
      BY <1>1, <2>2 DEF StartFails, exceptions, sockets, Kept
    <3>2. QED
      BY <2>2, <3>1, OtherStep, Unaltered
  <2>3. QED
    BY <1>1, <2>1, <2>2 DEF StartFails
<1>2. CASE ~StartFails
  <2>1. \/ (\E j \in Job : StartJob(j) \/ DelJob(j) \/ JobEnds(j) \/ LateEnd(j))
        \/ Join \/ JoinStep \/ JoinAgain \/ JoinReturn \/ PoolEnds
    BY <1>2 DEF Pooling, Joining
  <2> USE DEF StartJob, DelJob, JobEnds, LateEnd, Join, JoinStep, JoinAgain, JoinReturn,
          PoolEnds, exceptions, sockets
  <2>2. /\ UNCHANGED <<part, left, built, said, members, thrown>> /\ Kept' = Kept
        /\ dead' = dead \/ dead' \in BOOLEAN
    BY <2>1 DEF Kept
  <2>3. ~dead
    BY <2>1 DEF Using, At
  <2>4. dead' \in BOOLEAN /\ (dead' = dead \/ dead' = TRUE)
    BY <1>0, <2>2, <2>3
  <2>5. pc' = pc \/ (pc \in {"idle", "join"} /\ pc' \in {"idle", "join"})
    BY <2>1 DEF Using, At
  <2>6. heap' = heap \/ heap' \in ZeroWritten(heap)
    BY <2>1
  <2>7. Alike(heap', heap)
    <3>1. heap \in Heaps
      BY DEF ExceptionInv, ExceptionTypes
    <3>2. QED
      BY <2>6, <3>1, Unaltered, ZeroWrittenAlike
  <2>8. QED
    BY <2>2, <2>4, <2>5, <2>7, OtherStep
<1>3. QED
  BY <1>1, <1>2

LEMMA ExceptionStep ==
    ASSUME ExceptionInv, SocketInv, [Next]_vars
    PROVE  ExceptionInv'
<1>1. CASE AppThrows
  <2>1. PICK types \in Thrown : Raise(types, {})
    BY <1>1 DEF AppThrows
  <2>3. types \in Seq(Type)
    BY BoundsAssumption
  <2>4. At("idle") /\ UNCHANGED <<part, client, dead>> /\ lost'.cells = lost.cells
    BY <1>1 DEF AppThrows, Using, sockets
  <2>5. {} \in SUBSET Cell
    OBVIOUS
  <2>6. QED
    BY <2>1, <2>3, <2>4, <2>5, RaiseStep
<1>2. CASE UNCHANGED vars
  <2>1. /\ Kept' = Kept /\ UNCHANGED <<heap, pc, part, left, built, said, members, thrown, dead>>
    BY <1>2 DEF vars, exceptions, sockets, Kept
  <2>2. dead' \in BOOLEAN
    BY <2>1 DEF ExceptionInv, ExceptionTypes
  <2>3. QED
    BY <2>1, <2>2, OtherStep, Unaltered
<1>3. QED
  BY <1>1, <1>2, AddMessageStep, ThrowStep, ReadWhatStep, RethrowStep, EndCatchStep,
     ServingStep, PoolingStep DEF Next, Handling

(* The invariant of the exceptions: what is built is whole, what is        *)
(* handled is whole or broken, and nothing else is mapped but addresses.   *)
THEOREM ExceptionInvariant == Spec => []ExceptionInv
<1>1. Init => ExceptionInv
  <2> SUFFICES ASSUME Init PROVE ExceptionInv
    OBVIOUS
  <2>1. heap \in Heaps /\ Mapped(heap) = {}
    BY DEF Init, EmptyHeap, Heaps, Content, Mapped, Unmapped
  <2>2. ExceptionTypes
    <3>1. /\ part \in {"sockets", "pool"} /\ pc = "idle" /\ dead = FALSE /\ left = <<>>
          /\ members = {} /\ built = NewException /\ thrown = NewException
      BY DEF Init
    <3>2. NewException \in ExceptionRecords
      BY EmptyExceptionWhole
    <3>3. <<>> \in Seq(Type)
      OBVIOUS
    <3>4. QED
      BY <2>1, <3>1, <3>2, <3>3 DEF ExceptionTypes
  <2>3. Handled
    BY <2>1 DEF Init, Handled
  <2>4. QED
    BY <2>2, <2>3 DEF ExceptionInv
<1>2. ExceptionInv /\ SocketInv /\ [Next]_vars => ExceptionInv'
  BY ExceptionStep
<1>3. QED
  BY <1>1, <1>2, SocketInvariant, PTL DEF Spec

(* MessagesInOrder: an exception that is being built has its messages in   *)
(* the order and with the types in which they were added. *)
THEOREM AlwaysInOrder == Spec => []MessagesInOrder
<1>1. ExceptionInv => MessagesInOrder
  <2> SUFFICES ASSUME ExceptionInv, pc = "raise", ~dead
               PROVE  /\ Intact(heap, built)
                      /\ [i \in DOMAIN Chain(heap, built) |-> heap[Chain(heap, built)[i]].type] = said
                      /\ built.last = IF Chain(heap, built) = <<>> THEN Null
                                      ELSE Chain(heap, built)[Len(Chain(heap, built))]
    BY DEF MessagesInOrder
  <2>1. PICK s : Raising(s)
    BY DEF ExceptionInv, Handled
  <2>2. Chain(heap, built) = s /\ Intact(heap, built) /\ s \in Seq(Cell)
    BY <2>1, WholeChain DEF Raising
  <2>3. /\ said \in Seq(Type) /\ Len(said) = Len(s)
        /\ \A i \in 1..Len(s) : heap[s[i]].type = said[i]
    BY <2>1 DEF Raising, Says
  <2>4. [i \in DOMAIN s |-> heap[s[i]].type] = said
    BY <2>2, <2>3
  <2>5. built.last = IF s = <<>> THEN Null ELSE s[Len(s)]
    BY <2>1, <2>2 DEF Raising, Whole
  <2>6. QED
    BY <2>2, <2>4, <2>5
<1>2. QED
  BY <1>1, ExceptionInvariant, PTL

(* NothingLeft: when the handler is done nothing of the exception or of    *)
(* its copies is mapped. *)
THEOREM AlwaysNothingLeft == Spec => []NothingLeft
<1>1. ExceptionInv => NothingLeft
  BY DEF ExceptionInv, Handled, NothingLeft, Kept
<1>2. QED
  BY <1>1, ExceptionInvariant, PTL

(* Every variable keeps its type, in a program that died as well. *)
THEOREM TypeCorrect == Spec => []TypeOK
<1>1. ExceptionInv /\ SocketInv /\ PoolInv => TypeOK
  <2> SUFFICES ASSUME ExceptionTypes, SocketTypes, Owned, Linkage PROVE TypeOK
    BY DEF ExceptionInv, SocketInv, PoolInv
  <2>1. \A c \in Cell : heap[c].kind \in {"none", "text", "sockaddr", "message"}
    BY DEF ExceptionTypes, Heaps, Content, Unmapped, Text, Address
  <2>2. Exception(built) /\ Exception(thrown)
    BY DEF ExceptionTypes, ExceptionRecords, Exception
  <2>3. ASSUME NEW s \in Server
        PROVE  /\ server[s].path \in Ptr
               /\ server[s].fd \in (IF server[s].live THEN 1..Fds ELSE {NoFd})
    BY BoundsAssumption DEF SocketTypes, NoFd
  <2>4. \A c \in Client : client[c].fd \in 0..Fds
    BY DEF SocketTypes
  <2>5. QED
    BY <2>1, <2>2, <2>3, <2>4 DEF TypeOK, ExceptionTypes, SocketTypes, Owned, Linkage
<1>2. QED
  BY <1>1, ExceptionInvariant, SocketInvariant, PoolInvariant, PTL
=============================================================================
