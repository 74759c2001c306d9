-------------------------- MODULE ConQueueProofs --------------------------
(* Proofs about ConQueue, for any set of blocks and any number of bytes.   *)
EXTENDS ConQueue, Induction, TLAPS

LEMMA AppendFacts ==
    ASSUME NEW c \in Seq(Blocks), NEW b \in Blocks
    PROVE  /\ Append(c, b) \in Seq(Blocks)
           /\ Len(c) \in Nat
           /\ Len(Append(c, b)) = Len(c) + 1
           /\ \A k \in 1 .. Len(c) : c[k] \in Blocks /\ Append(c, b)[k] = c[k]
           /\ Append(c, b)[Len(c) + 1] = b
  OBVIOUS

LEMMA TailFacts ==
    ASSUME NEW c \in Seq(Blocks), Len(c) > 0
    PROVE  /\ Tail(c) \in Seq(Blocks)
           /\ Len(c) \in Nat
           /\ Len(Tail(c)) = Len(c) - 1
           /\ \A k \in 1 .. Len(c) : c[k] \in Blocks
           /\ \A k \in 1 .. Len(c) - 1 : Tail(c)[k] = c[k + 1]
  OBVIOUS

(* The facts about the links that every step needs. *)
LEMMA LinkFacts ==
    ASSUME TypeOK, WellLinked
    PROVE  /\ Count \in Nat
           /\ \A k \in 1 .. Count : chain[k] \in Blocks /\ chain[k] \in alive
           /\ first = Null <=> Count = 0
           /\ Count > 0 => first = chain[1] /\ last = chain[Count]
  BY NullAssumption DEF TypeOK, WellLinked, Count

(* The facts about the bytes of the queue's blocks. *)
LEMMA BlockFacts ==
    ASSUME TypeOK, Contiguous, ResizeProgress, NEW k \in 1 .. Count
    PROVE  /\ chain[k] \in Blocks
           /\ dsize[chain[k]] \in Nat /\ dsize[chain[k]] > 0
           /\ Len(data[chain[k]]) \in Nat /\ dsize[chain[k]] <= Len(data[chain[k]])
           /\ \A j \in 1 .. Len(data[chain[k]]) : data[chain[k]][j] \in Int
           /\ End(chain[k]) \in Int /\ Start(chain[k]) \in Int
           /\ End(chain[k]) = Start(chain[k]) + dsize[chain[k]]
<1>1. chain[k] \in Blocks
  BY DEF TypeOK, Count
<1>2. /\ dsize[chain[k]] \in Nat /\ dsize[chain[k]] > 0
      /\ dsize[chain[k]] <= Len(data[chain[k]])
  BY <1>1 DEF TypeOK, Contiguous, ResizeProgress
<1>3. data[chain[k]] \in Seq(Bytes)
  BY <1>1 DEF TypeOK
<1>4. /\ Len(data[chain[k]]) \in Nat
      /\ \A j \in 1 .. Len(data[chain[k]]) : data[chain[k]][j] \in Int
  BY <1>3, MaxBytesAssumption DEF Bytes
<1>5. End(chain[k]) \in Int
  BY <1>2, <1>4 DEF End
<1>6. QED
  BY <1>1, <1>2, <1>4, <1>5 DEF Start

-----------------------------------------------------------------------------
(* Adding a block extends a well-formed queue at its end. *)
LEMMA AddStep ==
    ASSUME Inv, NEW n \in Bytes, NEW b \in Blocks, Add(b, n)
    PROVE  Inv'
<1> USE DEF Inv
<1>1. /\ pc = "idle" /\ pc' = "idle"
      /\ n \in Nat /\ n > 0 /\ written + n <= MaxBytes
      /\ b \notin alive /\ alive' = alive \cup {b}
      /\ data' = [data EXCEPT ![b] = [i \in 1 .. n |-> written + i]]
      /\ dsize' = [dsize EXCEPT ![b] = n]
      /\ last' = b
      /\ qsize' = qsize + n
      /\ written' = written + n
      /\ chain' = Append(chain, b)
      /\ size' = size /\ idx' = idx /\ size = 0
  BY DEF Add, NewBlock, Bytes, ResizeProgress
<1>2. /\ Count \in Nat
      /\ \A k \in 1 .. Count : chain[k] \in Blocks /\ chain[k] \in alive
      /\ first = Null <=> Count = 0
      /\ Count > 0 => first = chain[1] /\ last = chain[Count]
  BY LinkFacts
<1>3. /\ chain' \in Seq(Blocks)
      /\ Count' = Count + 1
      /\ \A k \in 1 .. Count : chain'[k] = chain[k] /\ chain[k] # b
      /\ chain'[Count + 1] = b
  <2>1. chain \in Seq(Blocks)
    BY DEF TypeOK
  <2>2. /\ chain' \in Seq(Blocks)
        /\ Count' = Count + 1
        /\ \A k \in 1 .. Count : chain'[k] = chain[k]
        /\ chain'[Count + 1] = b
    BY <1>1, <2>1, AppendFacts DEF Count
  <2>3. QED
    BY <1>1, <1>2, <2>2
<1>4. /\ data'[b] = [i \in 1 .. n |-> written + i]
      /\ dsize'[b] = n
      /\ \A c \in Blocks \ {b} : data'[c] = data[c] /\ dsize'[c] = dsize[c]
  BY <1>1 DEF TypeOK
<1>5. data'[b] \in Seq(Bytes) /\ Len(data'[b]) = n
  BY <1>1, <1>4, MaxBytesAssumption DEF TypeOK, Bytes
<1>6. /\ first' = IF Count = 0 THEN b ELSE first
      /\ next'[b] = Null
      /\ Count > 0 => next'[chain[Count]] = b
      /\ \A k \in 1 .. Count - 1 : next'[chain[k]] = next[chain[k]]
      /\ next' \in [Blocks -> Blocks \cup {Null}]
  <2>1. \A k \in 1 .. Count - 1 : chain[k] # chain[Count]
    BY <1>2 DEF WellLinked
  <2>2. CASE AddFirst(b)
    <3>1. first = Null /\ first' = b /\ next' = [next EXCEPT ![b] = Null]
      BY <2>2 DEF AddFirst
    <3>2. QED
      BY <1>2, <3>1 DEF TypeOK
  <2>3. CASE AddBehind(b)
    <3>1. /\ first # Null /\ first' = first /\ last \in alive
          /\ next' = [next EXCEPT ![last] = b, ![b] = Null]
      BY <2>3 DEF AddBehind
    <3>2. last = chain[Count] /\ last # b /\ last \in Blocks
      BY <1>1, <1>2, <3>1 DEF TypeOK
    <3>3. next'[last] = b /\ next'[b] = Null
      BY <3>1, <3>2 DEF TypeOK
    <3>4. \A c \in Blocks : c # last /\ c # b => next'[c] = next[c]
      BY <3>1, <3>2 DEF TypeOK
    <3>5. \A k \in 1 .. Count - 1 : chain[k] \in Blocks /\ chain[k] # b /\ chain[k] # last
      BY <1>2, <1>3, <2>1, <3>2
    <3>6. next' \in [Blocks -> Blocks \cup {Null}]
      BY <3>1 DEF TypeOK
    <3>7. QED
      BY <1>2, <3>1, <3>2, <3>3, <3>4, <3>5, <3>6
  <2>4. QED
    BY <2>2, <2>3 DEF Add
<1>7. TypeOK'
  <2>1. data' \in [Blocks -> Seq(Bytes)]
    <3>1. [i \in 1 .. n |-> written + i] \in Seq(Bytes)
      BY <1>4, <1>5
    <3>2. QED
      BY <1>1, <3>1 DEF TypeOK
  <2>2. dsize' \in [Blocks -> Nat] /\ alive' \subseteq Blocks
    BY <1>1 DEF TypeOK
  <2>3. qsize' \in Nat /\ size' \in Nat /\ idx' \in Nat /\ written' \in 0 .. MaxBytes
    BY <1>1, MaxBytesAssumption DEF TypeOK
  <2>4. first' \in Blocks \cup {Null} /\ last' \in Blocks \cup {Null}
    BY <1>1, <1>6 DEF TypeOK
  <2>5. QED
    BY <1>1, <1>3, <1>6, <2>1, <2>2, <2>3, <2>4 DEF TypeOK
<1>8. WellLinked'
  <2>1. (/\ first = IF Count = 0 THEN Null ELSE chain[1]
         /\ last = IF Count = 0 THEN Null ELSE chain[Count])'
    BY <1>1, <1>2, <1>3, <1>6
  <2>2. \A k \in 1 .. Count' :
            next'[chain'[k]] = IF k = Count' THEN Null ELSE chain'[k + 1]
    BY <1>2, <1>3, <1>6 DEF WellLinked
  <2>3. \A j, k \in 1 .. Count' : chain'[j] = chain'[k] => j = k
    BY <1>2, <1>3 DEF WellLinked
  <2>4. \A k \in 1 .. Count' : chain'[k] \in alive'
    BY <1>1, <1>2, <1>3
  <2>5. QED
    BY <2>1, <2>2, <2>3, <2>4 DEF WellLinked
<1>9. NoLeak'
  <2> SUFFICES ASSUME NEW c \in alive'
               PROVE  \E k \in 1 .. Count' : chain'[k] = c
    BY DEF NoLeak
  <2>1. CASE c = b
    BY <1>2, <1>3, <2>1
  <2>2. CASE c \in alive
    <3>1. PICK k \in 1 .. Count : chain[k] = c
      BY <2>2 DEF NoLeak
    <3>2. k \in 1 .. Count' /\ chain'[k] = c
      BY <1>2, <1>3, <3>1
    <3>3. QED
      BY <3>2
  <2>3. QED
    BY <1>1, <2>1, <2>2
<1>10. ASSUME NEW k \in 1 .. Count
       PROVE  /\ chain'[k] = chain[k]
              /\ data'[chain[k]] = data[chain[k]] /\ dsize'[chain[k]] = dsize[chain[k]]
              /\ data'[chain'[k]] = data[chain[k]] /\ dsize'[chain'[k]] = dsize[chain[k]]
              /\ End(chain[k])' = End(chain[k]) /\ Start(chain[k])' = Start(chain[k])
  <2>1. chain'[k] = chain[k] /\ chain[k] \in Blocks \ {b}
    BY <1>2, <1>3
  <2>2. QED
    BY <1>4, <2>1 DEF Start, End
<1>11. /\ chain'[Count'] = b /\ End(chain[Count])' = written + n
       /\ Start(chain[Count])' = written /\ dsize'[b] = n /\ n \in 1 .. n
       /\ \A j \in 1 .. n : data'[b][j] = written + j
  <2>1. chain'[Count'] = b
    BY <1>2, <1>3
  <2>2. n \in 1 .. n /\ \A j \in 1 .. n : data'[b][j] = written + j
    BY <1>1, <1>4
  <2>3. written \in Nat /\ written + n - n = written
    BY <1>1 DEF TypeOK
  <2>4. QED
    BY <1>4, <2>1, <2>2, <2>3 DEF Start, End
<1>12. InPlace'
  <2> SUFFICES ASSUME NEW k \in 1 .. Count', NEW j \in 1 .. dsize'[chain'[k]]
               PROVE  data'[chain'[k]][j] = Start(chain[k])' + j + 0
    <3>1. \A c, j : ~Shifted(c, j)'
      BY <1>1 DEF Shifted
    <3>2. QED
      BY <3>1 DEF InPlace
  <2>1. CASE k = Count'
    <3>1. chain'[k] = b /\ j \in 1 .. n /\ Start(chain[k])' = written
      BY <1>11, <2>1
    <3>2. written + j = written + j + 0
      BY <3>1 DEF TypeOK
    <3>3. QED
      BY <1>11, <3>1, <3>2
  <2>2. CASE k \in 1 .. Count
    <3>1. j \in 1 .. dsize[chain[k]]
      BY <1>10, <2>2
    <3>2. data[chain[k]][j] = Start(chain[k]) + j + 0
      BY <1>1, <2>2, <3>1 DEF InPlace, Shifted
    <3>3. QED
      BY <1>10, <2>2, <3>2
  <2>3. QED
    BY <1>2, <1>3, <2>1, <2>2
<1>13. Contiguous'
  <2>1. \A k \in 1 .. Count' : dsize'[chain'[k]] > 0
    <3> SUFFICES ASSUME NEW k \in 1 .. Count' PROVE dsize'[chain'[k]] > 0
      OBVIOUS
    <3>1. CASE k = Count'
      BY <1>1, <1>11, <3>1
    <3>2. CASE k \in 1 .. Count
      BY <1>10, <3>2 DEF Contiguous
    <3>3. QED
      BY <1>2, <1>3, <3>1, <3>2
  <2>2. ASSUME NEW k \in 1 .. Count' - 1
        PROVE  Start(chain[k + 1])' = End(chain[k])'
    <3>1. k \in 1 .. Count /\ End(chain[k])' = End(chain[k])
      BY <1>2, <1>3, <1>10
    <3>2. CASE k = Count
      BY <1>2, <1>3, <1>11, <3>1, <3>2 DEF Contiguous
    <3>3. CASE k + 1 \in 1 .. Count
      BY <1>2, <1>10, <3>1, <3>3 DEF Contiguous
    <3>4. QED
      BY <1>2, <3>1, <3>2, <3>3
  <2>3. End(chain[Count])' = written'
    BY <1>1, <1>11
  <2>4. (qsize + size)' = written' - Start(chain[1])'
    <3>1. CASE Count = 0
      BY <1>1, <1>3, <1>11, <3>1 DEF Contiguous, TypeOK
    <3>2. CASE Count > 0
      <4>1. Start(chain[1])' = Start(chain[1]) /\ Start(chain[1]) \in Int
        BY <1>2, <1>10, <3>2, BlockFacts
      <4>2. qsize + size = written - Start(chain[1])
        BY <3>2 DEF Contiguous
      <4>3. QED
        BY <1>1, <4>1, <4>2 DEF TypeOK
    <3>3. QED
      BY <1>2, <3>1, <3>2
  <2>5. QED
    BY <1>2, <1>3, <2>1, <2>2, <2>3, <2>4 DEF Contiguous
<1>14. ResizeProgress'
  <2> SUFFICES ASSUME NEW k \in 1 .. Count'
               PROVE  dsize'[chain'[k]] <= Len(data'[chain'[k]])
    BY <1>1 DEF ResizeProgress
  <2>1. CASE k = Count'
    <3>1. chain'[k] = b /\ dsize'[b] = n /\ Len(data'[b]) = n
      BY <1>5, <1>11, <2>1
    <3>2. QED
      BY <1>1, <3>1
  <2>2. CASE k \in 1 .. Count
    BY <1>10, <2>2 DEF ResizeProgress
  <2>3. QED
    BY <1>2, <1>3, <2>1, <2>2
<1>15. QED
  BY <1>7, <1>8, <1>9, <1>12, <1>13, <1>14

-----------------------------------------------------------------------------
(* Entering _resizeQueue takes the bytes off the counter only. *)
LEMMA ResizeStep ==
    ASSUME Inv, NEW n \in {0} \cup Bytes, Resize(n)
    PROVE  Inv'
<1> USE DEF Inv
<1>1. /\ pc = "idle" /\ pc' = "drop"
      /\ first # Null /\ n <= qsize /\ n \in Nat
      /\ qsize' = qsize - n /\ size' = n /\ size = 0
      /\ UNCHANGED <<first, last, next, alive, chain, data, dsize, idx, written>>
  BY DEF Resize, ResizeProgress, links, Bytes
<1>2. Count \in Nat /\ Count > 0 /\ Count' = Count
  BY <1>1, LinkFacts DEF Count
<1>3. TypeOK'
  BY <1>1 DEF TypeOK
<1>4. WellLinked' /\ NoLeak'
  BY <1>1 DEF WellLinked, NoLeak, Count
<1>5. InPlace'
  BY <1>1 DEF InPlace, Shifted, Start, End, Count
<1>6. Contiguous'
  <2>1. (qsize + size)' = qsize + size
    BY <1>1 DEF TypeOK
  <2>2. QED
    BY <1>1, <2>1 DEF Contiguous, Start, End, Count
<1>7. ResizeProgress'
  BY <1>1, <1>2 DEF ResizeProgress, Count
<1>8. QED
  BY <1>3, <1>4, <1>5, <1>6, <1>7

(* Leaving the loop at a block that stays changes no byte and no link. *)
LEMMA KeepStep ==
    ASSUME Inv, KeepBlock
    PROVE  Inv'
<1> USE DEF Inv
<1>1. /\ pc = "drop" /\ dsize[first] > size
      /\ pc' = IF size = 0 THEN "idle" ELSE "shift"
      /\ idx' = 0
      /\ UNCHANGED <<first, last, next, alive, chain, data, dsize, qsize, size, written>>
  BY DEF KeepBlock, AfterDrop, links
<1>2. Count \in Nat /\ Count > 0 /\ first \in Blocks
  BY <1>1, LinkFacts DEF ResizeProgress
<1>3. TypeOK'
  BY <1>1 DEF TypeOK
<1>4. WellLinked' /\ NoLeak'
  BY <1>1 DEF WellLinked, NoLeak, Count
<1>5. InPlace'
  <2> SUFFICES ASSUME NEW k \in 1 .. Count, NEW j \in 1 .. dsize[chain[k]]
               PROVE  data[chain[k]][j] = Start(chain[k]) + j + 0
    BY <1>1 DEF InPlace, Shifted, Start, End, Count
  <2>1. QED
    BY <1>1 DEF InPlace, Shifted
<1>6. Contiguous'
  BY <1>1 DEF Contiguous, Start, End, Count
<1>7. ResizeProgress'
  BY <1>1, <1>2 DEF ResizeProgress, Count, TypeOK
<1>8. QED
  BY <1>3, <1>4, <1>5, <1>6, <1>7

(* Moving one byte keeps every byte at its place in the stream. *)
LEMMA ShiftByteStep ==
    ASSUME Inv, ShiftByte
    PROVE  Inv'
<1> USE DEF Inv
<1> DEFINE d == dsize[first]
           old == data[first]
           new == data'[first]
<1>1. /\ pc = "shift" /\ idx < d - size /\ idx' = idx + 1
      /\ data' = [data EXCEPT ![first][idx + 1] = data[first][size + idx + 1]]
      /\ UNCHANGED <<first, last, next, alive, chain, dsize, qsize, pc, size, written>>
  BY DEF ShiftByte, ShiftedByte, links
<1>2. /\ Count \in Nat /\ Count > 0 /\ 1 \in 1 .. Count /\ Count' = Count
      /\ first = chain[1] /\ first \in Blocks
      /\ \A k \in 1 .. Count : chain[k] \in Blocks /\ (chain[k] = first => k = 1)
  BY <1>1, LinkFacts DEF ResizeProgress, WellLinked, Count
<1>3. /\ d \in Nat /\ size \in Nat /\ idx \in Nat /\ size > 0 /\ size < d
      /\ old \in Seq(Bytes) /\ Len(old) \in Nat /\ d <= Len(old)
      /\ \A j \in 1 .. Len(old) : old[j] \in Int
  <2>1. d \in Nat /\ size \in Nat /\ idx \in Nat /\ old \in Seq(Bytes)
    BY <1>2 DEF TypeOK
  <2>2. size > 0 /\ size < d
    BY <1>1 DEF ResizeProgress
  <2>3. /\ Len(old) \in Nat /\ d <= Len(old)
        /\ \A j \in 1 .. Len(old) : old[j] \in Int
    BY <1>2, BlockFacts
  <2>4. QED
    BY <2>1, <2>2, <2>3
<1>4. /\ idx + 1 \in 1 .. d - 1 /\ size + idx + 1 \in 1 .. d
      /\ idx + 1 \in 1 .. Len(old) /\ size + idx + 1 \in 1 .. Len(old)
  <2> DEFINE len == Len(old)
  <2>1. /\ d \in Nat /\ size \in Nat /\ idx \in Nat /\ len \in Nat
        /\ size > 0 /\ d <= len /\ idx < d - size
    BY <1>1, <1>3
  <2> HIDE DEF d, len
  <2>2. /\ idx + 1 \in 1 .. d - 1 /\ size + idx + 1 \in 1 .. d
        /\ idx + 1 \in 1 .. len /\ size + idx + 1 \in 1 .. len
    BY <2>1
  <2>3. QED
    BY <2>2 DEF d, len
<1>5. /\ new = [old EXCEPT ![idx + 1] = old[size + idx + 1]]
      /\ \A c \in Blocks \ {first} : data'[c] = data[c]
      /\ data' \in [Blocks -> Seq(Bytes)] /\ Len(new) = Len(old)
  <2>1. new = [old EXCEPT ![idx + 1] = old[size + idx + 1]]
    BY <1>1, <1>2 DEF TypeOK
  <2>2. new \in Seq(Bytes) /\ Len(new) = Len(old)
    BY <1>3, <1>4, <2>1
  <2>3. QED
    BY <1>1, <1>2, <2>1, <2>2 DEF TypeOK
<1>6. /\ new[idx + 1] = old[size + idx + 1]
      /\ \A j \in 1 .. Len(old) : j # idx + 1 => new[j] = old[j]
  BY <1>3, <1>4, <1>5
<1>7. \A k \in 1 .. Count : End(chain[k])' = End(chain[k]) /\ Start(chain[k])' = Start(chain[k])
  <2> SUFFICES ASSUME NEW k \in 1 .. Count
               PROVE  data'[chain[k]][dsize[chain[k]]] = data[chain[k]][dsize[chain[k]]]
    BY <1>1 DEF Start, End
  <2>1. CASE k = 1
    <3>1. d \in 1 .. Len(old) /\ d # idx + 1
      BY <1>3, <1>4
    <3>2. QED
      BY <1>2, <1>6, <2>1, <3>1
  <2>2. CASE k # 1
    BY <1>2, <1>5, <2>2
  <2>3. QED
    BY <2>1, <2>2
<1>8. TypeOK'
  BY <1>1, <1>3, <1>5 DEF TypeOK
<1>9. WellLinked' /\ NoLeak'
  BY <1>1 DEF WellLinked, NoLeak, Count
<1>10. InPlace'
  <2> SUFFICES ASSUME NEW k \in 1 .. Count, NEW j \in 1 .. dsize[chain[k]]
               PROVE  data'[chain[k]][j] =
                        Start(chain[k]) + j + (IF chain[k] = first /\ j <= idx + 1 THEN size ELSE 0)
    BY <1>1, <1>2, <1>7 DEF InPlace, Shifted
  <2>1. \A i \in 1 .. dsize[chain[k]] : data[chain[k]][i] =
            Start(chain[k]) + i + (IF chain[k] = first /\ i <= idx THEN size ELSE 0)
    BY <1>1 DEF InPlace, Shifted
  <2>2. CASE chain[k] # first
    BY <1>2, <1>5, <2>1, <2>2
  <2>3. CASE chain[k] = first
    <3>1. Start(first) \in Int
      BY <1>2, BlockFacts
    <3>2. CASE j = idx + 1
      <4>1. old[size + idx + 1] = Start(first) + (size + idx + 1) + 0
        BY <1>3, <1>4, <2>1, <2>3
      <4>2. Start(first) + (size + idx + 1) + 0 = Start(first) + (idx + 1) + size
        BY <1>3, <3>1
      <4>3. QED
        BY <1>6, <2>3, <3>2, <4>1, <4>2
    <3>3. CASE j # idx + 1
      <4>1. new[j] = old[j] /\ (j <= idx <=> j <= idx + 1)
        <5>1. j \in 1 .. Len(old) /\ j \in Nat
          BY <1>3, <2>3
        <5>2. new[j] = old[j]
          BY <1>6, <3>3, <5>1
        <5>3. QED
          BY <1>3, <3>3, <5>1, <5>2
      <4>2. old[j] = Start(first) + j + (IF j <= idx THEN size ELSE 0)
        BY <2>1, <2>3
      <4>3. QED
        BY <2>3, <4>1, <4>2
    <3>4. QED
      BY <3>2, <3>3
  <2>4. QED
    BY <2>2, <2>3
<1>11. Contiguous'
  BY <1>1, <1>2, <1>7 DEF Contiguous
<1>12. ResizeProgress'
  <2>1. \A k \in 1 .. Count : Len(data'[chain[k]]) = Len(data[chain[k]])
    BY <1>2, <1>5
  <2>2. idx' <= d - size
    BY <1>1, <1>3
  <2>3. QED
    BY <1>1, <1>2, <2>1, <2>2 DEF ResizeProgress
<1>13. QED
  BY <1>8, <1>9, <1>10, <1>11, <1>12

(* Shortening the first block by the bytes that were shifted out. *)
LEMMA ShiftDoneStep ==
    ASSUME Inv, ShiftDone
    PROVE  Inv'
<1> USE DEF Inv
<1> DEFINE d == dsize[first]
           old == data[first]
<1>1. /\ pc = "shift" /\ idx >= d - size /\ pc' = "idle" /\ size' = 0 /\ idx' = 0
      /\ dsize' = [dsize EXCEPT ![first] = @ - size]
      /\ UNCHANGED <<first, last, next, alive, chain, data, qsize, written>>
  BY DEF ShiftDone, SizeAfterShift, links
<1>2. /\ Count \in Nat /\ Count > 0 /\ 1 \in 1 .. Count /\ Count' = Count
      /\ first = chain[1] /\ first \in Blocks
      /\ \A k \in 1 .. Count : chain[k] \in Blocks /\ (chain[k] = first => k = 1)
  BY <1>1, LinkFacts DEF ResizeProgress, WellLinked, Count
<1>3. /\ d \in Nat /\ size \in Nat /\ idx \in Nat /\ size > 0 /\ size < d
      /\ idx = d - size /\ d - size \in 1 .. d /\ Len(old) \in Nat /\ d <= Len(old)
      /\ Start(first) \in Int /\ End(first) = Start(first) + d
  <2>1. /\ d \in Nat /\ size \in Nat /\ idx \in Nat /\ size > 0 /\ size < d
        /\ idx <= d - size
    BY <1>1, <1>2 DEF ResizeProgress, TypeOK
  <2>2. /\ Len(old) \in Nat /\ d <= Len(old)
        /\ Start(first) \in Int /\ End(first) = Start(first) + d
    BY <1>2, BlockFacts
  <2>3. idx = d - size /\ d - size \in 1 .. d
    BY <1>1, <2>1
  <2>4. QED
    BY <2>1, <2>2, <2>3
<1>4. \A j \in 1 .. d - size : old[j] = Start(first) + j + size
  <2> SUFFICES ASSUME NEW j \in 1 .. d - size
               PROVE  old[j] = Start(first) + j + size
    OBVIOUS
  <2>1. j \in 1 .. d /\ j <= idx
    BY <1>3
  <2>2. \A i \in 1 .. dsize[chain[1]] :
            data[chain[1]][i] = Start(chain[1]) + i + (IF Shifted(chain[1], i) THEN size ELSE 0)
    BY <1>2 DEF InPlace
  <2>3. Shifted(first, j)
    BY <1>1, <2>1 DEF Shifted
  <2>4. QED
    BY <1>2, <2>1, <2>2, <2>3
<1>5. dsize'[first] = d - size /\ \A c \in Blocks \ {first} : dsize'[c] = dsize[c]
  BY <1>1, <1>2 DEF TypeOK
<1>6. End(first)' = End(first) /\ Start(first)' = Start(first) + size
  <2>1. End(first)' = old[d - size]
    BY <1>1, <1>5 DEF End
  <2>2. d - size \in 1 .. d - size /\ Start(first) + (d - size) + size = Start(first) + d
    BY <1>3
  <2>3. End(first)' = End(first)
    BY <1>3, <1>4, <2>1, <2>2
  <2>4. Start(first)' = End(first)' - (d - size)
    BY <1>1, <1>5 DEF Start, End
  <2>5. QED
    BY <1>3, <2>3, <2>4
<1>7. ASSUME NEW k \in 1 .. Count, k # 1
      PROVE  /\ End(chain[k])' = End(chain[k]) /\ Start(chain[k])' = Start(chain[k])
             /\ dsize'[chain[k]] = dsize[chain[k]]
  <2>1. chain[k] \in Blocks \ {first}
    BY <1>2, <1>7
  <2>2. QED
    BY <1>1, <1>5, <2>1 DEF Start, End
<1>8. TypeOK'
  <2>1. dsize' \in [Blocks -> Nat]
    BY <1>1, <1>3 DEF TypeOK
  <2>2. QED
    BY <1>1, <2>1 DEF TypeOK
<1>9. WellLinked' /\ NoLeak'
  BY <1>1 DEF WellLinked, NoLeak, Count
<1>10. InPlace'
  <2> SUFFICES ASSUME NEW k \in 1 .. Count, NEW j \in 1 .. dsize'[chain[k]]
               PROVE  data[chain[k]][j] = Start(chain[k])' + j + 0
    BY <1>1, <1>2 DEF InPlace, Shifted
  <2>1. CASE k = 1
    <3>1. j \in 1 .. d - size /\ Start(first) + j + size = Start(first) + size + j + 0
      BY <1>2, <1>3, <1>5, <2>1
    <3>2. QED
      BY <1>1, <1>2, <1>4, <1>6, <2>1, <3>1
  <2>2. CASE k # 1
    <3>1. data[chain[k]][j] = Start(chain[k]) + j + 0
      BY <1>2, <1>7, <2>2 DEF InPlace, Shifted
    <3>2. QED
      BY <1>7, <2>2, <3>1
  <2>3. QED
    BY <2>1, <2>2
<1>11. Contiguous'
  <2>1. \A k \in 1 .. Count : dsize'[chain[k]] > 0
    <3> SUFFICES ASSUME NEW k \in 1 .. Count PROVE dsize'[chain[k]] > 0
      OBVIOUS
    <3>1. CASE k = 1
      BY <1>2, <1>3, <1>5, <3>1
    <3>2. CASE k # 1
      BY <1>7, <3>2 DEF Contiguous
    <3>3. QED
      BY <3>1, <3>2
  <2>2. \A k \in 1 .. Count : End(chain[k])' = End(chain[k])
    BY <1>1, <1>2, <1>6, <1>7
  <2>3. \A k \in 1 .. Count - 1 : Start(chain[k + 1])' = End(chain[k])'
    <3> SUFFICES ASSUME NEW k \in 1 .. Count - 1
                 PROVE  Start(chain[k + 1])' = End(chain[k])'
      OBVIOUS
    <3>1. k \in 1 .. Count /\ k + 1 \in 1 .. Count /\ k + 1 # 1
      BY <1>2
    <3>2. QED
      BY <1>7, <2>2, <3>1 DEF Contiguous
  <2>4. End(chain[Count])' = written'
    BY <1>1, <1>2, <2>2 DEF Contiguous
  <2>5. (qsize + size)' = written' - Start(chain[1])'
    <3>1. qsize + size = written - Start(first) /\ qsize \in Nat /\ written \in Nat
      BY <1>2 DEF Contiguous, TypeOK
    <3>2. qsize = written - (Start(first) + size)
      BY <1>3, <3>1
    <3>3. (qsize + size)' = qsize
      BY <1>1, <3>1
    <3>4. QED
      BY <1>1, <1>2, <1>6, <3>2, <3>3
  <2>6. QED
    BY <1>1, <1>2, <2>1, <2>3, <2>4, <2>5 DEF Contiguous
<1>12. ResizeProgress'
  <2> SUFFICES ASSUME NEW k \in 1 .. Count
               PROVE  dsize'[chain[k]] <= Len(data[chain[k]])
    BY <1>1, <1>2 DEF ResizeProgress
  <2>1. CASE k = 1
    BY <1>2, <1>3, <1>5, <2>1
  <2>2. CASE k # 1
    BY <1>7, <2>2 DEF ResizeProgress
  <2>3. QED
    BY <2>1, <2>2
<1>13. QED
  BY <1>8, <1>9, <1>10, <1>11, <1>12

-----------------------------------------------------------------------------
(* Removing the first block: if it is the last one as well, it held all    *)
(* the bytes that were left to remove, so that the loop never goes on to   *)
(* shift a block that is not there. *)
LEMMA DropStep ==
    ASSUME Inv, DropBlock
    PROVE  Inv'
<1> USE DEF Inv
<1> DEFINE d == dsize[first]
<1>1. /\ pc = "drop" /\ d <= size /\ size' = size - d
      /\ first' = next[first]
      /\ last' = IF first = last THEN Null ELSE last
      /\ alive' = alive \ {first}
      /\ next' = [b \in Blocks |-> IF b \in {first} THEN Null ELSE next[b]]
      /\ data' = [b \in Blocks |-> IF b \in {first} THEN <<>> ELSE data[b]]
      /\ dsize' = [b \in Blocks |-> IF b \in {first} THEN 0 ELSE dsize[b]]
      /\ chain' = Tail(chain)
      /\ qsize' = qsize /\ written' = written
      /\ \/ first' = Null /\ pc' = (IF size' = 0 THEN "idle" ELSE "shift") /\ idx' = 0
         \/ first' # Null /\ pc' = pc /\ idx' = idx
  BY DEF DropBlock, LastAfterDrop, Delete, AfterDrop
<1>2. /\ Count \in Nat /\ Count > 0 /\ 1 \in 1 .. Count
      /\ first = chain[1] /\ first \in Blocks /\ last = chain[Count]
      /\ \A k \in 1 .. Count : chain[k] \in Blocks /\ (chain[k] = first => k = 1)
  BY <1>1, LinkFacts DEF ResizeProgress, WellLinked, Count
<1>3. /\ chain' \in Seq(Blocks) /\ Count' = Count - 1
      /\ \A k \in 1 .. Count' : chain'[k] = chain[k + 1] /\ k + 1 \in 1 .. Count /\ k + 1 # 1
  BY <1>1, <1>2, TailFacts DEF TypeOK, Count
<1>4. \A c \in Blocks \ {first} :
          next'[c] = next[c] /\ data'[c] = data[c] /\ dsize'[c] = dsize[c]
  BY <1>1
<1>5. ASSUME NEW k \in 1 .. Count'
      PROVE  /\ chain'[k] = chain[k + 1] /\ chain'[k] \in Blocks \ {first}
             /\ next'[chain'[k]] = next[chain[k + 1]]
             /\ data'[chain'[k]] = data[chain[k + 1]]
             /\ dsize'[chain'[k]] = dsize[chain[k + 1]]
             /\ End(chain[k])' = End(chain[k + 1])
             /\ Start(chain[k])' = Start(chain[k + 1])
  <2>1. chain'[k] = chain[k + 1] /\ chain[k + 1] \in Blocks \ {first}
    BY <1>2, <1>3
  <2>2. QED
    BY <1>4, <2>1 DEF Start, End
<1>6. first' = IF Count' = 0 THEN Null ELSE chain'[1]
  <2>1. next[chain[1]] = IF 1 = Count THEN Null ELSE chain[2]
    BY <1>2 DEF WellLinked
  <2>2. Count' # 0 => 1 # Count /\ chain'[1] = chain[2]
    <3>1. Count' # 0 => 1 \in 1 .. Count'
      BY <1>2, <1>3
    <3>2. QED
      BY <1>2, <1>3, <3>1
  <2>3. Count' = 0 <=> 1 = Count
    BY <1>2, <1>3
  <2>4. QED
    BY <1>1, <1>2, <2>1, <2>2, <2>3
<1>7. /\ d \in Nat /\ d > 0 /\ size \in Nat /\ qsize \in Nat /\ size' \in Nat
      /\ Start(first) \in Int /\ End(first) = Start(first) + d
      /\ qsize + size = written - Start(first) /\ written \in Nat
  <2>1. /\ d \in Nat /\ d > 0
        /\ Start(first) \in Int /\ End(first) = Start(first) + d
    BY <1>2, BlockFacts
  <2>2. size \in Nat /\ qsize \in Nat /\ written \in Nat
    BY DEF TypeOK
  <2>3. qsize + size = written - Start(first)
    BY <1>2 DEF Contiguous
  <2>4. size' \in Nat
    BY <1>1, <2>1, <2>2
  <2>5. QED
    BY <2>1, <2>2, <2>3, <2>4
<1>8. qsize + size' = written - End(first)
  <2>1. size' = size - d
    BY <1>1
  <2> HIDE DEF d
  <2>2. QED
    BY <1>7, <2>1
<1>9. qsize' + size' = IF Count' = 0 THEN 0 ELSE written' - Start(chain[1])'
  <2>1. CASE Count' = 0
    <3>1. End(first) = written
      BY <1>2, <1>3, <2>1 DEF Contiguous
    <3>2. QED
      BY <1>1, <1>7, <1>8, <2>1, <3>1
  <2>2. CASE Count' # 0
    <3>1. 1 \in 1 .. Count' /\ 1 \in 1 .. Count - 1
      BY <1>2, <1>3, <2>2
    <3>2. Start(chain[1])' = Start(chain[2]) /\ Start(chain[2]) = End(first)
      BY <1>2, <1>5, <3>1 DEF Contiguous
    <3>3. QED
      BY <1>1, <1>8, <2>2, <3>2
  <2>3. QED
    BY <2>1, <2>2
<1>10. IF Count' = 0 THEN pc' = "idle" /\ size' = 0 /\ idx' = 0
                     ELSE pc' = "drop" /\ idx' = idx
  <2>1. CASE Count' = 0
    <3>1. size' = 0
      BY <1>1, <1>7, <1>9, <2>1
    <3>2. QED
      BY <1>1, <1>6, <2>1, <3>1
  <2>2. CASE Count' # 0
    <3>1. 1 \in 1 .. Count'
      BY <1>2, <1>3, <2>2
    <3>2. first' # Null
      BY <1>5, <1>6, <2>2, <3>1, NullAssumption
    <3>3. QED
      BY <1>1, <2>2, <3>2
  <2>3. QED
    BY <2>1, <2>2
<1>11. TypeOK'
  <2>1. data' \in [Blocks -> Seq(Bytes)] /\ dsize' \in [Blocks -> Nat]
    <3>1. <<>> \in Seq(Bytes)
      OBVIOUS
    <3>2. QED
      BY <1>1, <3>1 DEF TypeOK
  <2>2. next' \in [Blocks -> Blocks \cup {Null}] /\ alive' \subseteq Blocks
    BY <1>1 DEF TypeOK
  <2>3. first' \in Blocks \cup {Null} /\ last' \in Blocks \cup {Null}
    BY <1>1, <1>2 DEF TypeOK
  <2>4. idx' \in Nat /\ pc' \in {"idle", "drop", "shift"}
    BY <1>10 DEF TypeOK
  <2>5. QED
    BY <1>1, <1>3, <1>7, <2>1, <2>2, <2>3, <2>4 DEF TypeOK
<1>12. WellLinked'
  <2>1. last' = IF Count' = 0 THEN Null ELSE chain'[Count']
    <3>1. CASE Count' = 0
      BY <1>1, <1>2, <1>3, <3>1
    <3>2. CASE Count' # 0
      <4>1. Count' \in 1 .. Count' /\ Count' + 1 = Count /\ Count # 1 /\ Count \in 1 .. Count
        BY <1>2, <1>3, <3>2
      <4>2. chain'[Count'] = chain[Count] /\ chain[Count] # first
        BY <1>2, <1>3, <4>1
      <4>3. QED
        BY <1>1, <1>2, <3>2, <4>2
    <3>3. QED
      BY <3>1, <3>2
  <2>2. ASSUME NEW k \in 1 .. Count'
        PROVE  next'[chain'[k]] = IF k = Count' THEN Null ELSE chain'[k + 1]
    <3>1. k + 1 \in 1 .. Count /\ (k = Count' <=> k + 1 = Count)
      BY <1>2, <1>3
    <3>2. next[chain[k + 1]] = IF k + 1 = Count THEN Null ELSE chain[k + 1 + 1]
      BY <3>1 DEF WellLinked
    <3>3. k # Count' => k + 1 \in 1 .. Count'
      BY <1>2, <1>3
    <3>4. k # Count' => chain'[k + 1] = chain[k + 1 + 1]
      BY <1>3, <3>3
    <3>5. QED
      BY <1>5, <3>1, <3>2, <3>4
  <2>3. ASSUME NEW j \in 1 .. Count', NEW k \in 1 .. Count', chain'[j] = chain'[k]
        PROVE  j = k
    <3>1. chain[j + 1] = chain[k + 1] /\ j + 1 \in 1 .. Count /\ k + 1 \in 1 .. Count
      BY <1>3, <2>3
    <3>2. j + 1 = k + 1
      BY <3>1 DEF WellLinked
    <3>3. QED
      BY <1>2, <1>3, <3>2
  <2>4. ASSUME NEW k \in 1 .. Count'
        PROVE  chain'[k] \in alive'
    <3>1. k + 1 \in 1 .. Count
      BY <1>3
    <3>2. chain[k + 1] \in alive
      BY <3>1 DEF WellLinked
    <3>3. QED
      BY <1>1, <1>5, <3>2
  <2>5. QED
    BY <1>6, <2>1, <2>2, <2>3, <2>4 DEF WellLinked
<1>13. NoLeak'
  <2> SUFFICES ASSUME NEW c \in alive'
               PROVE  \E k \in 1 .. Count' : chain'[k] = c
    BY DEF NoLeak
  <2>1. PICK k \in 1 .. Count : chain[k] = c
    BY <1>1 DEF NoLeak
  <2>2. k # 1
    BY <1>1, <1>2, <2>1
  <2>3. k - 1 \in 1 .. Count' /\ (k - 1) + 1 = k
    BY <1>2, <1>3, <2>2
  <2>4. chain'[k - 1] = c
    BY <1>3, <2>1, <2>3
  <2>5. QED
    BY <2>3, <2>4
<1>14. InPlace'
  <2> SUFFICES ASSUME NEW k \in 1 .. Count', NEW j \in 1 .. dsize'[chain'[k]]
               PROVE  data'[chain'[k]][j] = Start(chain[k])' + j + 0
    BY <1>10 DEF InPlace, Shifted
  <2>1. k + 1 \in 1 .. Count /\ j \in 1 .. dsize[chain[k + 1]]
    BY <1>3, <1>5
  <2>2. data[chain[k + 1]][j] = Start(chain[k + 1]) + j + 0
    BY <1>1, <2>1 DEF InPlace, Shifted
  <2>3. QED
    BY <1>5, <2>2
<1>15. Contiguous'
  <2>1. \A k \in 1 .. Count' : dsize'[chain'[k]] > 0
    BY <1>3, <1>5 DEF Contiguous
  <2>2. ASSUME NEW k \in 1 .. Count' - 1
        PROVE  Start(chain[k + 1])' = End(chain[k])'
    <3>1. k \in 1 .. Count' /\ k + 1 \in 1 .. Count' /\ k + 1 \in 1 .. Count - 1
      BY <1>2, <1>3
    <3>2. Start(chain[k + 1])' = Start(chain[k + 1 + 1]) /\ End(chain[k])' = End(chain[k + 1])
      BY <1>5, <3>1
    <3>3. QED
      BY <3>1, <3>2 DEF Contiguous
  <2>3. Count' > 0 => End(chain[Count])' = written'
    <3> SUFFICES ASSUME Count' > 0 PROVE End(chain[Count])' = written'
      OBVIOUS
    <3>1. Count' \in 1 .. Count' /\ Count' + 1 = Count
      BY <1>2, <1>3
    <3>2. End(chain[Count])' = End(chain[Count])
      BY <1>5, <3>1
    <3>3. QED
      BY <1>1, <1>2, <3>2 DEF Contiguous
  <2>4. QED
    BY <1>9, <2>1, <2>2, <2>3 DEF Contiguous
<1>16. ResizeProgress'
  <2>1. \A k \in 1 .. Count' : dsize'[chain'[k]] <= Len(data'[chain'[k]])
    BY <1>3, <1>5 DEF ResizeProgress
  <2>2. QED
    BY <1>2, <1>3, <1>10, <2>1 DEF ResizeProgress
<1>17. QED
  BY <1>11, <1>12, <1>13, <1>14, <1>15, <1>16

-----------------------------------------------------------------------------
(* Deleting the first block deletes every block of the queue: the set of   *)
(* blocks that the chained destructors reach is closed under next, so the  *)
(* least block of the chain outside it has its predecessor inside it.      *)
LEMMA LinkedIsWholeChain ==
    ASSUME TypeOK, WellLinked, Count > 0
    PROVE  \A k \in 1 .. Count : chain[k] \in Linked(first)
<1>1. /\ Count \in Nat /\ first = chain[1]
      /\ \A k \in 1 .. Count : chain[k] \in Blocks
  BY LinkFacts
<1> SUFFICES ASSUME NEW S \in SUBSET Blocks, first \in S,
                    \A c \in S : next[c] # Null => next[c] \in S
             PROVE  \A k \in 1 .. Count : chain[k] \in S
  BY <1>1 DEF Linked
<1> DEFINE Missed == {k \in 1 .. Count : chain[k] \notin S}
<1>2. SUFFICES ASSUME Missed # {} PROVE FALSE
  OBVIOUS
<1>3. Missed \in SUBSET Nat
  BY <1>1
<1>4. PICK k \in Missed : \A j \in Missed : k <= j
  BY <1>2, <1>3, LeastNumber
<1>5. k \in 1 .. Count /\ k # 1 /\ chain[k] \notin S
  BY <1>1, <1>4
<1>6. k - 1 \in 1 .. Count /\ k - 1 # Count /\ ~(k <= k - 1) /\ (k - 1) + 1 = k
  BY <1>1, <1>5
<1>7. chain[k - 1] \in S
  BY <1>4, <1>6
<1>8. next[chain[k - 1]] = chain[k]
  BY <1>6 DEF WellLinked
<1>9. chain[k] # Null
  BY <1>1, <1>5, NullAssumption
<1>10. QED
  BY <1>5, <1>7, <1>8, <1>9

LEMMA CleanStep ==
    ASSUME Inv, Clean
    PROVE  Inv'
<1> USE DEF Inv
<1> DEFINE B == IF first = Null THEN {} ELSE Linked(first)
<1>1. /\ pc = "idle" /\ first' = Null /\ last' = Null /\ qsize' = 0 /\ chain' = <<>>
      /\ alive' = alive \ B
      /\ next' = [b \in Blocks |-> IF b \in B THEN Null ELSE next[b]]
      /\ data' = [b \in Blocks |-> IF b \in B THEN <<>> ELSE data[b]]
      /\ dsize' = [b \in Blocks |-> IF b \in B THEN 0 ELSE dsize[b]]
      /\ pc' = pc /\ size' = size /\ idx' = idx /\ written' = written /\ size = 0
  BY DEF Clean, Delete, ResizeProgress
<1>2. Count' = 0
  BY <1>1 DEF Count
<1>3. TypeOK'
  <2>1. <<>> \in Seq(Bytes) /\ <<>> \in Seq(Blocks)
    OBVIOUS
  <2> HIDE DEF B
  <2>2. QED
    BY <1>1, <2>1 DEF TypeOK
<1>4. WellLinked'
  BY <1>1, <1>2 DEF WellLinked
<1>5. alive' = {}
  <2> SUFFICES ASSUME NEW c \in alive PROVE c \in B
    BY <1>1
  <2>1. PICK k \in 1 .. Count : chain[k] = c
    BY DEF NoLeak
  <2>2. Count > 0 /\ first # Null
    BY <2>1, LinkFacts
  <2>3. QED
    BY <2>1, <2>2, LinkedIsWholeChain
<1>6. NoLeak' /\ InPlace' /\ Contiguous' /\ ResizeProgress'
  BY <1>1, <1>2, <1>5 DEF NoLeak, InPlace, Contiguous, ResizeProgress
<1>7. QED
  BY <1>3, <1>4, <1>6

-----------------------------------------------------------------------------
(* The invariant of a connection queue, for every number and size of       *)
(* blocks: its types, links, ownership, byte positions and byte counter.   *)
THEOREM QueueInvariant == Spec => []Inv
<1>1. Init => Inv
  <2> SUFFICES ASSUME Init PROVE Inv
    OBVIOUS
  <2>1. Count = 0
    BY DEF Init, Count
  <2>2. TypeOK
    BY MaxBytesAssumption DEF Init, TypeOK
  <2>3. WellLinked /\ NoLeak /\ InPlace /\ Contiguous /\ ResizeProgress
    BY <2>1 DEF Init, WellLinked, NoLeak, InPlace, Contiguous, ResizeProgress
  <2>4. QED
    BY <2>2, <2>3 DEF Inv
<1>2. Inv /\ [Next]_vars => Inv'
  <2>1. ASSUME Inv, UNCHANGED vars PROVE Inv'
    BY <2>1 DEF vars, links, Inv, TypeOK, WellLinked, NoLeak, InPlace, Contiguous,
                ResizeProgress, Count, Start, End, Shifted
  <2>2. QED
    BY <2>1, AddStep, ResizeStep, DropStep, KeepStep, ShiftByteStep, ShiftDoneStep,
       CleanStep DEF Next
<1>3. QED
  BY <1>1, <1>2, PTL DEF Spec

(* The links of the list and its two end pointers always agree. *)
COROLLARY AlwaysWellLinked == Spec => []WellLinked
<1>1. Inv => WellLinked
  BY DEF Inv
<1>2. QED
  BY <1>1, QueueInvariant, PTL

(* Nothing allocated for the queue is ever lost from it. *)
COROLLARY NeverLeaks == Spec => []NoLeak
<1>1. Inv => NoLeak
  BY DEF Inv
<1>2. QED
  BY <1>1, QueueInvariant, PTL

(* No pointer that the queue's functions follow is null or dangling; in    *)
(* particular _resizeQueue finds a block to shift whenever it has bytes    *)
(* left to remove.                                                         *)
COROLLARY OnlyLiveBlocksFollowed == Spec => []DerefsLive
<1>1. Inv => DerefsLive
  <2> SUFFICES ASSUME Inv PROVE DerefsLive
    OBVIOUS
  <2>1. /\ Count \in Nat
        /\ \A k \in 1 .. Count : chain[k] \in alive
        /\ first = Null <=> Count = 0
        /\ Count > 0 => first = chain[1] /\ last = chain[Count]
    BY LinkFacts DEF Inv
  <2>2. Count > 0 => first \in alive /\ last \in alive
    BY <2>1
  <2>3. QED
    BY <2>1, <2>2 DEF Inv, ResizeProgress, DerefsLive
<1>2. QED
  BY <1>1, QueueInvariant, PTL

(* The queue keeps its types: in particular the unsigned byte counter      *)
(* never wraps and no place behind a block's bytes is moved.               *)
COROLLARY TypeCorrect == Spec => []TypeOK
<1>1. Inv => TypeOK
  BY DEF Inv
<1>2. QED
  BY <1>1, QueueInvariant, PTL

(* Every byte is at its place in the stream, while a shift moves it too.   *)
COROLLARY AlwaysInPlace == Spec => []InPlace
<1>1. Inv => InPlace
  BY DEF Inv
<1>2. QED
  BY <1>1, QueueInvariant, PTL

(* The bytes of the queue are the consecutive bytes of the stream that end *)
(* with the last one added, and the counter says how many they are.        *)
COROLLARY AlwaysContiguous == Spec => []Contiguous
<1>1. Inv => Contiguous
  BY DEF Inv
<1>2. QED
  BY <1>1, QueueInvariant, PTL

-----------------------------------------------------------------------------
(* The refinement.  Bytes a + 1 .. b of the stream, as a sequence.         *)
Span(a, b) == [j \in 1 .. b - a |-> a + j]

LEMMA SpanFacts ==
    ASSUME NEW a \in Int, NEW b \in Int, a <= b
    PROVE  /\ Span(a, b) \in Seq(Int)
           /\ Len(Span(a, b)) = b - a
           /\ \A j \in 1 .. b - a : Span(a, b)[j] = a + j
<1>1. b - a \in Nat
  OBVIOUS
<1>2. QED
  BY <1>1 DEF Span

LEMMA SequencesEqual ==
    ASSUME NEW S, NEW s \in Seq(S), NEW t \in Seq(S), Len(s) = Len(t),
           \A j \in 1 .. Len(s) : s[j] = t[j]
    PROVE  s = t
  OBVIOUS

LEMMA ConcatFacts ==
    ASSUME NEW s, s \in Seq(Int), NEW t, t \in Seq(Int)
    PROVE  /\ s \o t \in Seq(Int) /\ Len(s \o t) = Len(s) + Len(t)
           /\ \A j \in 1 .. Len(s) : (s \o t)[j] = s[j]
           /\ \A j \in 1 .. Len(t) : (s \o t)[Len(s) + j] = t[j]
<1> Len(s) \in Nat /\ Len(t) \in Nat
  OBVIOUS
<1>1. s \o t \in Seq(Int) /\ Len(s \o t) = Len(s) + Len(t)
  OBVIOUS
<1>2. \A j \in 1 .. Len(s) : (s \o t)[j] = s[j]
  OBVIOUS
<1>3. \A j \in 1 .. Len(t) : (s \o t)[Len(s) + j] = t[j]
  OBVIOUS
<1>4. QED
  BY <1>1, <1>2, <1>3

LEMMA SpansMeet ==
    ASSUME NEW a \in Int, NEW b \in Int, NEW c \in Int, a <= b, b <= c
    PROVE  Span(a, b) \o Span(b, c) = Span(a, c)
<1> DEFINE u == Span(a, b)
           v == Span(b, c)
           w == Span(a, c)
<1>1. u \in Seq(Int) /\ Len(u) = b - a /\ \A j \in 1 .. b - a : u[j] = a + j
  BY SpanFacts
<1>2. v \in Seq(Int) /\ Len(v) = c - b /\ \A j \in 1 .. c - b : v[j] = b + j
  BY SpanFacts
<1>3. w \in Seq(Int) /\ Len(w) = c - a /\ \A j \in 1 .. c - a : w[j] = a + j
  <2>1. a <= c
    OBVIOUS
  <2>2. QED
    BY <2>1, SpanFacts
<1> HIDE DEF u, v, w
<1> DEFINE s == u \o v
<1>4. /\ s \in Seq(Int) /\ Len(s) = Len(u) + Len(v)
      /\ \A j \in 1 .. Len(u) : s[j] = u[j]
      /\ \A j \in 1 .. Len(v) : s[Len(u) + j] = v[j]
  <2>1. u \in Seq(Int) /\ v \in Seq(Int)
    BY <1>1, <1>2
  <2>2. QED
    BY <2>1, ConcatFacts
<1> HIDE DEF s
<1>5. ASSUME NEW j \in 1 .. c - a
      PROVE  s[j] = w[j]
  <2>1. CASE j <= b - a
    <3>1. j \in 1 .. b - a
      BY <2>1
    <3>2. QED
      BY <1>1, <1>3, <1>4, <3>1
  <2>2. CASE j > b - a
    <3>1. j - (b - a) \in 1 .. c - b /\ (b - a) + (j - (b - a)) = j
      BY <2>2
    <3>2. v[j - (b - a)] = a + j
      BY <1>2, <3>1
    <3>3. s[j] = v[j - (b - a)]
      BY <1>1, <1>2, <1>4, <3>1
    <3>4. QED
      BY <1>3, <3>2, <3>3
  <2>3. QED
    BY <2>1, <2>2
<1>6. Len(s) = Len(w) /\ \A j \in 1 .. Len(s) : s[j] = w[j]
  BY <1>1, <1>2, <1>3, <1>4, <1>5
<1>7. s = w
  BY <1>3, <1>4, <1>6, SequencesEqual
<1>8. QED
  BY <1>7 DEF s, u, v, w

(* The end of a span is a span. *)
LEMMA SpanEnd ==
    ASSUME NEW a \in Int, NEW b \in Int, NEW n \in Nat, n <= b - a
    PROVE  SubSeq(Span(a, b), n + 1, b - a) = Span(a + n, b)
<1> DEFINE u == Span(a, b)
           w == Span(a + n, b)
           s == SubSeq(u, n + 1, b - a)
<1>1. /\ u \in Seq(Int) /\ Len(u) = b - a /\ \A j \in 1 .. b - a : u[j] = a + j
      /\ w \in Seq(Int) /\ Len(w) = b - (a + n)
      /\ \A j \in 1 .. b - (a + n) : w[j] = (a + n) + j
  BY SpanFacts
<1>2. \A i \in n + 1 .. b - a : i \in 1 .. Len(u)
  BY <1>1
<1> HIDE DEF u, w
<1>3. /\ s \in Seq(Int) /\ Len(s) = (b - a) - n
      /\ \A j \in 1 .. (b - a) - n : s[j] = u[n + j]
  BY <1>1, <1>2
<1>4. \A j \in 1 .. (b - a) - n : u[n + j] = w[j]
  BY <1>1
<1>5. s = w
  <2> HIDE DEF s
  <2>1. QED
    BY <1>1, <1>3, <1>4
<1>6. QED
  BY <1>5 DEF u, w

(* A function that goes on as FlattenSeq does ends with what it returns.   *)
Flattens(f, s, n) ==
    /\ n \in Nat /\ n > 0 /\ Len(s) = n
    /\ f = [i \in 1 .. n |-> IF i = 1 THEN s[i] ELSE f[i - 1] \o s[i]]

LEMMA FlattenFollows ==
    ASSUME NEW f, NEW s, NEW n, Flattens(f, s, n)
    PROVE  FlattenSeq(s) = f[n]
<1> USE DEF Flattens
<1>0. n \in Nat /\ n \in 0 .. n
  OBVIOUS
<1> DEFINE Steps(g) == g = [i \in 1 .. n |-> IF i = 1 THEN s[i] ELSE g[i - 1] \o s[i]]
           u == CHOOSE g : Steps(g)
           S == {i \in 0 .. n : i > 0 => u[i] = f[i]}
<1>1. Steps(u)
  <2>1. Steps(f)
    OBVIOUS
  <2> HIDE DEF Steps
  <2>2. QED
    BY <2>1
<1>2. FlattenSeq(s) = u[n]
  BY DEF FlattenSeq
<1> HIDE DEF u
<1>3. /\ \A i \in 1 .. n : u[i] = IF i = 1 THEN s[i] ELSE u[i - 1] \o s[i]
      /\ \A i \in 1 .. n : f[i] = IF i = 1 THEN s[i] ELSE f[i - 1] \o s[i]
  BY <1>1
<1>4. 0 \in S /\ \A i \in 1 .. n : i - 1 \in S => i \in S
  <2>1. ASSUME NEW i \in 1 .. n, i - 1 \in S
        PROVE  u[i] = f[i]
    <3>1. CASE i = 1
      BY <1>3, <3>1
    <3>2. CASE i # 1
      <4>1. u[i - 1] = f[i - 1]
        BY <2>1, <3>2
      <4>2. QED
        BY <1>3, <3>2, <4>1, ZenonT(30)
    <3>3. QED
      BY <3>1, <3>2
  <2>2. QED
    BY <2>1
<1>5. 0 .. n \subseteq S
  <2> HIDE DEF S
  <2>1. QED
    BY <1>0, <1>4, InductionUpTo
<1>6. u[n] = f[n]
  <2>1. n \in S
    BY <1>0, <1>5
  <2>2. QED
    BY <2>1
<1>7. QED
  BY <1>2, <1>6

(* Where the bytes of the k-th block begin that belong to the queue.       *)
Low(k) == Start(chain[k]) + (IF pc = "shift" /\ k = 1 THEN size ELSE 0)

LEMMA BlockSpan ==
    ASSUME Inv, NEW k \in 1 .. Count
    PROVE  /\ BlockBytes(chain[k]) = Span(Low(k), End(chain[k]))
           /\ Low(k) \in Int /\ End(chain[k]) \in Int /\ Low(k) <= End(chain[k])
<1> DEFINE b == chain[k]
           d == data[b]
           z == dsize[b]
<1>1. /\ b \in Blocks /\ z \in Nat /\ z > 0 /\ Len(d) \in Nat /\ z <= Len(d)
      /\ \A j \in 1 .. Len(d) : d[j] \in Int
      /\ End(b) \in Int /\ Start(b) \in Int /\ End(b) = Start(b) + z
      /\ d \in Seq(Int)
  <2>1. data[b] \in Seq(Bytes)
    BY BlockFacts DEF Inv, TypeOK
  <2>2. d \in Seq(Int)
    BY <2>1, MaxBytesAssumption DEF Bytes
  <2>3. QED
    BY <2>2, BlockFacts DEF Inv
<1>2. (b = first) <=> (k = 1)
  <2>1. first = chain[1] /\ 1 \in 1 .. Count
    BY LinkFacts DEF Inv
  <2>2. QED
    BY <2>1 DEF Inv, WellLinked
<1>3. \A j \in 1 .. z : d[j] = Start(b) + j + (IF Shifted(b, j) THEN size ELSE 0)
  BY DEF Inv, InPlace
<1>4. /\ size \in Nat /\ idx \in Nat
      /\ pc = "shift" /\ k = 1 => size < z /\ size > 0 /\ idx <= z - size
  BY <1>2 DEF Inv, TypeOK, ResizeProgress
<1>5. Low(k) \in Int /\ Low(k) <= End(b)
  BY <1>1, <1>4, SMTT(30) DEF Low
<1> DEFINE w == Span(Low(k), End(b))
<1>6. /\ w \in Seq(Int) /\ Len(w) = End(b) - Low(k)
      /\ \A j \in 1 .. End(b) - Low(k) : w[j] = Low(k) + j
  BY <1>1, <1>5, SpanFacts
<1> HIDE DEF d, z, b, w
<1>7. CASE pc = "shift" /\ k = 1
  <2> DEFINE s == SubSeq(d, 1, idx)
             t == SubSeq(d, size + idx + 1, z)
             lo == Start(b)
  <2>1. /\ lo \in Int /\ z \in Nat /\ z <= Len(d) /\ Len(d) \in Nat /\ d \in Seq(Int)
        /\ size \in Nat /\ idx \in Nat /\ size < z /\ size > 0 /\ idx <= z - size
        /\ Low(k) = lo + size /\ End(b) = lo + z
    BY <1>1, <1>4, <1>7 DEF Low, b
  <2>2. \A j \in 1 .. z : d[j] = lo + j + (IF j <= idx THEN size ELSE 0)
    BY <1>2, <1>3, <1>7 DEF Shifted
  <2> HIDE DEF lo
  <2>3. \A j \in 1 .. idx : j \in 1 .. Len(d)
    BY <2>1
  <2>4. \A j \in size + idx + 1 .. z : j \in 1 .. Len(d)
    BY <2>1
  <2>5. s \in Seq(Int) /\ Len(s) = idx /\ \A j \in 1 .. idx : s[j] = d[j]
    BY <2>1, <2>3
  <2>6. t \in Seq(Int) /\ Len(t) = z - (size + idx)
        /\ \A j \in 1 .. z - (size + idx) : t[j] = d[size + idx + j]
    BY <2>1, <2>4
  <2> DEFINE r == s \o t
  <2>7. BlockBytes(b) = r
    BY <1>2, <1>7 DEF BlockBytes, d, z
  <2> HIDE DEF s, t
  <2>8. /\ r \in Seq(Int) /\ Len(r) = Len(s) + Len(t)
        /\ \A j \in 1 .. Len(s) : r[j] = s[j]
        /\ \A j \in 1 .. Len(t) : r[Len(s) + j] = t[j]
    <3>1. s \in Seq(Int) /\ t \in Seq(Int)
      BY <2>5, <2>6
    <3>2. QED
      BY <3>1, ConcatFacts
  <2> HIDE DEF r
  <2>9. Len(r) = z - size /\ End(b) - Low(k) = z - size
    BY <2>1, <2>5, <2>6, <2>8, SMTT(30)
  <2>10. ASSUME NEW j \in 1 .. z - size
         PROVE  r[j] = w[j]
    <3>1. w[j] = lo + size + j
      BY <1>6, <2>1, <2>9
    <3>2. CASE j <= idx
      <4>1. j \in 1 .. idx /\ j \in 1 .. z
        BY <2>1, <3>2
      <4>2. r[j] = d[j] /\ d[j] = lo + j + size
        BY <2>2, <2>5, <2>8, <3>2, <4>1
      <4>3. QED
        BY <2>1, <3>1, <4>2
    <3>3. CASE j > idx
      <4>1. /\ j - idx \in 1 .. z - (size + idx) /\ idx + (j - idx) = j
            /\ size + idx + (j - idx) = size + j /\ size + j \in 1 .. z /\ ~(size + j <= idx)
        BY <2>1, <3>3
      <4>2. r[j] = t[j - idx]
        BY <2>5, <2>6, <2>8, <4>1
      <4>3. t[j - idx] = d[size + j]
        BY <2>6, <4>1
      <4>4. d[size + j] = lo + (size + j)
        <5>1. d[size + j] = lo + (size + j) + 0
          BY <2>2, <4>1
        <5>2. QED
          BY <2>1, <5>1
      <4>5. QED
        BY <2>1, <3>1, <4>2, <4>3, <4>4
    <3>4. QED
      BY <2>1, <3>2, <3>3
  <2>11. r = w
    <3>1. Len(r) = Len(w) /\ \A j \in 1 .. Len(r) : r[j] = w[j]
      BY <1>6, <2>9, <2>10
    <3>2. QED
      BY <1>6, <2>8, <3>1, SequencesEqual
  <2>12. QED
    BY <1>1, <1>5, <2>7, <2>11 DEF w, b
<1>8. CASE ~(pc = "shift" /\ k = 1)
  <2> DEFINE s == SubSeq(d, 1, z)
  <2>1. BlockBytes(b) = s
    BY <1>2, <1>8 DEF BlockBytes, d, z
  <2>2. \A j \in 1 .. z : j \in 1 .. Len(d) /\ d[j] = Start(b) + j
    BY <1>1, <1>2, <1>3, <1>8 DEF Shifted
  <2>3. s \in Seq(Int) /\ Len(s) = z /\ \A j \in 1 .. z : s[j] = d[j]
    BY <1>1, <2>2
  <2> HIDE DEF s
  <2>4. Low(k) = Start(b) /\ End(b) - Low(k) = z
    BY <1>1, <1>8 DEF Low, b
  <2>5. Len(s) = Len(w) /\ \A j \in 1 .. Len(s) : s[j] = w[j]
    BY <1>6, <2>2, <2>3, <2>4
  <2>6. s = w
    BY <1>6, <2>3, <2>5, SequencesEqual
  <2>7. QED
    BY <1>1, <1>5, <2>1, <2>6 DEF w, b
<1>9. QED
  BY <1>7, <1>8

LEMMA StoredSpan ==
    ASSUME Inv, Count > 0
    PROVE  Stored = Span(Low(1), written) /\ Low(1) \in Int /\ Low(1) <= written
<1> DEFINE n == Count
           s == [k \in DOMAIN chain |-> BlockBytes(chain[k])]
           e == [k \in 1 .. n |-> End(chain[k])]
           lo == [k \in 1 .. n |-> Low(k)]
           f == [k \in 1 .. n |-> Span(lo[1], e[k])]
           S == {k \in 0 .. n : k > 0 => lo[1] <= e[k]}
<1>1. n \in Nat /\ n > 0 /\ 1 \in 1 .. n /\ n \in 1 .. n
  BY LinkFacts DEF Inv
<1>2. Len(s) = n /\ \A k \in 1 .. n : s[k] = BlockBytes(chain[k])
  <2>1. chain \in Seq(Blocks) /\ DOMAIN chain = 1 .. n
    BY DEF Inv, TypeOK, Count
  <2>2. QED
    BY <1>1, <2>1
<1>3. \A k \in 1 .. n : /\ s[k] = Span(lo[k], e[k])
                        /\ lo[k] \in Int /\ e[k] \in Int /\ lo[k] <= e[k]
  BY <1>2, BlockSpan
<1>4. e[n] = written
  BY <1>1 DEF Inv, Contiguous
<1>5. \A k \in 1 .. n : k # 1 => k - 1 \in 1 .. n /\ lo[k] = e[k - 1]
  <2>1. ASSUME NEW k \in 1 .. n, k # 1
        PROVE  k - 1 \in 1 .. n /\ lo[k] = e[k - 1]
    <3>1. k - 1 \in 1 .. n - 1 /\ (k - 1) + 1 = k
      BY <1>1, <2>1
    <3>2. Start(chain[k]) = End(chain[k - 1])
      BY <3>1 DEF Inv, Contiguous
    <3>3. Start(chain[k]) \in Int
      BY BlockFacts DEF Inv
    <3>4. Low(k) = Start(chain[k])
      BY <2>1, <3>3 DEF Low
    <3>5. QED
      BY <1>1, <3>1, <3>2, <3>4
  <2>2. QED
    BY <2>1
<1> HIDE DEF n, s, e, lo
<1>6. 0 .. n \subseteq S
  <2>1. ASSUME NEW k \in 1 .. n, k - 1 \in S
        PROVE  k \in S
    <3>1. CASE k = 1
      BY <1>3, <3>1
    <3>2. CASE k # 1
      <4>1. lo[1] <= e[k - 1] /\ lo[k] = e[k - 1] /\ k - 1 \in 1 .. n
        BY <1>5, <2>1, <3>2
      <4>2. lo[1] \in Int /\ e[k - 1] \in Int /\ e[k] \in Int /\ lo[k] <= e[k]
        BY <1>1, <1>3, <4>1
      <4>3. QED
        BY <4>1, <4>2
    <3>3. QED
      BY <3>1, <3>2
  <2>2. 0 \in S
    BY <1>1
  <2> HIDE DEF S
  <2>3. QED
    BY <1>1, <2>1, <2>2, InductionUpTo
<1>7. \A k \in 1 .. n : lo[1] <= e[k]
  <2>1. \A k \in 1 .. n : k \in S
    BY <1>6
  <2>2. QED
    BY <2>1
<1>8. ASSUME NEW k \in 1 .. n
      PROVE  f[k] = IF k = 1 THEN s[k] ELSE f[k - 1] \o s[k]
  <2>1. CASE k = 1
    BY <1>3, <2>1
  <2>2. CASE k # 1
    <3>1. k - 1 \in 1 .. n /\ lo[k] = e[k - 1]
      BY <1>5, <2>2
    <3>2. lo[1] \in Int /\ e[k - 1] \in Int /\ e[k] \in Int
          /\ lo[1] <= e[k - 1] /\ e[k - 1] <= e[k]
      BY <1>1, <1>3, <1>7, <3>1
    <3>3. Span(lo[1], e[k - 1]) \o Span(e[k - 1], e[k]) = Span(lo[1], e[k])
      BY <3>2, SpansMeet
    <3>4. QED
      BY <1>3, <2>2, <3>1, <3>3
  <2>3. QED
    BY <2>1, <2>2
<1>9. f = [k \in 1 .. n |-> IF k = 1 THEN s[k] ELSE f[k - 1] \o s[k]]
  <2>1. f = [k \in 1 .. n |-> f[k]]
    OBVIOUS
  <2> HIDE DEF f
  <2>2. QED
    BY <1>8, <2>1
<1>10. FlattenSeq(s) = f[n]
  <2> HIDE DEF f
  <2>1. QED
    BY <1>1, <1>2, <1>9, FlattenFollows DEF Flattens
<1>11. f[n] = Span(lo[1], written)
  BY <1>1, <1>4
<1>12. lo[1] = Low(1) /\ lo[1] \in Int /\ lo[1] <= written
  BY <1>1, <1>3, <1>4, <1>7 DEF lo
<1>13. Stored = FlattenSeq(s)
  BY DEF Stored, s
<1>14. QED
  BY <1>10, <1>11, <1>12, <1>13

(* What the queue holds, read block by block, are the last qsize bytes of  *)
(* all that were ever added. *)
LEMMA ContentsAre ==
    Inv => /\ Contents = Span(written - qsize, written)
           /\ qsize \in Nat /\ written \in Nat
<1> SUFFICES ASSUME Inv
             PROVE  /\ Contents = Span(written - qsize, written)
                    /\ qsize \in Nat /\ written \in Nat
  OBVIOUS
<1>1. /\ qsize \in Nat /\ written \in Nat /\ size \in Nat /\ Count \in Nat
      /\ pc \in {"idle", "drop", "shift"} /\ (pc = "idle" => size = 0)
  BY LinkFacts DEF Inv, TypeOK, ResizeProgress
<1>2. CASE Count = 0
  <2> DEFINE s == [k \in DOMAIN chain |-> BlockBytes(chain[k])]
             c == SubSeq(s, Len(s) - qsize + 1, Len(s))
             w == Span(written - qsize, written)
  <2>1. qsize = 0
    BY <1>1, <1>2 DEF Inv, Contiguous
  <2>2. s \in Seq(Int) /\ Len(s) = 0
    <3>1. DOMAIN chain = 1 .. 0
      BY <1>2 DEF Inv, TypeOK, Count
    <3>2. QED
      BY <3>1
  <2>3. Contents = c
    BY <2>2 DEF Contents, Stored, FlattenSeq
  <2>4. w \in Seq(Int) /\ Len(w) = 0
    BY <1>1, <2>1, SpanFacts
  <2> HIDE DEF s, w
  <2>5. c \in Seq(Int) /\ Len(c) = 0
    BY <2>1, <2>2
  <2> HIDE DEF c
  <2>6. c = w
    BY <2>4, <2>5
  <2>7. QED
    BY <1>1, <2>3, <2>6 DEF w
<1>3. CASE Count > 0
  <2> DEFINE lo == Low(1)
             n == (written - lo) - qsize
  <2>1. Stored = Span(lo, written) /\ lo \in Int /\ lo <= written
    BY <1>3, StoredSpan
  <2>2. qsize + size = written - Start(chain[1]) /\ Start(chain[1]) \in Int
    <3>1. 1 \in 1 .. Count
      BY <1>1, <1>3
    <3>2. QED
      BY <1>3, <3>1, BlockFacts DEF Inv, Contiguous
  <2>3. lo = Start(chain[1]) + (IF pc = "shift" THEN size ELSE 0)
    BY DEF Low
  <2> HIDE DEF lo
  <2>4. n \in Nat /\ n <= written - lo /\ lo + n = written - qsize
    <3>1. CASE pc = "shift"
      BY <1>1, <2>1, <2>2, <2>3, <3>1
    <3>2. CASE pc # "shift"
      <4>1. lo = Start(chain[1])
        BY <2>2, <2>3, <3>2
      <4>2. QED
        BY <1>1, <2>1, <2>2, <4>1
    <3>3. QED
      BY <3>1, <3>2
  <2>5. Len(Stored) = written - lo
    <3>1. written \in Int
      BY <1>1
    <3>2. QED
      BY <2>1, <3>1, SpanFacts
  <2>6. Len(Stored) - qsize + 1 = n + 1
    BY <1>1, <2>1, <2>5
  <2>7. Contents = SubSeq(Span(lo, written), n + 1, written - lo)
    BY <2>1, <2>5, <2>6 DEF Contents
  <2> HIDE DEF n
  <2>8. SubSeq(Span(lo, written), n + 1, written - lo) = Span(lo + n, written)
    <3>1. written \in Int
      BY <1>1
    <3>2. QED
      BY <2>1, <2>4, <3>1, SpanEnd
  <2>9. QED
    BY <1>1, <2>4, <2>7, <2>8
<1>4. QED
  BY <1>1, <1>2, <1>3

LEMMA ContentsNext ==
    Inv' => /\ Contents' = Span(written' - qsize', written')
            /\ qsize' \in Nat /\ written' \in Nat
<1>1. (Inv => /\ Contents = Span(written - qsize, written)
              /\ qsize \in Nat /\ written \in Nat)'
  BY ContentsAre, PTL
<1>2. QED
  BY <1>1 DEF Span

(* The queue holds no more than was ever added. *)
LEMMA QueuedWasAdded ==
    ASSUME Inv
    PROVE  qsize <= written
<1>1. qsize \in Nat /\ written \in Nat /\ size \in Nat /\ Count \in Nat
  BY LinkFacts DEF Inv, TypeOK
<1>2. CASE Count = 0
  BY <1>1, <1>2 DEF Inv, Contiguous
<1>3. CASE Count > 0
  <2> DEFINE b == chain[1]
  <2>1. 1 \in 1 .. Count
    BY <1>1, <1>3
  <2>2. /\ dsize[b] \in Nat /\ dsize[b] > 0 /\ b \in Blocks /\ dsize[b] <= Len(data[b])
        /\ Start(b) \in Int /\ End(b) = Start(b) + dsize[b]
    BY <2>1, BlockFacts DEF Inv
  <2>3. qsize + size = written - Start(b)
    BY <1>3 DEF Inv, Contiguous
  <2>4. Start(b) >= 0 - size
    <3>1. data[b] \in Seq(Bytes) /\ 1 \in 1 .. Len(data[b])
      <4>1. Len(data[b]) \in Nat
        BY <2>1, BlockFacts DEF Inv
      <4>2. QED
        BY <2>2, <4>1 DEF Inv, TypeOK
    <3>2. data[b][1] \in Nat /\ data[b][1] >= 1
      BY <3>1, MaxBytesAssumption DEF Bytes
    <3>3. 1 \in 1 .. dsize[b]
      BY <2>2
    <3>4. data[b][1] = Start(b) + 1 + (IF Shifted(b, 1) THEN size ELSE 0)
      BY <2>1, <3>3 DEF Inv, InPlace
    <3>5. CASE Shifted(b, 1)
      BY <1>1, <2>2, <3>2, <3>4, <3>5
    <3>6. CASE ~Shifted(b, 1)
      BY <1>1, <2>2, <3>2, <3>4, <3>6
    <3>7. QED
      BY <3>5, <3>6
  <2>5. QED
    BY <1>1, <2>2, <2>3, <2>4
<1>4. QED
  BY <1>1, <1>2, <1>3

(* Every step of the queue's code is a step of the stream, or none: only   *)
(* the add functions add, only the entry of _resizeQueue and the clean     *)
(* functions take off, and the blocks deleted or shifted in between change *)
(* nothing of what the queue holds. *)
LEMMA StreamStep ==
    ASSUME Inv, Inv', [Next]_vars
    PROVE  [Stream!Next]_<<Contents, written>>
<1> DEFINE c == Contents
           w == written
           q == qsize
<1>1. /\ c = Span(w - q, w) /\ q \in Nat /\ w \in Nat /\ w - q \in Int /\ w \in Int
      /\ q <= w
  BY ContentsAre, QueuedWasAdded
<1>2. /\ Contents' = Span(written' - qsize', written')
      /\ qsize' \in Nat /\ written' \in Nat
  BY ContentsNext
<1>3. Len(c) = q /\ c \in Seq(Int)
  <2>1. w - q <= w /\ w - (w - q) = q
    BY <1>1
  <2>2. QED
    BY <1>1, <2>1, SpanFacts
<1>4. ASSUME NEW n \in Bytes, NEW b \in Blocks, Add(b, n)
      PROVE  Stream!Write
  <2>1. n \in Nat /\ n > 0 /\ qsize' = q + n /\ written' = w + n
    BY <1>4, MaxBytesAssumption DEF Add, Bytes
  <2>2. w - q \in Int /\ w + n \in Int /\ w - q <= w /\ w <= w + n
    BY <1>1, <2>1
  <2>3. Span(w - q, w) \o Span(w, w + n) = Span(w - q, w + n)
    BY <1>1, <2>2, SpansMeet
  <2>4. written' - qsize' = w - q
    BY <1>1, <2>1
  <2>5. Contents' = c \o Span(w, w + n)
    BY <1>1, <1>2, <2>1, <2>3, <2>4
  <2>6. Span(w, w + n) = [i \in 1 .. written' - written |-> written + i]
    BY <2>1 DEF Span
  <2>7. written' > written
    BY <1>1, <2>1
  <2>8. QED
    BY <2>5, <2>6, <2>7 DEF Stream!Write
<1>5. ASSUME NEW n \in Nat, n <= q, qsize' = q - n, written' = w
      PROVE  Stream!Drop
  <2>1. n <= w - (w - q) /\ w - (w - q) = q /\ (w - q) + n = written' - qsize'
    BY <1>1, <1>5
  <2>2. SubSeq(Span(w - q, w), n + 1, w - (w - q)) = Span((w - q) + n, w)
    BY <1>1, <2>1, SpanEnd
  <2>3. Contents' = SubSeq(c, n + 1, Len(c))
    BY <1>1, <1>2, <1>3, <1>5, <2>1, <2>2
  <2>4. n \in 0 .. Len(c)
    BY <1>1, <1>3, <1>5
  <2>5. QED
    BY <1>5, <2>3, <2>4 DEF Stream!Drop
<1>6. ASSUME NEW n \in {0} \cup Bytes, Resize(n)
      PROVE  Stream!Drop
  <2>1. n \in Nat /\ n <= q /\ qsize' = q - n /\ written' = w
    BY <1>6, MaxBytesAssumption DEF Resize, Bytes
  <2>2. QED
    BY <1>5, <2>1
<1>7. CASE Clean
  <2>1. PICK n \in Nat : n = q
    BY <1>1
  <2>2. n <= q /\ qsize' = q - n /\ written' = w
    BY <1>1, <1>7, <2>1 DEF Clean
  <2>3. QED
    BY <1>5, <2>2 DEF Stream!Next
<1>8. CASE DropBlock \/ KeepBlock \/ ShiftByte \/ ShiftDone \/ UNCHANGED vars
  <2>1. UNCHANGED <<qsize, written>>
    BY <1>8 DEF DropBlock, KeepBlock, ShiftByte, ShiftDone, vars
  <2>2. QED
    BY <1>1, <1>2, <2>1
<1>9. QED
  BY <1>4, <1>6, <1>7, <1>8 DEF Next, Stream!Next

(* A connection queue is a byte stream: what is read off it is what was    *)
(* added, in order, without loss or repetition, for any number of blocks   *)
(* and bytes and any sizes of what is added and removed. *)
THEOREM Implements == Spec => ImplementsStream
<1>1. Init => Stream!Init
  <2> SUFFICES ASSUME Init PROVE Stream!Init
    OBVIOUS
  <2>1. chain = <<>> /\ qsize = 0 /\ written = 0
    BY DEF Init
  <2>2. Stored = <<>>
    BY <2>1 DEF Stored, FlattenSeq
  <2>3. Contents = <<>>
    BY <2>1, <2>2 DEF Contents
  <2>4. QED
    BY <2>1, <2>3 DEF Stream!Init
<1>2. Inv /\ Inv' /\ [Next]_vars => [Stream!Next]_<<Contents, written>>
  BY StreamStep
<1>3. QED
  BY <1>1, <1>2, QueueInvariant, PTL DEF Spec, Stream!Spec, ImplementsStream
=============================================================================
