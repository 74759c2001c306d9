-------------------------- MODULE AllocatorProofs --------------------------
(* Theorems about Allocator, for any number of threads, blocks and sizes.  *)
(* The types hold in every state (Typing).  As long as no two calls have   *)
(* met inside the lock, which sys::mutex does not prevent, the heap list   *)
(* stays linked (ListInv), every block has one owner (OwnerInv), realloc's *)
(* new block holds what the old one held (Contents), and with these three  *)
(* the allocator implements Heap.                                          *)
EXTENDS Allocator, TLAPS

(* The program counters at which a thread has the lock. *)
Inside == {"a_link", "r_walk", "f_walk"}
Links(t) == pc[t] \in {"a_lock", "a_link"}

Locked ==
    /\ \A t \in Thread : t \in locking <=> pc[t] \in Inside
    /\ \A t, u \in locking : t = u

(* A block that is about to be linked is its thread's own, and once the    *)
(* thread has the lock nobody links another one before it.                 *)
Unlinked ==
    /\ \A t \in Thread : Links(t) => new[t] \in mapped \ linked
    /\ \A t, u \in Thread : Links(t) /\ Links(u) /\ t # u => new[t] # new[u]
    /\ \A t \in Thread : pc[t] = "a_link" => prev[new[t]] = last

(* The walk of free: cur is in the list, and behind is what points to it. *)
Walking ==
    \A t \in Thread : pc[t] = "f_walk" =>
        /\ cur[t] \in linked \cup {Null}
        /\ behind[t] = Null => cur[t] = last
        /\ behind[t] # Null => behind[t] \in linked /\ prev[behind[t]] = cur[t]

(* The types, and that the blocks a call is about to link or copy exist:   *)
(* so much holds however many threads are inside the lock.                 *)
Typing ==
    /\ TypeOK
    /\ \A t \in Thread : /\ Links(t) \/ pc[t] = "r_copy" => new[t] \in Block
                         /\ cursize[t] # 0 => old[t] \in Block

ListInv == Typing /\ Chained /\ Locked /\ Unlinked /\ Walking

(* No thread has entered the lock while another one was inside. *)
Alone == overlaps = 0

-----------------------------------------------------------------------------
(* Appending a block at _lastheap keeps the list linked. *)
LEMMA AppendKeepsLinked ==
    ASSUME TypeOK, Chained, NEW b \in mapped \ linked, prev[b] = last,
           last' = b, linked' = linked \cup {b},
           before' = before \cup (linked \X {b}), UNCHANGED <<prev, mapped>>
    PROVE  Chained'
<1> USE NullAssumption
<1>1. b \in Block /\ b # Null
  BY DEF TypeOK
<1>2. Ordered'
  BY <1>1 DEF Chained, Ordered
<1>3. \A c \in linked : Before(c)' = Before(c)
  BY DEF Chained, Ordered, Before
<1>4. Before(b)' = linked
  BY DEF Chained, Ordered, Before
<1>5. NewestOf(linked, last)'
  BY DEF NewestOf
<1>6. \A c \in linked' : NewestOf(Before(c), prev[c])'
  <2> SUFFICES ASSUME NEW c \in linked'
               PROVE  NewestOf(Before(c), prev[c])'
    OBVIOUS
  <2>1. CASE c = b
    BY <1>4, <2>1 DEF Chained, NewestOf
  <2>2. CASE c # b
    BY <1>3, <2>2 DEF Chained, NewestOf, Before
  <2>3. QED
    BY <2>1, <2>2
<1>7. QED
  BY <1>2, <1>5, <1>6 DEF Chained

(* So does taking out block c, if the block that points to it, or          *)
(* _lastheap, is made to skip it.                                          *)
LEMMA UnlinkKeepsLinked ==
    ASSUME TypeOK, Chained, NEW c \in linked, NEW p \in Ptr,
           p = Null => c = last,
           p # Null => p \in linked /\ prev[p] = c,
           last' = IF last = c THEN prev[c] ELSE last,
           prev' = [b \in Block |-> IF b = c THEN Null
                                    ELSE IF b = p THEN prev[c] ELSE prev[b]],
           linked' = linked \ {c},
           before' = {q \in before : c \notin {q[1], q[2]}},
           mapped' = mapped \ {c}
    PROVE  Chained'
<1> USE NullAssumption
<1>1. linked \subseteq Block /\ c \in Block /\ c # Null /\ before \subseteq linked \X linked
  BY DEF TypeOK, Chained, Ordered
<1>2. \A b, d \in linked : <<b, d>> \in before' <=> <<b, d>> \in before /\ b # c /\ d # c
  OBVIOUS
<1>3. Ordered'
  BY <1>1, <1>2 DEF Chained, Ordered
<1>4. \A b \in linked \ {c} : Before(b)' = Before(b) \ {c}
  BY <1>1, <1>2 DEF Before
<1>5. NewestOf(linked, last)'
  <2>1. CASE last = c
    <3>1. Before(c) = linked \ {c}
      BY <2>1 DEF Chained, Ordered, NewestOf, Before
    <3>2. NewestOf(linked \ {c}, prev[c])
      BY <3>1 DEF Chained
    <3>3. QED
      BY <1>2, <2>1, <3>2 DEF NewestOf
  <2>2. CASE last # c
    BY <1>2, <2>2 DEF Chained, NewestOf
  <2>3. QED
    BY <2>1, <2>2
<1>6. ASSUME NEW b \in linked \ {c}
      PROVE  NewestOf(Before(b), prev[b])'
  <2>1. CASE b = p
    <3>1. Before(b) \ {c} = Before(c)
      <4>1. prev[b] = c
        BY <1>1, <2>1
      <4>2. NewestOf(Before(b), prev[b])
        BY DEF Chained
      <4>3. c \in Before(b) /\ \A d \in Before(b) : d = c \/ <<d, c>> \in before
        BY <1>1, <4>1, <4>2 DEF NewestOf
      <4>4. Before(c) \subseteq Before(b) /\ c \notin Before(c)
        BY <4>3 DEF Chained, Ordered, Before
      <4>5. QED
        BY <4>3, <4>4 DEF Before
    <3>2. prev'[b] = prev[c]
      BY <1>1, <2>1
    <3>3. NewestOf(Before(c), prev[c])
      BY DEF Chained
    <3>4. QED
      BY <1>1, <1>2, <1>4, <3>1, <3>2, <3>3 DEF NewestOf, Before
  <2>2. CASE b # p
    <3>1. prev'[b] = prev[b]
      BY <1>1, <2>2
    <3>2. prev[b] # c
      <4>1. CASE p = Null
        BY <1>1, <4>1 DEF Chained, Ordered, NewestOf, Before
      <4>2. CASE p # Null
        BY <1>1, <2>2, <4>2 DEF Chained, Ordered, NewestOf, Before
      <4>3. QED
        BY <4>1, <4>2
    <3>3. NewestOf(Before(b), prev[b]) /\ Before(b) \subseteq linked
      BY DEF Chained, Before
    <3>4. QED
      BY <1>2, <1>4, <3>1, <3>2, <3>3 DEF NewestOf
  <2>3. QED
    BY <2>1, <2>2
<1>7. linked' \subseteq mapped'
  BY DEF Chained
<1>8. QED
  BY <1>3, <1>5, <1>6, <1>7 DEF Chained

-----------------------------------------------------------------------------
(* Types are kept by every step, also of threads that meet in the lock.    *)
LEMMA LockTyped ==
    ASSUME Typing, NEW t \in Thread, Take(t) \/ Leave(t) \/ UNCHANGED lock
    PROVE  locking' \subseteq Thread /\ overlaps' \in 0..MaxOverlaps
<1>1. locking \subseteq Thread /\ overlaps \in 0..MaxOverlaps /\ MaxOverlaps \in Nat
  BY SizeAssumption DEF Typing, TypeOK
<1>2. CASE Take(t)
  BY <1>1, <1>2 DEF Take
<1>3. CASE ~Take(t)
  BY <1>1, <1>3 DEF Leave, lock
<1>4. QED
  BY <1>2, <1>3

LEMMA TypingKept ==
    ASSUME Typing, [Next]_vars
    PROVE  Typing'
<1> USE NullAssumption, ZeroAssumption, SizeAssumption
    DEF Typing, At, Goto, heap, ghosts, locals, Links
<1> DEFINE Held == \A t \in Thread : /\ Links(t) \/ pc[t] = "r_copy" => new[t] \in Block
                                     /\ cursize[t] # 0 => old[t] \in Block
<1>1. ASSUME NEW t \in Thread, NEW b \in Block, NEW n \in 1..MaxSize,
             Alloc(t, b, n) \/ ReallocMap(t, b, n)
      PROVE  Typing'
  <2>1. n \in 0..MaxSize /\ UNCHANGED lock
    BY <1>1 DEF Alloc, ReallocMap, Map
  <2>2. TypeOK'
    BY <1>1, <2>1, LockTyped DEF Alloc, ReallocMap, Map, Stored, TypeOK, Ptr, Labels
  <2>3. Held'
    BY <1>1 DEF Alloc, ReallocMap, Map, TypeOK
  <2>4. QED
    BY <2>2, <2>3
<1>2. ASSUME NEW t \in Thread, NEW p \in Ptr, Free(t, p) \/ Realloc(t, p)
      PROVE  Typing'
  <2>1. UNCHANGED <<heap, lock, new, cur, behind, old, cursize>>
    BY <1>2 DEF Free, Realloc
  <2>2. CASE Free(t, p)
    BY <2>1, <2>2, LockTyped DEF Free, FreeFrom, TypeOK, Labels
  <2>3. CASE Realloc(t, p)
    BY <2>1, <2>3, LockTyped DEF Realloc, TypeOK, Labels
  <2>4. QED
    BY <1>2, <2>2, <2>3
<1>3. ASSUME NEW t \in Thread, AllocFails(t) \/ MapFails(t) \/ Faults(t)
      PROVE  Typing'
  <2>1. UNCHANGED <<heap, lock, new, cur, behind, old, cursize, moving, given>>
    BY <1>3 DEF AllocFails, MapFails, Faults
  <2>2. /\ dead' \in BOOLEAN /\ ptr' \in [Thread -> Ptr] /\ pc' \in [Thread -> Labels]
        /\ \A u \in Thread : pc'[u] \in {pc[u], "f_lock"}
    BY <1>3 DEF AllocFails, MapFails, Faults, FreeFrom, TypeOK, Labels
  <2>3. TypeOK'
    BY <2>1, <2>2, LockTyped DEF TypeOK
  <2>4. Held'
    BY <2>1, <2>2
  <2>5. QED
    BY <2>3, <2>4
<1>4. ASSUME NEW t \in Thread, LinkToLast(t)
      PROVE  Typing'
  <2>1. new[t] \in Block /\ last \in Ptr
    BY <1>4 DEF LinkToLast, TypeOK
  <2>2. locking' \subseteq Thread /\ overlaps' \in 0..MaxOverlaps
    BY <1>4, LockTyped DEF LinkToLast
  <2>3. TypeOK'
    BY <1>4, <2>1, <2>2 DEF LinkToLast, TypeOK, Labels
  <2>4. Held'
    BY <1>4, <2>1 DEF LinkToLast, TypeOK
  <2>5. QED
    BY <2>3, <2>4
<1>5. ASSUME NEW t \in Thread, BecomeLast(t)
      PROVE  Typing'
  <2>1. new[t] \in Block
    BY <1>5 DEF BecomeLast, TypeOK
  <2>2. locking' \subseteq Thread /\ overlaps' \in 0..MaxOverlaps
    BY <1>5, LockTyped DEF BecomeLast
  <2>3. before' \subseteq Block \X Block
    BY <1>5, <2>1 DEF BecomeLast, TypeOK
  <2>4. TypeOK'
    BY <1>5, <2>1, <2>2, <2>3 DEF BecomeLast, TypeOK, Labels, Ptr
  <2>5. Held'
    BY <1>5, <2>1 DEF BecomeLast, TypeOK
  <2>6. QED
    BY <2>4, <2>5
<1>6. ASSUME NEW t \in Thread, FreeLock(t) \/ ReallocLock(t)
      PROVE  Typing'
  <2>1. locking' \subseteq Thread /\ overlaps' \in 0..MaxOverlaps
    BY <1>6, LockTyped DEF FreeLock, ReallocLock
  <2>2. TypeOK'
    BY <1>6, <2>1 DEF FreeLock, ReallocLock, TypeOK, Labels, Ptr
  <2>3. Held'
    BY <1>6 DEF FreeLock, ReallocLock, TypeOK
  <2>4. QED
    BY <2>2, <2>3
<1>7. ASSUME NEW t \in Thread, FreeStep(t)
      PROVE  Typing'
  <2>1. cur[t] \in Block /\ prev[cur[t]] \in Ptr
    BY <1>7 DEF FreeStep, TypeOK, Ptr
  <2>2. TypeOK'
    BY <1>7, <2>1, LockTyped DEF FreeStep, TypeOK
  <2>3. QED
    BY <1>7, <2>2 DEF FreeStep
<1>8. ASSUME NEW t \in Thread, FreeFound(t)
      PROVE  Typing'
  <2>1. cur[t] \in Block /\ prev[cur[t]] \in Ptr
    BY <1>8 DEF FreeFound, TypeOK, Ptr
  <2>2. locking' \subseteq Thread /\ overlaps' \in 0..MaxOverlaps
    BY <1>8, LockTyped DEF FreeFound, Return
  <2>3. /\ mapped' \subseteq Block /\ linked' \subseteq Block /\ before' \subseteq Block \X Block
        /\ prev' \in [Block -> Ptr] /\ last' \in Ptr
        /\ size' \in [Block -> 0..MaxSize] /\ content' \in [Block -> Value]
    BY <1>8, <2>1 DEF FreeFound, Unlink, TypeOK, Ptr
  <2>4. TypeOK'
    BY <1>8, <2>2, <2>3 DEF FreeFound, Return, TypeOK, Labels, Ptr
  <2>5. Held'
    BY <1>8 DEF FreeFound, Return, TypeOK
  <2>6. QED
    BY <2>4, <2>5
<1>9. ASSUME NEW t \in Thread, FreeNothing(t)
      PROVE  Typing'
  <2>1. locking' \subseteq Thread /\ overlaps' \in 0..MaxOverlaps
    BY <1>9, LockTyped DEF FreeNothing, Return
  <2>2. TypeOK'
    BY <1>9, <2>1 DEF FreeNothing, Return, TypeOK, Labels, Ptr
  <2>3. Held'
    BY <1>9 DEF FreeNothing, Return, TypeOK
  <2>4. QED
    BY <2>2, <2>3
<1>10. ASSUME NEW t \in Thread, ReallocStep(t)
       PROVE  Typing'
  <2>1. cur[t] \in Block /\ prev[cur[t]] \in Ptr /\ size[cur[t]] \in 0..MaxSize
    BY <1>10 DEF ReallocStep, TypeOK, Ptr
  <2>2. TypeOK'
    BY <1>10, <2>1, LockTyped DEF ReallocStep, TypeOK, Ptr
  <2>3. Held'
    BY <1>10, <2>1 DEF ReallocStep, TypeOK
  <2>4. QED
    BY <2>2, <2>3
<1>11. ASSUME NEW t \in Thread, ReallocUnlock(t)
       PROVE  Typing'
  <2>1. locking' \subseteq Thread /\ overlaps' \in 0..MaxOverlaps
    BY <1>11, LockTyped DEF ReallocUnlock
  <2>2. QED
    BY <1>11, <2>1 DEF ReallocUnlock, TypeOK, Labels
<1>12. ASSUME NEW t \in Thread, ReallocCopy(t)
       PROVE  Typing'
  <2>1. new[t] \in Block /\ Copied(t) \in Value
    BY <1>12 DEF ReallocCopy, Copied, TypeOK
  <2>2. TypeOK'
    BY <1>12, <2>1, LockTyped DEF ReallocCopy, FreeFrom, TypeOK, Labels, Ptr
  <2>3. Held'
    BY <1>12 DEF ReallocCopy, FreeFrom, TypeOK
  <2>4. QED
    BY <2>2, <2>3
<1>13. CASE (\E b \in Block, v \in Value : Write(b, v)) \/ UNCHANGED vars
  BY <1>13 DEF Write, vars, lock, TypeOK
<1>14. QED
  BY <1>1, <1>2, <1>3, <1>4, <1>5, <1>6, <1>7, <1>8, <1>9, <1>10, <1>11, <1>12, <1>13
     DEF Next, Call, InCall

-----------------------------------------------------------------------------
(* While no two calls have met in it, the lock is one. *)
LEMMA TakenAlone ==
    ASSUME Alone, Alone', NEW t \in Thread, Take(t)
    PROVE  locking = {} /\ locking' = {t}
BY DEF Alone, Take

(* That they have met once is not forgotten. *)
LEMMA AloneBefore ==
    ASSUME Typing, [Next]_vars, Alone'
    PROVE  Alone
<1>1. overlaps \in Nat
  BY SizeAssumption DEF Typing, TypeOK
<1>2. overlaps' \in {overlaps, overlaps + 1}
  BY DEF Next, Call, InCall, vars, lock, Alloc, ReallocMap, Map, Free, Realloc, AllocFails,
         LinkToLast, BecomeLast, FreeLock, FreeStep, FreeFound, FreeNothing, ReallocLock,
         ReallocStep, ReallocUnlock, ReallocCopy, MapFails, Faults, Write, Take, Leave, Return
<1>3. QED
  BY <1>1, <1>2 DEF Alone

(* The two places where a block enters and leaves the list. *)
LEMMA BecomeLastKeepsList ==
    ASSUME ListInv, Typing', NEW t \in Thread, BecomeLast(t)
    PROVE  ListInv'
<1> USE NullAssumption DEF Typing, ListInv, At, Goto, Leave, heap, ghosts, locals, Links, Inside
<1>1. t \in locking /\ \A u \in Thread \ {t} : pc[u] \notin Inside
  BY DEF BecomeLast, Locked
<1>2. new[t] \in mapped \ linked /\ new[t] \in Block /\ prev[new[t]] = last
  BY DEF BecomeLast, Unlinked, TypeOK
<1>3. Chained'
  BY <1>2, AppendKeepsLinked DEF BecomeLast
<1>4. Locked'
  BY <1>1 DEF BecomeLast, Locked, TypeOK
<1>5. pc'[t] \in {"r_copy", "idle"} /\ \A u \in Thread \ {t} : pc'[u] = pc[u] /\ new'[u] = new[u]
  BY DEF BecomeLast, TypeOK
<1>6. Unlinked'
  BY <1>1, <1>2, <1>5 DEF BecomeLast, Unlinked, TypeOK
<1>7. Walking'
  BY <1>1, <1>5 DEF Walking
<1>8. QED
  BY <1>3, <1>4, <1>6, <1>7

LEMMA FreeFoundKeepsList ==
    ASSUME ListInv, Typing', NEW t \in Thread, FreeFound(t)
    PROVE  ListInv'
<1> USE NullAssumption DEF Typing, ListInv, At, Goto, Leave, Return, Unlink, Links, Inside
<1>1. t \in locking /\ \A u \in Thread \ {t} : pc[u] \notin Inside
  BY DEF FreeFound, Locked
<1>2. /\ cur[t] \in linked /\ cur[t] \in Block /\ behind[t] \in Ptr
      /\ behind[t] = Null => cur[t] = last
      /\ behind[t] # Null => behind[t] \in linked /\ prev[behind[t]] = cur[t]
  BY DEF FreeFound, Walking, TypeOK
<1>3. Chained'
  BY <1>2, UnlinkKeepsLinked DEF FreeFound
<1>4. pc'[t] = "idle" /\ \A u \in Thread \ {t} : pc'[u] = pc[u] /\ new'[u] = new[u]
  BY DEF FreeFound, TypeOK
<1>5. Locked'
  BY <1>1 DEF FreeFound, Locked, TypeOK
<1>6. Unlinked'
  BY <1>1, <1>2, <1>4 DEF FreeFound, Unlinked
<1>7. Walking'
  BY <1>1, <1>4 DEF Walking
<1>8. QED
  BY <1>3, <1>5, <1>6, <1>7

(* Following prev leads along the list to its end. *)
LEMMA PrevInList ==
    ASSUME Chained, NEW b \in linked
    PROVE  prev[b] \in linked \cup {Null}
BY DEF Chained, NewestOf, Before

(* Every step keeps the list, while no two calls meet in the lock. *)
LEMMA ListKept ==
    ASSUME ListInv, Typing', Alone, Alone', [Next]_vars
    PROVE  ListInv'
<1> USE NullAssumption DEF Typing, ListInv, At, Goto, Leave, heap, ghosts, locals, lock, Links, Inside
<1>a. (UNCHANGED <<mapped, prev, last, linked, before>>) => Chained'
  BY DEF Chained, Ordered, NewestOf, Before
<1>1. ASSUME NEW t \in Thread, NEW b \in Block, NEW n \in 1..MaxSize,
             Alloc(t, b, n) \/ ReallocMap(t, b, n)
      PROVE  ListInv'
  <2>1. b \notin mapped /\ mapped' = mapped \cup {b}
    BY <1>1 DEF Alloc, ReallocMap, Map
  <2>2. Chained'
    BY <1>1, <2>1, ZenonT(30) DEF Alloc, ReallocMap, Map, Chained, Ordered, NewestOf, Before
  <2>3. /\ pc[t] \in {"idle", "a_map"} /\ pc'[t] = "a_lock" /\ new'[t] = b
        /\ \A u \in Thread \ {t} : pc'[u] = pc[u] /\ new'[u] = new[u]
    BY <1>1 DEF Alloc, ReallocMap, Map, TypeOK
  <2>4. UNCHANGED <<prev, last, linked, locking, cur, behind>>
    BY <1>1 DEF Alloc, ReallocMap, Map
  <2>5. Unlinked'
    BY <2>1, <2>3, <2>4 DEF Unlinked, Chained
  <2>6. Locked' /\ Walking'
    BY <2>3, <2>4 DEF Locked, Walking
  <2>7. QED
    BY <2>2, <2>5, <2>6
<1>2. ASSUME NEW t \in Thread, NEW p \in Ptr, Free(t, p) \/ Realloc(t, p)
      PROVE  ListInv'
  <2>1. UNCHANGED <<heap, lock, new, cur, behind>>
    BY <1>2 DEF Free, Realloc
  <2>2. /\ pc[t] = "idle" /\ pc'[t] \in {"f_lock", "r_lock"}
        /\ \A u \in Thread \ {t} : pc'[u] = pc[u]
    BY <1>2 DEF Free, Realloc, FreeFrom, TypeOK
  <2>3. Locked' /\ Unlinked' /\ Walking'
    BY <2>1, <2>2 DEF Locked, Unlinked, Walking
  <2>4. QED
    BY <1>a, <2>1, <2>3
<1>3. ASSUME NEW t \in Thread, AllocFails(t) \/ MapFails(t) \/ Faults(t)
      PROVE  ListInv'
  <2>1. UNCHANGED <<heap, lock, new, cur, behind>>
    BY <1>3 DEF AllocFails, MapFails, Faults
  <2>2. \A u \in Thread : pc'[u] = pc[u] \/ (pc[u] = "a_map" /\ pc'[u] = "f_lock")
    BY <1>3 DEF AllocFails, MapFails, Faults, FreeFrom, TypeOK
  <2>3. Locked' /\ Unlinked' /\ Walking'
    BY <2>1, <2>2 DEF Locked, Unlinked, Walking
  <2>4. QED
    BY <1>a, <2>1, <2>3
<1>4. ASSUME NEW t \in Thread, LinkToLast(t)
      PROVE  ListInv'
  <2>1. /\ new[t] \in mapped \ linked /\ new[t] \in Block /\ last \in Ptr
        /\ prev \in [Block -> Ptr]
    BY <1>4 DEF LinkToLast, Unlinked, TypeOK
  <2>2. prev'[new[t]] = last /\ \A b \in linked : prev'[b] = prev[b]
    BY <1>4, <2>1 DEF LinkToLast, Chained, TypeOK
  <2>3. Chained'
    <3>1. UNCHANGED <<mapped, last, linked, before>>
      BY <1>4 DEF LinkToLast
    <3>2. Ordered' /\ NewestOf(linked, last)'
      BY <3>1 DEF Chained, Ordered, NewestOf
    <3>3. \A b \in linked : NewestOf(Before(b), prev[b])'
      BY <2>2, <3>1 DEF Chained, NewestOf, Before
    <3>4. QED
      BY <3>1, <3>2, <3>3 DEF Chained
  <2>4. /\ pc[t] = "a_lock" /\ pc'[t] = "a_link" /\ locking = {} /\ locking' = {t}
        /\ \A u \in Thread \ {t} : pc'[u] = pc[u]
    BY <1>4, TakenAlone DEF LinkToLast, TypeOK
  <2>5. UNCHANGED <<mapped, last, linked, new, cur, behind>>
    BY <1>4 DEF LinkToLast
  <2>6. Locked' /\ Unlinked' /\ Walking'
    BY <2>2, <2>4, <2>5 DEF Locked, Unlinked, Walking
  <2>7. QED
    BY <2>3, <2>6
<1>5. ASSUME NEW t \in Thread, FreeLock(t) \/ ReallocLock(t)
      PROVE  ListInv'
  <2>1. UNCHANGED <<heap, new>> /\ locking = {} /\ locking' = {t}
    BY <1>5, TakenAlone DEF FreeLock, ReallocLock
  <2>2. /\ pc[t] \in {"f_lock", "r_lock"} /\ pc'[t] \in {"f_walk", "r_walk"}
        /\ cur'[t] = last /\ (pc'[t] = "f_walk" => behind'[t] = Null)
        /\ \A u \in Thread \ {t} : pc'[u] = pc[u] /\ cur'[u] = cur[u] /\ behind'[u] = behind[u]
    BY <1>5 DEF FreeLock, ReallocLock, TypeOK
  <2>3. last \in linked \cup {Null}
    BY DEF Chained, NewestOf
  <2>4. Locked' /\ Unlinked' /\ Walking'
    BY <2>1, <2>2, <2>3 DEF Locked, Unlinked, Walking
  <2>5. QED
    BY <1>a, <2>1, <2>4
<1>6. ASSUME NEW t \in Thread, FreeStep(t)
      PROVE  ListInv'
  <2>1. cur[t] \in linked /\ cur[t] \in Block /\ cur[t] # Null
    BY <1>6 DEF FreeStep, Walking, TypeOK
  <2>2. prev[cur[t]] \in linked \cup {Null}
    BY <2>1, PrevInList
  <2>3. /\ cur'[t] = prev[cur[t]] /\ behind'[t] = cur[t]
        /\ \A u \in Thread \ {t} : cur'[u] = cur[u] /\ behind'[u] = behind[u]
    BY <1>6 DEF FreeStep, TypeOK
  <2>4. Locked' /\ Unlinked' /\ Walking'
    BY <1>6, <2>1, <2>2, <2>3 DEF FreeStep, Locked, Unlinked, Walking
  <2>5. QED
    BY <1>6, <1>a, <2>4 DEF FreeStep
<1>7. ASSUME NEW t \in Thread, FreeFound(t)
      PROVE  ListInv'
  BY <1>7, FreeFoundKeepsList
<1>8. ASSUME NEW t \in Thread, FreeNothing(t)
      PROVE  ListInv'
  <2>1. /\ pc[t] = "f_walk" /\ pc'[t] = "idle"
        /\ \A u \in Thread \ {t} : /\ pc'[u] = pc[u] /\ cur'[u] = cur[u] /\ new'[u] = new[u]
                                      /\ behind'[u] = behind[u]
    BY <1>8 DEF FreeNothing, Return, TypeOK
  <2>2. Locked' /\ Unlinked' /\ Walking'
    BY <1>8, <2>1 DEF FreeNothing, Return, Locked, Unlinked, Walking
  <2>3. QED
    BY <1>8, <1>a, <2>2 DEF FreeNothing
<1>9. ASSUME NEW t \in Thread, ReallocStep(t)
      PROVE  ListInv'
  <2>1. /\ pc[t] = "r_walk"
        /\ \A u \in Thread \ {t} : cur'[u] = cur[u]
    BY <1>9 DEF ReallocStep, TypeOK
  <2>2. Locked' /\ Unlinked' /\ Walking'
    BY <1>9, <2>1 DEF ReallocStep, Locked, Unlinked, Walking
  <2>3. QED
    BY <1>9, <1>a, <2>2 DEF ReallocStep
<1>10. ASSUME NEW t \in Thread, ReallocUnlock(t)
       PROVE  ListInv'
  <2>1. /\ pc[t] = "r_walk" /\ pc'[t] = "a_map"
        /\ \A u \in Thread \ {t} : pc'[u] = pc[u]
    BY <1>10 DEF ReallocUnlock, TypeOK
  <2>2. Locked' /\ Unlinked' /\ Walking'
    BY <1>10, <2>1 DEF ReallocUnlock, Locked, Unlinked, Walking
  <2>3. QED
    BY <1>10, <1>a, <2>2 DEF ReallocUnlock
<1>11. ASSUME NEW t \in Thread, ReallocCopy(t)
       PROVE  ListInv'
  <2>1. /\ pc[t] = "r_copy" /\ pc'[t] = "f_lock"
        /\ \A u \in Thread \ {t} : pc'[u] = pc[u]
    BY <1>11 DEF ReallocCopy, FreeFrom, TypeOK
  <2>2. Locked' /\ Unlinked' /\ Walking'
    BY <1>11, <2>1 DEF ReallocCopy, Locked, Unlinked, Walking
  <2>3. QED
    BY <1>11, <1>a, <2>2 DEF ReallocCopy
<1>12. ASSUME NEW t \in Thread, BecomeLast(t)
       PROVE  ListInv'
  BY <1>12, BecomeLastKeepsList
<1>13. CASE (\E b \in Block, v \in Value : Write(b, v)) \/ UNCHANGED vars
  BY <1>13, <1>a DEF Write, vars, Locked, Unlinked, Walking
<1>14. QED
  BY <1>1, <1>2, <1>3, <1>4, <1>5, <1>6, <1>7, <1>8, <1>9, <1>10, <1>11, <1>12, <1>13
     DEF Next, Call, InCall

(* The list invariant, for any number of threads and blocks. *)
THEOREM ListInvariant == Spec => []Typing /\ [](Alone => ListInv)
<1>1. Init => Typing /\ (Alone => ListInv)
  <2>1. Init => Typing
    <3> SUFFICES ASSUME Init
                 PROVE  Typing
      OBVIOUS
    <3> USE NullAssumption, ZeroAssumption, SizeAssumption
    <3>1. /\ size \in [Block -> 0..MaxSize] /\ cursize \in [Thread -> 0..MaxSize]
          /\ overlaps \in 0..MaxOverlaps
      BY DEF Init
    <3>2. content \in [Block -> Value] /\ before \subseteq Block \X Block
      BY DEF Init
    <3>3. TypeOK
      BY <3>1, <3>2 DEF Init, TypeOK, Ptr, Labels
    <3>4. QED
      BY <3>3 DEF Init, Typing, Links
  <2>2. Init => Chained
    BY DEF Init, Chained, Ordered, NewestOf
  <2>3. Init => Locked /\ Unlinked /\ Walking
    BY DEF Init, Locked, Unlinked, Walking, Links, Inside
  <2>4. QED
    BY <2>1, <2>2, <2>3 DEF ListInv
<1>2. Typing /\ [Next]_vars => Typing'
  BY TypingKept
<1>3. Typing /\ Typing' /\ (Alone => ListInv) /\ [Next]_vars => (Alone => ListInv)'
  BY AloneBefore, ListKept
<1>4. QED
  BY <1>1, <1>2, <1>3, PTL DEF Spec

(* The model's states have their types. *)
COROLLARY TypeCorrect == Spec => []TypeOK
<1>1. Typing => TypeOK
  BY DEF Typing
<1>2. QED
  BY <1>1, ListInvariant, PTL

(* Whatever threads allocate, move and free at the same time, the heap     *)
(* list has no cycle, skips no block and leads over mapped memory only, as *)
(* long as no two of them have met inside the lock.                        *)
COROLLARY AlwaysLinked == Spec => []HeapLinked
<1>1. (Alone => ListInv) => HeapLinked
  BY DEF ListInv, Alone, HeapLinked
<1>2. QED
  BY <1>1, ListInvariant, PTL

-----------------------------------------------------------------------------
(* Which blocks a call has, also when calls meet inside the lock: its      *)
(* argument, the block it is linking or moving to, and old, which is its   *)
(* argument or nothing. *)
Calls ==
    \A t \in Thread :
        /\ pc[t] = "idle" => new[t] = Null /\ ptr[t] = Null
        /\ Links(t) /\ ~moving[t] => ptr[t] = Null
        /\ pc[t] \in {"r_lock", "r_walk", "a_map"} => moving[t] /\ new[t] = Null
        /\ old[t] \in {Null, ptr[t]}

(* Apart, thread by thread. *)
Separate ==
    /\ given \subseteq mapped
    /\ \A t \in Thread : /\ ptr[t] # Null => ptr[t] \in mapped \ given
                         /\ new[t] # Null => new[t] \in mapped \ given
    /\ \A t, u \in Thread : ptr[t] # Null => ptr[t] # new[u] /\ (t # u => ptr[t] # ptr[u])
    /\ \A t, u \in Thread : t # u /\ new[t] # Null => new[t] # new[u]

LEMMA SeparateIsApart == Separate <=> Apart
<1>1. ASSUME Separate
      PROVE  Apart
  BY <1>1 DEF Separate, Apart, Holds
<1>2. ASSUME Apart
      PROVE  Separate
  <2>1. given \subseteq mapped
    BY <1>2 DEF Apart
  <2>2. ASSUME NEW t \in Thread
        PROVE  /\ ptr[t] # Null => ptr[t] \in mapped \ given /\ ptr[t] # new[t]
               /\ new[t] # Null => new[t] \in mapped \ given
    <3>1. Holds(t) \subseteq mapped \ given /\ (ptr[t] = new[t] => ptr[t] = Null)
      BY <1>2 DEF Apart
    <3>2. QED
      BY <3>1 DEF Holds
  <2>3. ASSUME NEW t \in Thread, NEW u \in Thread, t # u
        PROVE  /\ ptr[t] # Null => ptr[t] # new[u] /\ ptr[t] # ptr[u]
               /\ new[t] # Null => new[t] # new[u]
    <3>1. Holds(t) \cap Holds(u) = {}
      BY <1>2, <2>3 DEF Apart
    <3>2. QED
      BY <3>1 DEF Holds
  <2>4. QED
    BY <2>1, <2>2, <2>3 DEF Separate
<1>3. QED
  BY <1>1, <1>2

LEMMA SeparateKept ==
    ASSUME Typing, Calls, Separate, [Next]_vars
    PROVE  (Calls /\ Separate)'
<1> USE NullAssumption DEF At, Goto, heap, ghosts, locals, Links
<1>a. /\ pc \in [Thread -> Labels] /\ ptr \in [Thread -> Ptr] /\ new \in [Thread -> Ptr]
      /\ old \in [Thread -> Ptr] /\ cur \in [Thread -> Ptr] /\ moving \in [Thread -> BOOLEAN]
      /\ Null \notin mapped /\ Null \notin given
  BY DEF Typing, TypeOK
<1> DEFINE Others(t) ==
      \A u \in Thread \ {t} : /\ pc'[u] = pc[u] /\ ptr'[u] = ptr[u] /\ new'[u] = new[u]
                               /\ old'[u] = old[u] /\ moving'[u] = moving[u]
<1>1. ASSUME NEW t \in Thread, NEW b \in Block, NEW n \in 1..MaxSize,
             Alloc(t, b, n) \/ ReallocMap(t, b, n)
      PROVE  (Calls /\ Separate)'
  <2>1. /\ pc[t] \in {"idle", "a_map"} /\ pc'[t] = "a_lock" /\ new'[t] = b /\ Others(t)
        /\ b \notin mapped /\ mapped' = mapped \cup {b}
        /\ UNCHANGED <<given, ptr, old, moving>>
    BY <1>1, <1>a DEF Alloc, ReallocMap, Map
  <2>2. Calls'
    BY <2>1 DEF Calls
  <2>3. Separate'
    BY <1>a, <2>1 DEF Separate
  <2>4. QED
    BY <2>2, <2>3
<1>2. ASSUME NEW t \in Thread, NEW p \in Ptr, Free(t, p) \/ Realloc(t, p)
      PROVE  (Calls /\ Separate)'
  <2>1. /\ pc[t] = "idle" /\ ptr'[t] = p /\ p \in given \cup {Null} /\ given' = given \ {p}
        /\ pc'[t] = "f_lock" \/ (pc'[t] = "r_lock" /\ moving'[t])
        /\ Others(t) /\ UNCHANGED <<mapped, new, old>>
    BY <1>2, <1>a DEF Free, Realloc, FreeFrom
  <2>2. new[t] = Null /\ ptr[t] = Null /\ old[t] = Null
    BY <2>1 DEF Calls
  <2>3. Calls'
    BY <2>1, <2>2 DEF Calls
  <2>4. Separate'
    BY <1>a, <2>1, <2>2 DEF Separate
  <2>5. QED
    BY <2>3, <2>4
<1>3. ASSUME NEW t \in Thread, MapFails(t) \/ ReallocCopy(t)
      PROVE  (Calls /\ Separate)'
  <2>1. /\ UNCHANGED <<mapped, given, new, old, moving>>
        /\ \/ UNCHANGED <<pc, ptr>>
           \/ pc'[t] = "f_lock" /\ ptr'[t] = old[t] /\ Others(t)
    BY <1>3, <1>a DEF MapFails, ReallocCopy, FreeFrom
  <2>2. CASE UNCHANGED <<pc, ptr>>
    BY <2>1, <2>2 DEF Calls, Separate
  <2>3. CASE ~UNCHANGED <<pc, ptr>>
    <3>1. ptr'[t] \in {Null, ptr[t]}
      BY <2>1, <2>3 DEF Calls
    <3>2. Calls'
      BY <2>1, <2>3 DEF Calls
    <3>3. Separate'
      BY <1>a, <2>1, <2>3, <3>1 DEF Separate
    <3>4. QED
      BY <3>2, <3>3
  <2>4. QED
    BY <2>2, <2>3
<1>4. ASSUME NEW t \in Thread, BecomeLast(t)
      PROVE  (Calls /\ Separate)'
  <2>1. /\ pc[t] = "a_link" /\ Others(t) /\ UNCHANGED <<mapped, ptr, old, moving>>
        /\ \/ moving[t] /\ pc'[t] = "r_copy" /\ UNCHANGED <<new, given>>
           \/ ~moving[t] /\ pc'[t] = "idle" /\ new'[t] = Null /\ given' = given \cup {new[t]}
    BY <1>4, <1>a DEF BecomeLast
  <2>2. Calls'
    BY <2>1 DEF Calls
  <2>3. new[t] # Null
    BY <1>4 DEF BecomeLast, Typing
  <2>4. Separate'
    BY <1>a, <2>1, <2>3 DEF Separate
  <2>5. QED
    BY <2>2, <2>4
<1>5. ASSUME NEW t \in Thread, FreeFound(t) \/ FreeNothing(t)
      PROVE  (Calls /\ Separate)'
  <2>1. /\ pc'[t] = "idle" /\ ptr'[t] = Null /\ new'[t] = Null /\ old'[t] = Null /\ Others(t)
        /\ given' = given \cup ({new[t]} \ {Null})
        /\ mapped' = mapped \/ (ptr[t] # Null /\ mapped' = mapped \ {ptr[t]})
    BY <1>5, <1>a DEF FreeFound, FreeNothing, Return
  <2>2. Calls'
    BY <2>1 DEF Calls
  <2>3. Separate'
    BY <1>a, <2>1 DEF Separate
  <2>4. QED
    BY <2>2, <2>3
<1>6. ASSUME NEW t \in Thread, ReallocLock(t) \/ ReallocStep(t)
      PROVE  (Calls /\ Separate)'
  <2>1. /\ pc'[t] = "r_walk" /\ pc[t] \in {"r_lock", "r_walk"} /\ Others(t)
        /\ old'[t] \in {Null, ptr[t], old[t]} /\ UNCHANGED <<mapped, given, ptr, new, moving>>
    BY <1>6, <1>a DEF ReallocLock, ReallocStep, Matches
  <2>2. Calls'
    BY <2>1 DEF Calls
  <2>3. Separate'
    BY <2>1 DEF Separate
  <2>4. QED
    BY <2>2, <2>3
<1>7. ASSUME NEW t \in Thread, LinkToLast(t) \/ FreeLock(t) \/ ReallocUnlock(t)
      PROVE  (Calls /\ Separate)'
  <2>1. /\ \/ pc[t] = "a_lock" /\ pc'[t] = "a_link"
           \/ pc[t] = "f_lock" /\ pc'[t] = "f_walk"
           \/ pc[t] = "r_walk" /\ pc'[t] = "a_map"
        /\ Others(t) /\ UNCHANGED <<mapped, given, ptr, new, old, moving>>
    BY <1>7, <1>a DEF LinkToLast, FreeLock, ReallocUnlock
  <2>2. QED
    BY <2>1 DEF Calls, Separate
<1>8. CASE \/ \E t \in Thread : FreeStep(t) \/ AllocFails(t) \/ Faults(t)
           \/ \E b \in Block, v \in Value : Write(b, v)
           \/ UNCHANGED vars
  <2>1. UNCHANGED <<mapped, given, pc, ptr, new, old, moving>>
    BY <1>8 DEF FreeStep, AllocFails, Faults, Write, vars
  <2>2. QED
    BY <2>1 DEF Calls, Separate
<1>9. QED
  BY <1>1, <1>2, <1>3, <1>4, <1>5, <1>6, <1>7, <1>8 DEF Next, Call, InCall

(* Every block has one owner, the program or one call, and is mapped for   *)
(* as long, whether or not calls meet inside the lock.                     *)
THEOREM OneOwner == Spec => []Apart
<1>1. Init => Calls /\ Separate
  BY DEF Init, Calls, Separate, Links
<1>2. Typing /\ (Calls /\ Separate) /\ [Next]_vars => (Calls /\ Separate)'
  BY SeparateKept
<1>3. Calls /\ Separate => Apart
  BY SeparateIsApart
<1> HIDE DEF Separate
<1>4. QED
  BY <1>1, <1>2, <1>3, ListInvariant, PTL DEF Spec

-----------------------------------------------------------------------------
(* Who has which block.  A call has its argument, ptr, and a block that it *)
(* linked for realloc, new; old is realloc's name for ptr.                 *)
Arguments ==
    \A t \in Thread :
        /\ pc[t] = "idle" => new[t] = Null /\ ptr[t] = Null /\ ~moving[t]
        /\ Links(t) /\ ~moving[t] => ptr[t] = Null
        /\ pc[t] \in {"r_lock", "r_walk", "a_map"} => moving[t] /\ new[t] = Null
        /\ pc[t] = "r_copy" => moving[t]
        /\ pc[t] \in {"f_lock", "f_walk"} /\ ~moving[t] => new[t] = Null
        /\ moving[t] /\ pc[t] \notin {"r_lock", "r_walk"} => old[t] = ptr[t]
        /\ pc[t] = "r_walk" => old[t] \in {Null, ptr[t]}

Owners ==
    /\ given \subseteq linked
    /\ \A t \in Thread : ptr[t] # Null => ptr[t] \in linked \ given
    /\ \A t \in Thread : new[t] # Null /\ ~Links(t) => new[t] \in linked \ given
    /\ \A t, u \in Thread : ptr[t] # Null => ptr[t] # new[u] /\ (t # u => ptr[t] # ptr[u])
    /\ \A t, u \in Thread : t # u /\ new[t] # Null => new[t] # new[u]
    /\ \A b \in linked \ given : \E t \in Thread : b \in {ptr[t], new[t]}
    /\ \A b \in mapped \ linked : \E t \in Thread : Links(t) /\ b = new[t]

(* A walk has not passed the block it looks for. *)
Ahead(t) == cur[t] # Null /\ (ptr[t] = cur[t] \/ <<ptr[t], cur[t]>> \in before)

Searching ==
    \A t \in Thread :
        /\ pc[t] = "f_walk" /\ ptr[t] # Null => Ahead(t)
        /\ pc[t] = "r_walk" /\ ptr[t] # Null => old[t] = ptr[t] \/ Ahead(t)
        /\ pc[t] = "r_walk" => cur[t] \in linked \cup {Null}

OwnerInv == ListInv /\ Arguments /\ Owners /\ Searching

(* What is in the blocks: zeros until the program has them, and in the one *)
(* that realloc returns what was in the old one.                           *)
Contents ==
    /\ \A b \in Block \ linked : content[b] = Zero
    /\ \A b \in mapped : size[b] # 0
    /\ \A t \in Thread :
          /\ pc[t] = "r_walk" \/ (moving[t] /\ pc[t] # "r_lock") =>
                (cursize[t] = 0 <=> old[t] = Null)
          /\ pc[t] = "r_copy" => content[new[t]] = Zero
          /\ moving[t] /\ pc[t] \in {"f_lock", "f_walk"} =>
                IF ptr[t] = Null THEN new[t] # Null => content[new[t]] = Zero
                ELSE new[t] # Null /\ content[new[t]] = content[ptr[t]]

-----------------------------------------------------------------------------
(* From the newest block every block is reached, and from each block the   *)
(* ones before it. *)
LEMMA LastAhead ==
    ASSUME Chained, NEW p \in linked
    PROVE  last \in linked /\ (p = last \/ <<p, last>> \in before)
BY DEF Chained, NewestOf

LEMMA PrevAhead ==
    ASSUME Chained, NEW b \in linked, NEW p \in linked, <<p, b>> \in before
    PROVE  prev[b] \in linked /\ (p = prev[b] \/ <<p, prev[b]>> \in before)
<1>1. p \in Before(b)
  BY DEF Before
<1>2. prev[b] \in Before(b) /\ \A c \in Before(b) : c = prev[b] \/ <<c, prev[b]>> \in before
  BY <1>1 DEF Chained, NewestOf
<1>3. QED
  BY <1>1, <1>2 DEF Before

(* With all the steps of a call one by one, the owners stay the same.      *)
LEMMA OwnersKept ==
    ASSUME OwnerInv, Alone, Alone', [Next]_vars
    PROVE  (Arguments /\ Owners /\ Searching)'
<1> USE NullAssumption DEF OwnerInv, ListInv, Typing, At, Goto, heap, ghosts, locals,
                          Links, Inside
<1>a. Null \notin linked /\ Null \notin mapped /\ linked \subseteq mapped
  BY DEF TypeOK, Chained
<1>b. pc \in [Thread -> Labels] /\ ptr \in [Thread -> Ptr] /\ new \in [Thread -> Ptr]
      /\ cur \in [Thread -> Ptr] /\ old \in [Thread -> Ptr] /\ moving \in [Thread -> BOOLEAN]
  BY DEF TypeOK
<1> DEFINE Others(t) ==
      \A u \in Thread \ {t} : /\ pc'[u] = pc[u] /\ ptr'[u] = ptr[u] /\ new'[u] = new[u]
                               /\ cur'[u] = cur[u] /\ old'[u] = old[u] /\ moving'[u] = moving[u]
<1>1. ASSUME NEW t \in Thread, NEW b \in Block, NEW n \in 1..MaxSize,
             Alloc(t, b, n) \/ ReallocMap(t, b, n)
      PROVE  (Arguments /\ Owners /\ Searching)'
  <2>1. /\ pc[t] \in {"idle", "a_map"} /\ pc'[t] = "a_lock" /\ new'[t] = b /\ new[t] = Null
        /\ b \notin mapped /\ mapped' = mapped \cup {b} /\ Others(t)
        /\ UNCHANGED <<linked, before, given, ptr, cur, old, moving>>
    BY <1>1, <1>b DEF Alloc, ReallocMap, Map, Arguments
  <2>2. Arguments'
    BY <2>1 DEF Arguments
  <2>3. Owners'
    BY <1>a, <2>1 DEF Owners, Unlinked
  <2>4. Searching'
    BY <2>1 DEF Searching, Ahead
  <2>5. QED
    BY <2>2, <2>3, <2>4
<1>2. ASSUME NEW t \in Thread, NEW p \in Ptr, Free(t, p) \/ Realloc(t, p)
      PROVE  (Arguments /\ Owners /\ Searching)'
  <2>1. /\ pc[t] = "idle" /\ ptr'[t] = p /\ p \in given \cup {Null} /\ given' = given \ {p}
        /\ (pc'[t] = "f_lock" /\ ~moving'[t]) \/ (pc'[t] = "r_lock" /\ moving'[t])
        /\ Others(t) /\ UNCHANGED <<mapped, linked, before, new, cur, old>>
    BY <1>2, <1>b DEF Free, Realloc, FreeFrom, Arguments
  <2>2. new[t] = Null /\ ptr[t] = Null
    BY <2>1 DEF Arguments
  <2>3. Arguments'
    BY <2>1, <2>2 DEF Arguments
  <2>4. Owners'
    <3>1. p # Null => p \in linked \ given' /\ \A u \in Thread : p # ptr[u] /\ p # new[u]
      BY <1>a, <2>1, <2>2 DEF Owners, Unlinked
    <3>2. \A b \in linked \ given' : \E u \in Thread : b \in {ptr'[u], new'[u]}
      <4>1. ASSUME NEW b \in linked, b \notin given'
            PROVE  \E u \in Thread : b \in {ptr'[u], new'[u]}
        <5>1. CASE b = p
          BY <2>1, <5>1
        <5>2. CASE b # p
          <6>1. PICK u \in Thread : b \in {ptr[u], new[u]}
            BY <2>1, <4>1, <5>2 DEF Owners
          <6>2. u # t
            BY <1>a, <2>2, <6>1
          <6>3. QED
            BY <2>1, <6>1, <6>2
        <5>3. QED
          BY <5>1, <5>2
      <4>2. QED
        BY <4>1
    <3>3. \A u \in Thread : Links(u)' <=> Links(u)
      BY <2>1
    <3>4. QED
      BY <1>a, <2>1, <2>2, <3>1, <3>2, <3>3 DEF Owners
  <2>5. Searching'
    BY <2>1 DEF Searching, Ahead
  <2>6. QED
    BY <2>3, <2>4, <2>5
<1>3. ASSUME NEW t \in Thread, AllocFails(t) \/ MapFails(t) \/ ReallocCopy(t)
      PROVE  (Arguments /\ Owners /\ Searching)'
  <2>1. /\ UNCHANGED <<mapped, linked, before, given, new, cur, old, moving>>
        /\ UNCHANGED <<pc, ptr>> \/ (/\ pc[t] \in {"a_map", "r_copy"} /\ pc'[t] = "f_lock"
                                     /\ ptr'[t] = old[t] /\ Others(t))
    BY <1>3, <1>b DEF AllocFails, MapFails, ReallocCopy, FreeFrom
  <2>2. CASE UNCHANGED <<pc, ptr>>
    BY <2>1, <2>2 DEF Arguments, Owners, Searching, Ahead
  <2>3. CASE ~UNCHANGED <<pc, ptr>>
    <3>1. moving[t] /\ ptr'[t] = ptr[t]
      BY <2>1, <2>3 DEF Arguments
    <3>2. \A u \in Thread : ptr'[u] = ptr[u]
      BY <2>1, <2>3, <3>1
    <3>3. Arguments' /\ Owners'
      BY <2>1, <2>3, <3>1, <3>2 DEF Arguments, Owners
    <3>4. Searching'
      BY <2>1, <2>3, <3>2 DEF Searching, Ahead
    <3>5. QED
      BY <3>3, <3>4
  <2>4. QED
    BY <2>2, <2>3
<1>4. ASSUME NEW t \in Thread, LinkToLast(t)
      PROVE  (Arguments /\ Owners /\ Searching)'
  <2>1. /\ pc[t] = "a_lock" /\ pc'[t] = "a_link" /\ Others(t)
        /\ UNCHANGED <<mapped, linked, before, given, ptr, new, cur, old, moving>>
    BY <1>4, <1>b DEF LinkToLast
  <2>2. Arguments' /\ Owners'
    BY <2>1 DEF Arguments, Owners
  <2>3. Searching'
    BY <2>1 DEF Searching, Ahead
  <2>4. QED
    BY <2>2, <2>3
<1>5. ASSUME NEW t \in Thread, BecomeLast(t)
      PROVE  (Arguments /\ Owners /\ Searching)'
  <2>1. /\ pc[t] = "a_link" /\ linked' = linked \cup {new[t]} /\ Others(t)
        /\ new[t] \in mapped \ linked /\ new[t] # Null
        /\ UNCHANGED <<mapped, ptr, cur, old, moving>>
        /\ \/ moving[t] /\ pc'[t] = "r_copy" /\ UNCHANGED <<new, given>>
           \/ ~moving[t] /\ pc'[t] = "idle" /\ new'[t] = Null /\ given' = given \cup {new[t]}
    BY <1>5, <1>a, <1>b DEF BecomeLast, Unlinked
  <2>2. Arguments'
    BY <2>1 DEF Arguments
  <2>3. Owners'
    BY <1>a, <2>1 DEF Owners, Unlinked, Arguments
  <2>4. \A u \in Thread : pc'[u] \notin {"f_walk", "r_walk"}
    BY <1>5, <2>1 DEF BecomeLast, Locked
  <2>5. QED
    BY <2>2, <2>3, <2>4 DEF Searching
<1>6. ASSUME NEW t \in Thread, FreeLock(t) \/ ReallocLock(t)
      PROVE  (Arguments /\ Owners /\ Searching)'
  <2>1. /\ \/ pc[t] = "f_lock" /\ pc'[t] = "f_walk" /\ old'[t] = old[t]
           \/ pc[t] = "r_lock" /\ pc'[t] = "r_walk" /\ old'[t] = Null
        /\ cur'[t] = last /\ Others(t)
        /\ UNCHANGED <<mapped, linked, before, given, ptr, new, moving>>
    BY <1>6, <1>b DEF FreeLock, ReallocLock
  <2>2. Arguments' /\ Owners'
    BY <2>1 DEF Arguments, Owners
  <2>3. ptr[t] # Null => Ahead(t)'
    BY <1>a, <2>1, LastAhead DEF Ahead, Owners
  <2>4. last \in linked \cup {Null}
    BY DEF Chained, NewestOf
  <2>5. Searching'
    BY <2>1, <2>3, <2>4 DEF Searching, Ahead
  <2>6. QED
    BY <2>2, <2>5
<1>7. ASSUME NEW t \in Thread, FreeStep(t)
      PROVE  (Arguments /\ Owners /\ Searching)'
  <2>1. /\ pc[t] = "f_walk" /\ cur[t] # ptr[t] /\ cur'[t] = prev[cur[t]] /\ Others(t)
        /\ UNCHANGED <<mapped, linked, before, given, pc, ptr, new, old, moving>>
    BY <1>7, <1>b DEF FreeStep
  <2>2. Arguments' /\ Owners'
    BY <2>1 DEF Arguments, Owners
  <2>3. cur[t] \in linked
    BY <1>7 DEF FreeStep, Walking
  <2>4. ptr[t] # Null => Ahead(t)'
    BY <1>a, <2>1, <2>3, PrevAhead DEF Ahead, Searching, Owners
  <2>5. Searching'
    BY <2>1, <2>4 DEF Searching, Ahead
  <2>6. QED
    BY <2>2, <2>5
<1>8. ASSUME NEW t \in Thread, FreeFound(t)
      PROVE  (Arguments /\ Owners /\ Searching)'
  <2>1. /\ pc[t] = "f_walk" /\ pc'[t] = "idle" /\ Others(t)
        /\ ptr'[t] = Null /\ new'[t] = Null /\ ~moving'[t]
        /\ given' = given \cup ({new[t]} \ {Null})
        /\ linked' = linked \ {ptr[t]} /\ mapped' = mapped \ {ptr[t]} /\ ptr[t] # Null
    BY <1>8, <1>b DEF FreeFound, Return
  <2>2. Arguments'
    BY <2>1 DEF Arguments
  <2>3. Owners'
    BY <1>a, <2>1 DEF Owners
  <2>4. \A u \in Thread : pc'[u] \notin {"f_walk", "r_walk"}
    BY <2>1 DEF Locked
  <2>5. QED
    BY <2>2, <2>3, <2>4 DEF Searching
<1>9. ASSUME NEW t \in Thread, FreeNothing(t)
      PROVE  (Arguments /\ Owners /\ Searching)'
  <2>1. /\ pc[t] = "f_walk" /\ pc'[t] = "idle" /\ Others(t)
        /\ ptr'[t] = Null /\ new'[t] = Null /\ ~moving'[t] /\ cur[t] = Null
        /\ given' = given \cup ({new[t]} \ {Null})
        /\ UNCHANGED <<mapped, linked, before>>
    BY <1>9, <1>b DEF FreeNothing, Return
  <2>2. ptr[t] = Null
    BY <2>1 DEF Searching, Ahead
  <2>3. Arguments'
    BY <2>1 DEF Arguments
  <2>4. Owners'
    BY <1>a, <2>1, <2>2 DEF Owners
  <2>5. Searching'
    BY <2>1 DEF Searching, Ahead
  <2>6. QED
    BY <2>3, <2>4, <2>5
<1>10. ASSUME NEW t \in Thread, ReallocStep(t)
       PROVE  (Arguments /\ Owners /\ Searching)'
  <2>1. /\ pc[t] = "r_walk" /\ cur[t] # Null /\ cur'[t] = prev[cur[t]] /\ Others(t)
        /\ old'[t] = IF cur[t] = ptr[t] THEN ptr[t] ELSE old[t]
        /\ UNCHANGED <<mapped, linked, before, given, pc, ptr, new, moving>>
    BY <1>10, <1>b DEF ReallocStep, Matches
  <2>2. Arguments' /\ Owners'
    BY <2>1 DEF Arguments, Owners
  <2>3. cur[t] \in linked
    BY <2>1 DEF Searching
  <2>4. prev[cur[t]] \in linked \cup {Null}
    BY <2>3, PrevInList
  <2>5. ptr[t] # Null => old'[t] = ptr[t] \/ Ahead(t)'
    BY <1>a, <2>1, <2>3, PrevAhead DEF Ahead, Searching, Owners
  <2>6. Searching'
    BY <2>1, <2>4, <2>5 DEF Searching, Ahead
  <2>7. QED
    BY <2>2, <2>6
<1>11. ASSUME NEW t \in Thread, ReallocUnlock(t)
       PROVE  (Arguments /\ Owners /\ Searching)'
  <2>1. /\ pc[t] = "r_walk" /\ pc'[t] = "a_map" /\ cur[t] = Null /\ Others(t)
        /\ UNCHANGED <<mapped, linked, before, given, ptr, new, cur, old, moving>>
    BY <1>11, <1>b DEF ReallocUnlock
  <2>2. old[t] = ptr[t]
    BY <2>1 DEF Searching, Ahead, Arguments
  <2>3. Arguments' /\ Owners'
    BY <2>1, <2>2 DEF Arguments, Owners
  <2>4. Searching'
    BY <2>1 DEF Searching, Ahead
  <2>5. QED
    BY <2>3, <2>4
<1>12. CASE \/ \E b \in Block, v \in Value : Write(b, v)
            \/ \E t \in Thread : Faults(t)
            \/ UNCHANGED vars
  <2>1. UNCHANGED <<mapped, linked, before, given, pc, locals>>
    BY <1>12 DEF Write, Faults, vars
  <2>2. QED
    BY <2>1 DEF Arguments, Owners, Searching, Ahead
<1>13. QED
  BY <1>1, <1>2, <1>3, <1>4, <1>5, <1>6, <1>7, <1>8, <1>9, <1>10, <1>11, <1>12
     DEF Next, Call, InCall

(* Who has which block is decided at every moment, for any number of       *)
(* threads and blocks, as long as no two of them have met inside the lock. *)
THEOREM OwnerInvariant == Spec => [](Alone => OwnerInv)
<1> DEFINE Rest == Arguments /\ Owners /\ Searching
<1>1. Init => (Alone => Rest)
  BY DEF Init, Arguments, Owners, Searching, Links
<1>2. Typing /\ (Alone => ListInv) /\ (Alone => Rest) /\ [Next]_vars
        => (Alone => Rest)'
  BY AloneBefore, OwnersKept DEF OwnerInv
<1>3. (Alone => ListInv) /\ (Alone => Rest) => (Alone => OwnerInv)
  BY DEF OwnerInv
<1> HIDE DEF Rest
<1>4. QED
  BY <1>1, <1>2, <1>3, ListInvariant, PTL DEF Spec

(* No block is freed under its owner, and as long as no two calls have met *)
(* inside the lock none is lost: every mapped block is the program's or in *)
(* the hands of exactly one call.                                          *)
COROLLARY NeverLost == Spec => []NothingLost
<1>1. OwnerInv => Kept
  <2> SUFFICES ASSUME OwnerInv
               PROVE  Kept
    OBVIOUS
  <2> USE NullAssumption DEF OwnerInv, ListInv, Typing, Links
  <2>1. Null \notin linked /\ linked \subseteq mapped
    BY DEF TypeOK, Chained
  <2>2. \A t \in Thread : /\ Passed(t) \ {Null} = {ptr[t]} \ {Null}
                          /\ Moved(t) \ {Null} = IF Links(t) THEN {} ELSE {new[t]} \ {Null}
    <3> SUFFICES ASSUME NEW t \in Thread
                 PROVE  /\ Passed(t) \ {Null} = {ptr[t]} \ {Null}
                        /\ Moved(t) \ {Null} = IF Links(t) THEN {} ELSE {new[t]} \ {Null}
      OBVIOUS
    <3>1. pc[t] \in Labels
      BY DEF TypeOK
    <3>2. QED
      BY <3>1 DEF Labels, Passed, Moved, Arguments
  <2>3. \A b : b \in InCalls <=> b # Null /\ \E t \in Thread : b = ptr[t] \/ (b = new[t] /\ ~Links(t))
    <3>1. ASSUME NEW b
          PROVE  b \in InCalls <=> \E t \in Thread : b \in Moved(t) \ {Null} \/ b \in Passed(t) \ {Null}
      BY DEF InCalls
    <3>2. QED
      BY <2>2, <3>1
  <2>4. linked = given \cup InCalls /\ given \cap InCalls = {}
    BY <2>1, <2>3 DEF Owners, Unlinked
  <2>5. mapped = linked \cup UNION {Linking(t) : t \in Thread}
    BY <2>1 DEF Owners, Unlinked, Linking
  <2>6. QED
    BY <2>4, <2>5 DEF Kept
<1>2. Apart /\ (Alone => OwnerInv) => NothingLost
  BY <1>1 DEF Alone, NothingLost
<1>3. QED
  BY <1>2, OneOwner, OwnerInvariant, PTL

-----------------------------------------------------------------------------
(* What the blocks contain is preserved by every step. *)
LEMMA ContentsKept ==
    ASSUME OwnerInv, OwnerInv', Contents, [Next]_vars
    PROVE  Contents'
<1> USE NullAssumption DEF OwnerInv, ListInv, Typing, At, Goto, heap, ghosts, locals,
                          Links, Inside
<1>a. Null \notin linked /\ Null \notin mapped /\ linked \subseteq mapped
  BY DEF TypeOK, Chained
<1>b. pc \in [Thread -> Labels] /\ ptr \in [Thread -> Ptr] /\ new \in [Thread -> Ptr]
      /\ old \in [Thread -> Ptr] /\ moving \in [Thread -> BOOLEAN]
      /\ cursize \in [Thread -> 0..MaxSize] /\ content \in [Block -> Value]
      /\ size \in [Block -> 0..MaxSize] /\ mapped \subseteq Block
  BY DEF TypeOK
<1> DEFINE Others(t) ==
      \A u \in Thread \ {t} : /\ pc'[u] = pc[u] /\ ptr'[u] = ptr[u] /\ new'[u] = new[u]
                               /\ cursize'[u] = cursize[u] /\ old'[u] = old[u]
                               /\ moving'[u] = moving[u]
<1>1. ASSUME NEW t \in Thread, NEW b \in Block, NEW n \in 1..MaxSize,
             Alloc(t, b, n) \/ ReallocMap(t, b, n)
      PROVE  Contents'
  <2>1. /\ pc[t] \in {"idle", "a_map"} /\ pc'[t] = "a_lock" /\ Others(t)
        /\ b \notin mapped /\ mapped' = mapped \cup {b} /\ size' = [size EXCEPT ![b] = n]
        /\ UNCHANGED <<linked, content, ptr, old, cursize, moving>>
    BY <1>1, <1>b DEF Alloc, ReallocMap, Map, Stored
  <2>2. \A c \in mapped' : size'[c] # 0
    BY <1>b, <2>1 DEF Contents
  <2>3. moving[t] => pc[t] = "a_map"
    BY <2>1 DEF Arguments
  <2>4. QED
    BY <2>1, <2>2, <2>3 DEF Contents
<1>2. ASSUME NEW t \in Thread, NEW p \in Ptr, Free(t, p) \/ Realloc(t, p)
      PROVE  Contents'
  <2>1. /\ (pc'[t] = "f_lock" /\ ~moving'[t]) \/ (pc'[t] = "r_lock" /\ moving'[t])
        /\ Others(t) /\ UNCHANGED <<mapped, linked, content, size>>
    BY <1>2, <1>b DEF Free, Realloc, FreeFrom, Arguments
  <2>2. QED
    BY <2>1 DEF Contents
<1>3. ASSUME NEW t \in Thread, AllocFails(t) \/ MapFails(t)
      PROVE  Contents'
  <2>1. UNCHANGED <<mapped, linked, content, size, new, old, cursize, moving>>
    BY <1>3 DEF AllocFails, MapFails
  <2>2. CASE UNCHANGED <<pc, ptr>>
    BY <2>1, <2>2 DEF Contents
  <2>3. CASE ~UNCHANGED <<pc, ptr>>
    <3>1. /\ pc[t] = "a_map" /\ pc'[t] = "f_lock" /\ cursize[t] = 0 /\ Others(t)
          /\ ptr'[t] = old[t]
      BY <1>3, <1>b, <2>3 DEF AllocFails, MapFails, FreeFrom
    <3>2. moving[t] /\ new[t] = Null /\ old[t] = Null
      BY <3>1 DEF Arguments, Contents
    <3>3. QED
      BY <2>1, <3>1, <3>2 DEF Contents
  <2>4. QED
    BY <2>2, <2>3
<1>4. ASSUME NEW t \in Thread, ReallocCopy(t)
      PROVE  Contents'
  <2>1. /\ pc[t] = "r_copy" /\ pc'[t] = "f_lock" /\ ptr'[t] = old[t] /\ Others(t)
        /\ content' = [content EXCEPT ![new[t]] = Copied(t)]
        /\ UNCHANGED <<mapped, linked, size, new, old, cursize, moving>>
    BY <1>4, <1>b DEF ReallocCopy, FreeFrom
  <2>2. moving[t] /\ old[t] = ptr[t] /\ new[t] \in linked /\ new[t] \in Block
    BY <1>a, <1>b, <2>1 DEF Arguments, Owners
  <2>3. content'[new[t]] = IF old[t] = Null THEN Zero ELSE content[old[t]]
    BY <1>b, <2>1, <2>2 DEF Contents, Copied
  <2>4. \A b \in Block : b # new[t] => content'[b] = content[b]
    BY <1>b, <2>1
  <2>5. \A u \in Thread \ {t} : new[u] # Null => new[u] # new[t]
    BY DEF Owners
  <2>6. \A u \in Thread : ptr[u] # Null => ptr[u] # new[t]
    BY DEF Owners
  <2>7. \A u \in Thread : pc[u] = "r_copy" => new[u] \in Block
    OBVIOUS
  <2>8. \A u \in Thread \ {t} :
          /\ new[u] # Null => content'[new[u]] = content[new[u]]
          /\ ptr[u] # Null => content'[ptr[u]] = content[ptr[u]]
    BY <1>b, <2>4, <2>5, <2>6 DEF Ptr
  <2>9. ptr[t] # Null => content'[ptr[t]] = content[ptr[t]]
    BY <1>b, <2>4, <2>6 DEF Ptr
  <2>10. \A u \in Thread : /\ pc'[u] = "r_copy" => content'[new[u]] = Zero
                           /\ moving[u] /\ pc'[u] \in {"f_lock", "f_walk"} =>
                                IF ptr'[u] = Null THEN new[u] # Null => content'[new[u]] = Zero
                                ELSE new[u] # Null /\ content'[new[u]] = content'[ptr'[u]]
    <3>1. ASSUME NEW u \in Thread, u # t
          PROVE  /\ pc'[u] = "r_copy" => content'[new[u]] = Zero
                 /\ moving[u] /\ pc'[u] \in {"f_lock", "f_walk"} =>
                      IF ptr'[u] = Null THEN new[u] # Null => content'[new[u]] = Zero
                      ELSE new[u] # Null /\ content'[new[u]] = content'[ptr'[u]]
      BY <2>1, <2>7, <2>8, <3>1 DEF Contents
    <3>2. QED
      BY <1>a, <2>1, <2>2, <2>3, <2>9, <3>1
  <2>11. \A b \in Block \ linked : content'[b] = Zero
    BY <2>2, <2>4 DEF Contents
  <2>12. QED
    BY <2>1, <2>10, <2>11 DEF Contents
<1>5. ASSUME NEW t \in Thread, LinkToLast(t)
      PROVE  Contents'
  <2>1. /\ pc[t] = "a_lock" /\ pc'[t] = "a_link" /\ Others(t)
        /\ UNCHANGED <<mapped, linked, content, size>> /\ UNCHANGED <<ptr, new, old, cursize, moving>>
    BY <1>5, <1>b DEF LinkToLast
  <2>2. QED
    BY <2>1 DEF Contents
<1>6. ASSUME NEW t \in Thread, BecomeLast(t)
      PROVE  Contents'
  <2>1. /\ pc[t] = "a_link" /\ linked' = linked \cup {new[t]} /\ Others(t)
        /\ new[t] \in Block \ linked
        /\ UNCHANGED <<mapped, content, size, ptr, old, cursize, moving>>
        /\ \/ pc'[t] = "idle" /\ ~moving[t]
           \/ pc'[t] = "r_copy" /\ moving[t] /\ new' = new
    BY <1>6, <1>b DEF BecomeLast, Unlinked
  <2>2. QED
    BY <2>1 DEF Contents
<1>7. ASSUME NEW t \in Thread, FreeLock(t) \/ ReallocLock(t)
      PROVE  Contents'
  <2>1. /\ \/ pc[t] = "f_lock" /\ pc'[t] = "f_walk" /\ UNCHANGED <<old, cursize>>
           \/ pc[t] = "r_lock" /\ pc'[t] = "r_walk" /\ old'[t] = Null /\ cursize'[t] = 0
        /\ Others(t) /\ UNCHANGED <<mapped, linked, content, size, ptr, new, moving>>
    BY <1>7, <1>b DEF FreeLock, ReallocLock
  <2>2. QED
    BY <2>1 DEF Contents
<1>8. ASSUME NEW t \in Thread, FreeFound(t)
      PROVE  Contents'
  <2>1. /\ pc'[t] = "idle" /\ ~moving'[t] /\ Others(t) /\ ptr[t] # Null
        /\ linked' = linked \ {ptr[t]} /\ mapped' = mapped \ {ptr[t]}
        /\ size' = [size EXCEPT ![ptr[t]] = 0]
        /\ content' = [content EXCEPT ![ptr[t]] = Zero]
    BY <1>8, <1>b DEF FreeFound, Return
  <2>2. ptr[t] \in Block
    BY <1>b, <2>1 DEF Ptr
  <2>3. /\ \A b \in Block : content'[b] = IF b = ptr[t] THEN Zero ELSE content[b]
        /\ \A b \in mapped' : size'[b] = size[b]
    BY <1>b, <2>1, <2>2
  <2>4. \A u \in Thread \ {t} :
          /\ new[u] # Null => content'[new[u]] = content[new[u]]
          /\ ptr[u] # Null => content'[ptr[u]] = content[ptr[u]]
    BY <1>b, <2>1, <2>3 DEF Owners, Ptr
  <2>5. \A u \in Thread : pc[u] = "r_copy" => new[u] # Null
    OBVIOUS
  <2>6. QED
    BY <1>a, <2>1, <2>2, <2>3, <2>4, <2>5 DEF Contents
<1>9. ASSUME NEW t \in Thread, FreeNothing(t)
      PROVE  Contents'
  <2>1. /\ pc'[t] = "idle" /\ ~moving'[t] /\ Others(t)
        /\ UNCHANGED <<mapped, linked, content, size>>
    BY <1>9, <1>b DEF FreeNothing, Return
  <2>2. QED
    BY <2>1 DEF Contents
<1>10. ASSUME NEW t \in Thread, ReallocStep(t)
       PROVE  Contents'
  <2>1. /\ pc[t] = "r_walk" /\ Others(t)
        /\ \/ old'[t] = cur[t] /\ cursize'[t] = size[cur[t]]
           \/ old'[t] = old[t] /\ cursize'[t] = cursize[t]
        /\ UNCHANGED <<mapped, linked, content, size, pc, ptr, new, moving>>
    BY <1>10, <1>b DEF ReallocStep
  <2>2. cur[t] # Null /\ cur[t] \in mapped
    BY <1>10, <1>a DEF ReallocStep, Searching
  <2>3. cursize'[t] = 0 <=> old'[t] = Null
    BY <2>1, <2>2 DEF Contents
  <2>4. QED
    BY <2>1, <2>3 DEF Contents
<1>11. ASSUME NEW t \in Thread, ReallocUnlock(t)
       PROVE  Contents'
  <2>1. /\ pc[t] = "r_walk" /\ pc'[t] = "a_map" /\ Others(t)
        /\ UNCHANGED <<mapped, linked, content, size, ptr, new, old, cursize, moving>>
    BY <1>11, <1>b DEF ReallocUnlock
  <2>2. QED
    BY <2>1 DEF Contents
<1>12. ASSUME NEW b \in Block, NEW v \in Value, Write(b, v)
       PROVE  Contents'
  <2>1. /\ b \in given /\ b \in linked
        /\ \A c \in Block : c # b => content'[c] = content[c]
        /\ UNCHANGED <<mapped, linked, size, pc, locals>>
    BY <1>12, <1>b DEF Write, Owners
  <2>2. \A u \in Thread :
          /\ new[u] # Null => content'[new[u]] = content[new[u]]
          /\ ptr[u] # Null => content'[ptr[u]] = content[ptr[u]]
    BY <1>b, <2>1 DEF Owners, Unlinked, Ptr
  <2>3. \A u \in Thread : pc[u] = "r_copy" => new[u] # Null
    OBVIOUS
  <2>4. QED
    BY <2>1, <2>2, <2>3 DEF Contents
<1>13. CASE (\E t \in Thread : FreeStep(t) \/ Faults(t)) \/ UNCHANGED vars
  <2>1. UNCHANGED <<mapped, linked, content, size, pc, ptr, new, old, cursize, moving>>
    BY <1>13 DEF vars, FreeStep, Faults
  <2>2. QED
    BY <2>1 DEF Contents
<1>14. QED
  BY <1>1, <1>2, <1>3, <1>4, <1>5, <1>6, <1>7, <1>8, <1>9, <1>10, <1>11, <1>12, <1>13
     DEF Next, Call, InCall

(* What realloc gives out holds what the old block held, as long as no two *)
(* calls have met inside the lock. *)
THEOREM ContentsInvariant == Spec => [](Alone => Contents)
<1>1. Init => Contents
  BY DEF Init, Contents
<1>2. Typing /\ (Alone => OwnerInv) /\ (Alone => OwnerInv)' /\ (Alone => Contents)
          /\ [Next]_vars
        => (Alone => Contents)'
  BY AloneBefore, ContentsKept
<1>3. QED
  BY <1>1, <1>2, ListInvariant, OwnerInvariant, PTL DEF Spec

-----------------------------------------------------------------------------
(* What a step of Heap does to the blocks the program has.                 *)
Same(S) == \A b \in S : content'[b] = content[b]

LEMMA Stutters ==
    ASSUME Owned' = Owned, Same(Owned)
    PROVE  [H!Next]_Store
BY DEF Same, Store

LEMMA GivesOne ==
    ASSUME NEW b \in Block, b \notin Owned, Owned' = Owned \cup {b}, content'[b] = Zero,
           Same(Owned)
    PROVE  H!Next
<1>1. H!Alloc(b)
  BY DEF Store, H!Alloc, H!With, Same
<1>2. QED
  BY <1>1 DEF H!Next

LEMMA TakesOne ==
    ASSUME NEW b \in Block, b \in Owned, Owned' = Owned \ {b}, Same(Owned')
    PROVE  H!Next
<1>1. H!Free(b)
  BY DEF Store, H!Free, H!Without, Same
<1>2. QED
  BY <1>1 DEF H!Next

LEMMA MovesOne ==
    ASSUME NEW b \in Block, NEW c \in Block, b \in Owned, c \notin Owned,
           Owned' = (Owned \ {b}) \cup {c}, content'[c] = content[b], Same(Owned \ {b})
    PROVE  H!Next
<1>1. H!Move(b, c)
  BY DEF Store, H!Move, H!With, H!Without, Same
<1>2. QED
  BY <1>1 DEF H!Next

(* Whatever realloc is moving is still its argument. *)
OwnedBlocks ==
    /\ \A b : b \in Owned <=> /\ b # Null
                              /\ b \in given \/ \E t \in Thread : moving[t] /\ b = ptr[t]
    /\ Owned \subseteq linked

LEMMA WhatIsOwned == OwnerInv => OwnedBlocks
<1> SUFFICES ASSUME OwnerInv
             PROVE  OwnedBlocks
  OBVIOUS
<1> USE DEF OwnerInv, ListInv, Typing, Links
<1>1. \A t \in Thread : pc[t] \in Labels
  BY DEF TypeOK
<1>2. \A t \in Thread : moving[t] <=> t \in Moving
  BY DEF Moving, Arguments
<1>3. \A t \in Moving : Source(t) = ptr[t]
  BY <1>1 DEF Moving, Source, Arguments
<1>4. \A b : b \in Owned <=> /\ b # Null
                             /\ b \in given \/ \E t \in Thread : moving[t] /\ b = ptr[t]
  BY <1>2, <1>3 DEF Owned, Moving
<1>5. QED
  BY <1>4 DEF Owners, OwnedBlocks

(* Every step of the allocator is a step of the heap or none of its        *)
(* business.                                                               *)
LEMMA StepImplements ==
    ASSUME OwnerInv, OwnerInv', Contents, [Next]_vars
    PROVE  [H!Next]_Store
<1>0. OwnedBlocks /\ OwnedBlocks'
  BY WhatIsOwned, PTL
<1> USE NullAssumption DEF OwnerInv, ListInv, Typing, At, Goto, heap, ghosts, locals,
                          Links, Inside
<1>a. Null \notin linked /\ Null \notin mapped /\ linked \subseteq mapped
  BY DEF TypeOK, Chained
<1>b. pc \in [Thread -> Labels] /\ ptr \in [Thread -> Ptr] /\ new \in [Thread -> Ptr]
      /\ old \in [Thread -> Ptr] /\ moving \in [Thread -> BOOLEAN]
      /\ content \in [Block -> Value] /\ mapped \subseteq Block
  BY DEF TypeOK
<1>c. /\ \A b : b \in Owned <=> /\ b # Null
                                /\ b \in given \/ \E t \in Thread : moving[t] /\ b = ptr[t]
      /\ Owned \subseteq linked
  BY <1>0 DEF OwnedBlocks
<1>d. \A b : b \in Owned' <=> /\ b # Null
                              /\ b \in given' \/ \E t \in Thread : moving'[t] /\ b = ptr'[t]
  BY <1>0 DEF OwnedBlocks
<1>e. UNCHANGED <<given, ptr, moving>> => Owned' = Owned
  BY <1>c, <1>d
<1> DEFINE Others(t) ==
      \A u \in Thread \ {t} : ptr'[u] = ptr[u] /\ moving'[u] = moving[u]
<1>1. CASE UNCHANGED <<given, ptr, moving, content>>
  BY <1>1, <1>e, Stutters DEF Same
<1>2. ASSUME NEW t \in Thread, MapFails(t)
      PROVE  UNCHANGED <<given, ptr, moving, content>>
  <2>1. pc[t] = "a_map" /\ (ptr' = ptr \/ ptr' = [ptr EXCEPT ![t] = old[t]])
    BY <1>2 DEF MapFails, FreeFrom
  <2>2. old[t] = ptr[t]
    BY <2>1 DEF Arguments
  <2>3. QED
    BY <1>2, <1>b, <2>1, <2>2 DEF MapFails
<1>3. ASSUME NEW t \in Thread, ReallocCopy(t)
      PROVE  Owned' = Owned /\ Same(Owned)
  <2>1. /\ pc[t] = "r_copy" /\ ptr' = [ptr EXCEPT ![t] = old[t]]
        /\ content' = [content EXCEPT ![new[t]] = Copied(t)] /\ UNCHANGED <<given, moving>>
    BY <1>3 DEF ReallocCopy, FreeFrom
  <2>2. old[t] = ptr[t]
    BY <2>1 DEF Arguments
  <2>3. new[t] \in Block /\ new[t] \notin given
    BY <1>b, <2>1 DEF Owners, Ptr
  <2>4. new[t] \notin Owned
    BY <1>c, <2>3 DEF Owners
  <2>5. \A b \in Block : b # new[t] => content'[b] = content[b]
    BY <1>b, <2>1
  <2>6. ptr' = ptr
    BY <1>b, <2>1, <2>2
  <2>7. QED
    BY <1>a, <1>b, <1>c, <1>e, <2>1, <2>4, <2>5, <2>6 DEF Same
<1>4. ASSUME NEW t \in Thread, BecomeLast(t), ~moving[t]
      PROVE  H!Next
  <2>1. /\ pc[t] = "a_link" /\ given' = given \cup {new[t]}
        /\ UNCHANGED <<ptr, moving, content>>
    BY <1>4 DEF BecomeLast
  <2>2. new[t] \in mapped \ linked /\ new[t] \in Block
    BY <1>b, <2>1 DEF Unlinked
  <2>3. content[new[t]] = Zero
    BY <2>2 DEF Contents
  <2>4. Owned' = Owned \cup {new[t]}
    BY <1>a, <1>c, <1>d, <2>1, <2>2
  <2>5. QED
    BY <1>c, <2>1, <2>2, <2>3, <2>4, GivesOne DEF Same
<1>5. ASSUME NEW t \in Thread, NEW p \in Ptr, Free(t, p)
      PROVE  H!Next \/ (Owned' = Owned /\ Same(Owned))
  <2>1. /\ pc[t] = "idle" /\ p \in given \cup {Null} /\ given' = given \ {p}
        /\ UNCHANGED <<moving, content>> /\ Others(t)
    BY <1>5, <1>b DEF Free, FreeFrom
  <2>2. ~moving[t] /\ ~moving'[t]
    BY <2>1 DEF Arguments
  <2>3. CASE p = Null
    BY <1>c, <1>d, <2>1, <2>2, <2>3 DEF Same
  <2>4. CASE p # Null
    <3>1. p \in given /\ p \in Block /\ \A u \in Thread : p # ptr[u]
      BY <1>a, <1>b, <2>1, <2>4 DEF Owners
    <3>2. p \in Owned /\ Owned' = Owned \ {p}
      BY <1>c, <1>d, <2>1, <2>2, <2>4, <3>1
    <3>3. QED
      BY <2>1, <3>1, <3>2, TakesOne DEF Same
  <2>5. QED
    BY <2>3, <2>4
<1>6. ASSUME NEW t \in Thread, NEW p \in Ptr, Realloc(t, p)
      PROVE  Owned' = Owned /\ Same(Owned)
  <2>1. /\ pc[t] = "idle" /\ p \in given \cup {Null} /\ given' = given \ {p}
        /\ ptr'[t] = p /\ moving'[t] /\ content' = content /\ Others(t)
    BY <1>6, <1>b DEF Realloc
  <2>2. ~moving[t]
    BY <2>1 DEF Arguments
  <2>3. Owned' = Owned
    BY <1>c, <1>d, <2>1, <2>2
  <2>4. QED
    BY <2>1, <2>3 DEF Same
<1>7. ASSUME NEW t \in Thread, FreeFound(t)
      PROVE  H!Next \/ (Owned' = Owned /\ Same(Owned))
  <2>1. /\ pc[t] = "f_walk" /\ ptr[t] # Null /\ ~moving'[t] /\ ptr'[t] = Null
        /\ given' = given \cup ({new[t]} \ {Null}) /\ Others(t)
        /\ content' = [content EXCEPT ![ptr[t]] = Zero]
    BY <1>7, <1>b DEF FreeFound, Return
  <2>2. /\ ptr[t] \in Block /\ ptr[t] \notin given /\ ptr[t] # new[t]
        /\ \A u \in Thread \ {t} : ptr[t] # ptr[u]
    BY <1>b, <2>1 DEF Owners, Ptr
  <2>3. \A b \in Block : b # ptr[t] => content'[b] = content[b]
    BY <1>b, <2>1, <2>2
  <2>4. CASE ~moving[t]
    <3>1. new[t] = Null
      BY <2>1, <2>4 DEF Arguments
    <3>2. ptr[t] \notin Owned
      BY <1>c, <2>2, <2>4
    <3>3. \A u \in Thread : moving'[u] /\ ptr'[u] # Null <=> moving[u] /\ ptr[u] # Null
      BY <2>1, <2>4
    <3>4. \A b : b \in Owned' <=> b \in Owned
      BY <1>c, <1>d, <2>1, <2>4, <3>1, <3>3
    <3>5. Owned' = Owned /\ Owned \subseteq Block
      BY <1>a, <1>b, <1>c, <3>4
    <3>6. QED
      BY <2>3, <3>2, <3>5, Zenon DEF Same
  <2>5. CASE moving[t]
    <3>1. new[t] # Null /\ content[new[t]] = content[ptr[t]]
      BY <2>1, <2>5 DEF Contents
    <3>2. new[t] \in Block /\ new[t] \notin given /\ \A u \in Thread : ptr[u] # new[t]
      BY <1>b, <2>1, <3>1 DEF Owners, Ptr
    <3>3. ptr[t] \in Owned /\ new[t] \notin Owned
      BY <1>c, <2>1, <2>5, <3>2
    <3>4. Owned' = (Owned \ {ptr[t]}) \cup {new[t]}
      BY <1>c, <1>d, <2>1, <2>2, <2>5, <3>1
    <3>5. Same(Owned \ {ptr[t]}) /\ content'[new[t]] = content[ptr[t]]
      BY <1>a, <1>b, <1>c, <2>2, <2>3, <3>1, <3>2 DEF Same
    <3>6. QED
      BY <2>2, <3>2, <3>3, <3>4, <3>5, MovesOne
  <2>6. QED
    BY <2>4, <2>5
<1>8. ASSUME NEW t \in Thread, FreeNothing(t)
      PROVE  H!Next \/ (Owned' = Owned /\ Same(Owned))
  <2>1. /\ pc[t] = "f_walk" /\ cur[t] = Null /\ ~moving'[t] /\ ptr'[t] = Null
        /\ given' = given \cup ({new[t]} \ {Null}) /\ Others(t) /\ content' = content
    BY <1>8, <1>b DEF FreeNothing, Return
  <2>2. ptr[t] = Null
    BY <2>1 DEF Searching, Ahead
  <2>3. CASE new[t] = Null
    <3>1. \A u \in Thread : /\ moving'[u] /\ ptr'[u] # Null <=> moving[u] /\ ptr[u] # Null
                            /\ ptr'[u] = ptr[u]
      BY <2>1, <2>2
    <3>2. \A b : b \in Owned' <=> b \in Owned
      BY <1>c, <1>d, <2>1, <2>3, <3>1
    <3>3. QED
      BY <2>1, <3>2 DEF Same
  <2>4. CASE new[t] # Null
    <3>1. new[t] \in Block /\ new[t] \notin Owned
      BY <1>b, <1>c, <2>1, <2>4 DEF Owners, Ptr
    <3>2. Owned' = Owned \cup {new[t]}
      BY <1>c, <1>d, <2>1, <2>2, <2>4
    <3>3. moving[t] /\ content[new[t]] = Zero
      BY <2>1, <2>2, <2>4 DEF Arguments, Contents
    <3>4. QED
      BY <2>1, <3>1, <3>2, <3>3, GivesOne DEF Same
  <2>5. QED
    BY <2>3, <2>4
<1>9. ASSUME NEW b \in Block, NEW v \in Value, Write(b, v)
      PROVE  H!Next
  <2>1. /\ b \in given /\ content' = [content EXCEPT ![b] = v]
        /\ UNCHANGED <<given, ptr, moving>>
    BY <1>9 DEF Write
  <2>2. b \in Owned /\ Owned' = Owned
    BY <1>a, <1>c, <1>e, <2>1 DEF Owners
  <2>3. content'[b] = v /\ \A c \in Owned : c # b => content'[c] = content[c]
    BY <1>a, <1>b, <1>c, <2>1
  <2>4. H!Write(b, v)
    BY <2>2, <2>3 DEF Store, H!Write, H!With
  <2>5. QED
    BY <2>4 DEF H!Next
<1>10. ASSUME NEW t \in Thread, Call(t) \/ InCall(t)
       PROVE  H!Next \/ (Owned' = Owned /\ Same(Owned))
  <2>1. CASE \E p \in Ptr : Free(t, p) \/ Realloc(t, p)
    BY <1>5, <1>6, <2>1
  <2>2. CASE MapFails(t) \/ ReallocCopy(t) \/ FreeFound(t) \/ FreeNothing(t)
    BY <1>2, <1>3, <1>7, <1>8, <1>e, <2>2 DEF Same
  <2>3. CASE BecomeLast(t)
    <3>1. CASE moving[t]
      BY <1>e, <2>3, <3>1 DEF BecomeLast, Same
    <3>2. CASE ~moving[t]
      BY <1>4, <2>3, <3>2
    <3>3. QED
      BY <3>1, <3>2
  <2>4. CASE AllocFails(t) \/ \E b \in Block, n \in 1..MaxSize : Alloc(t, b, n) \/ ReallocMap(t, b, n)
    BY <1>e, <2>4 DEF AllocFails, Alloc, ReallocMap, Map, Same
  <2>5. CASE \/ LinkToLast(t) \/ FreeLock(t) \/ FreeStep(t)
             \/ ReallocLock(t) \/ ReallocStep(t) \/ ReallocUnlock(t) \/ Faults(t)
    BY <1>e, <2>5 DEF LinkToLast, FreeLock, FreeStep, ReallocLock, ReallocStep,
                      ReallocUnlock, Faults, Same
  <2>6. QED
    BY <1>10, <2>1, <2>2, <2>3, <2>4, <2>5 DEF Call, InCall
<1>11. CASE UNCHANGED vars
  BY <1>1, <1>11 DEF vars
<1>12. QED
  BY <1>9, <1>10, <1>11, Stutters DEF Next

(* With any number of threads in new, delete and realloc at once, every    *)
(* block has one owner and keeps its content, also when realloc moves it,  *)
(* until two calls are inside the lock at once.                            *)
THEOREM Implements == Spec => ImplementsHeap
<1>1. Init => H!Init
  <2>1. Init => Owned = {}
    BY DEF Init, Owned, Moving
  <2>2. QED
    BY <2>1 DEF H!Init, Store
<1>2. Typing /\ (Alone => OwnerInv) /\ (Alone => OwnerInv)' /\ (Alone => Contents)
          /\ [Next]_vars
        => [overlaps' = 0 => H!Next]_Store
  <2> SUFFICES ASSUME Typing, Alone => OwnerInv, (Alone => OwnerInv)', Alone => Contents,
                      [Next]_vars, overlaps' = 0
               PROVE  [H!Next]_Store
    OBVIOUS
  <2>1. Alone /\ Alone'
    BY AloneBefore DEF Alone
  <2>2. QED
    BY <2>1, StepImplements
<1>3. QED
  BY <1>1, <1>2, ListInvariant, OwnerInvariant, ContentsInvariant, PTL DEF Spec, ImplementsHeap
=============================================================================
