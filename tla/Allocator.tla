----------------------------- MODULE Allocator -----------------------------
(***************************************************************************)
(* sys::allocator (src/linux/alloc.cpp), behind every new and delete: each *)
(* block is a mapping of its own with a `heap` header, the headers form a  *)
(* list from _lastheap along _prevheap, and _memlock guards the list.      *)
(* Threads interleave at the lock, at each step of a walk, at the two      *)
(* accesses that link a block, and wherever the lock is not held.          *)
(*                                                                         *)
(* _memlock is a sys::mutex, which lets a thread in whether or not another *)
(* one is inside (module Mutex); `overlaps` counts how often that happens. *)
(* Two threads then edit the list at once, links get lost, and walks can   *)
(* run into memory that is gone.  What the allocator promises it keeps as  *)
(* long as no two calls have met inside its lock (overlaps = 0).           *)
(***************************************************************************)
EXTENDS Naturals

CONSTANTS Thread,       \* the threads of the process
          Block,        \* the addresses mmap can return
          Null,         \* nullptr
          Value,        \* what a program can write to a block
          Zero,         \* the content of memory fresh from the kernel
          MaxSize,      \* bound on the size of a block
          MaxOverlaps   \* bound: times a thread enters a held lock

ASSUME NullAssumption == Null \notin Block
ASSUME ZeroAssumption == Zero \in Value
ASSUME SizeAssumption == MaxSize \in Nat /\ MaxOverlaps \in Nat

VARIABLES
    mapped,      \* the blocks whose memory is mapped
    size,        \* _size of each block
    prev,        \* _prevheap of each block
    last,        \* _lastheap
    content,     \* what is stored in each block
    locking,     \* the threads inside _memlock
    overlaps,    \* ghost: times a thread entered while others were inside
    pc,          \* where each thread is in a call; "idle" is outside
    ptr,         \* the argument of free and realloc
    new,         \* the block that alloc is linking, or that realloc returns
    cur,         \* the walk's position: curheap, curstore
    behind,      \* nextheap of free
    old,         \* oldptr of realloc
    cursize,     \* cursize of realloc
    moving,      \* the thread is in realloc
    given,       \* ghost: blocks the program was given and has not passed back
    linked,      \* ghost: the blocks in the list
    before,      \* ghost: <<b, c>> when b was linked before c
    dead         \* memory that is not mapped, or not the caller's, was used

ghosts == <<linked, before>>
heap == <<mapped, size, prev, last, content, ghosts>>
locals == <<ptr, new, cur, behind, old, cursize, moving>>
lock == <<locking, overlaps>>
vars == <<heap, lock, pc, locals, given, dead>>

Ptr == Block \cup {Null}
Labels == {"idle", "a_map", "a_lock", "a_link", "r_lock", "r_walk", "r_copy",
           "f_lock", "f_walk"}

Init ==
    /\ mapped = {}
    /\ size = [b \in Block |-> 0]
    /\ prev = [b \in Block |-> Null]
    /\ last = Null
    /\ content = [b \in Block |-> Zero]
    /\ locking = {} /\ overlaps = 0
    /\ pc = [t \in Thread |-> "idle"]
    /\ ptr = [t \in Thread |-> Null]
    /\ new = [t \in Thread |-> Null]
    /\ cur = [t \in Thread |-> Null]
    /\ behind = [t \in Thread |-> Null]
    /\ old = [t \in Thread |-> Null]
    /\ cursize = [t \in Thread |-> 0]
    /\ moving = [t \in Thread |-> FALSE]
    /\ given = {}
    /\ linked = {}
    /\ before = {}
    /\ dead = FALSE

At(t, l) == ~dead /\ pc[t] = l
Goto(t, l) == pc' = [pc EXCEPT ![t] = l]

(* _memlock.lock(), which may let t in at any time, and unlock().  Mutant: *)
(* a call goes on without the lock. *)
TakeNothing(t) == UNCHANGED lock
Take(t) ==
    /\ locking' = locking \cup {t}
    /\ \/ locking = {} /\ UNCHANGED overlaps
       \/ locking # {} /\ overlaps < MaxOverlaps /\ overlaps' = overlaps + 1

Leave(t) == locking' = locking \ {t} /\ UNCHANGED overlaps

(* The headers and blocks that t's next step inside free or realloc reads  *)
(* or writes.  Only where calls have overlapped can one be unmapped; the   *)
(* process then dies. *)
Touched(t) ==
    (CASE pc[t] = "f_walk" -> {cur[t]} \cup (IF cur[t] = ptr[t] THEN {behind[t]} ELSE {})
       [] pc[t] = "r_walk" -> {cur[t]}
       [] pc[t] = "r_copy" /\ cursize[t] > 0 -> {old[t], new[t]}
       [] OTHER -> {}) \ {Null}

Faults(t) ==
    /\ ~dead /\ ~(Touched(t) \subseteq mapped)
    /\ dead' = TRUE
    /\ UNCHANGED <<heap, lock, pc, locals, given>>

-----------------------------------------------------------------------------
(* alloc(n): map the block and fill in its header, outside of the lock ... *)
(* As a mutant of Stored: the header keeps the size with the header's own. *)
StoredTotal(n) == n + 1
Stored(n) == n

Map(t, b, n) ==
    /\ b \notin mapped
    /\ mapped' = mapped \cup {b}
    /\ size' = [size EXCEPT ![b] = Stored(n)]
    /\ new' = [new EXCEPT ![t] = b]
    /\ Goto(t, "a_lock")
    /\ UNCHANGED <<prev, last, content, ghosts, lock, ptr, cur, behind, old,
                   cursize, moving, given, dead>>

Alloc(t, b, n) == At(t, "idle") /\ Map(t, b, n)

(* ... take the lock and point it at the last block ... *)
LinkToLast(t) ==
    /\ At(t, "a_lock")
    /\ Take(t)
    /\ prev' = [prev EXCEPT ![new[t]] = last]
    /\ Goto(t, "a_link")
    /\ UNCHANGED <<mapped, size, last, content, ghosts, locals, given, dead>>

(* ... and make it the last one.  realloc goes on to copy. *)
BecomeLast(t) ==
    /\ At(t, "a_link")
    /\ last' = new[t]
    /\ linked' = linked \cup {new[t]}
    /\ before' = before \cup (linked \X {new[t]})
    /\ Leave(t)
    /\ \/ moving[t] /\ Goto(t, "r_copy") /\ UNCHANGED <<new, given>>
       \/ ~moving[t] /\ Goto(t, "idle") /\ given' = given \cup {new[t]}
          /\ new' = [new EXCEPT ![t] = Null]
    /\ UNCHANGED <<mapped, size, prev, content, ptr, cur, behind, old, cursize,
                   moving, dead>>

-----------------------------------------------------------------------------
(* free(p): walk with the lock held, `behind` one block after cur ... *)
FreeFrom(t, p) ==
    /\ ptr' = [ptr EXCEPT ![t] = p]
    /\ Goto(t, "f_lock")

Free(t, p) ==
    /\ At(t, "idle")
    /\ p \in given \cup {Null}
    /\ given' = given \ {p}
    /\ FreeFrom(t, p)
    /\ UNCHANGED <<heap, lock, new, cur, behind, old, cursize, moving, dead>>

FreeLock(t) ==
    /\ At(t, "f_lock")
    /\ Take(t)
    /\ cur' = [cur EXCEPT ![t] = last]
    /\ behind' = [behind EXCEPT ![t] = Null]
    /\ Goto(t, "f_walk")
    /\ UNCHANGED <<heap, ptr, new, old, cursize, moving, given, dead>>

FreeStep(t) ==
    /\ At(t, "f_walk") /\ Touched(t) \subseteq mapped
    /\ cur[t] # Null /\ cur[t] # ptr[t]
    /\ behind' = [behind EXCEPT ![t] = cur[t]]
    /\ cur' = [cur EXCEPT ![t] = prev[cur[t]]]
    /\ UNCHANGED <<heap, lock, pc, ptr, new, old, cursize, moving, given, dead>>

(* The block is unlinked: its successor, or else _lastheap, skips it.      *)
(* Unmapped memory is gone: when the kernel gives the address out again it *)
(* holds zeros.                                                            *)
Unlink(t) ==
    /\ last' = IF last = cur[t] THEN prev[cur[t]] ELSE last
    /\ prev' = [b \in Block |-> IF b = cur[t] THEN Null
                               ELSE IF b = behind[t] THEN prev[cur[t]] ELSE prev[b]]

(* A call that frees returns; realloc then gives out the new block. *)
Return(t) ==
    /\ Leave(t)
    /\ Goto(t, "idle")
    /\ given' = given \cup ({new[t]} \ {Null})
    /\ ptr' = [ptr EXCEPT ![t] = Null]
    /\ new' = [new EXCEPT ![t] = Null]
    /\ cur' = [cur EXCEPT ![t] = Null]
    /\ behind' = [behind EXCEPT ![t] = Null]
    /\ old' = [old EXCEPT ![t] = Null]
    /\ cursize' = [cursize EXCEPT ![t] = 0]
    /\ moving' = [moving EXCEPT ![t] = FALSE]

FreeFound(t) ==
    /\ At(t, "f_walk") /\ Touched(t) \subseteq mapped
    /\ cur[t] # Null /\ cur[t] = ptr[t]
    /\ Unlink(t)
    /\ linked' = linked \ {cur[t]}
    /\ before' = {p \in before : cur[t] \notin {p[1], p[2]}}
    /\ mapped' = mapped \ {cur[t]}
    /\ size' = [size EXCEPT ![cur[t]] = 0]
    /\ content' = [content EXCEPT ![cur[t]] = Zero]
    /\ Return(t)
    /\ UNCHANGED dead

(* ... nullptr, or an address that is not in the list, is ignored. *)
FreeNothing(t) ==
    /\ At(t, "f_walk")
    /\ cur[t] = Null
    /\ Return(t)
    /\ UNCHANGED <<heap, dead>>

-----------------------------------------------------------------------------
(* realloc(p, n): look the old block up in the whole list ... *)
Realloc(t, p) ==
    /\ At(t, "idle")
    /\ p \in given \cup {Null}
    /\ given' = given \ {p}
    /\ ptr' = [ptr EXCEPT ![t] = p]
    /\ moving' = [moving EXCEPT ![t] = TRUE]
    /\ Goto(t, "r_lock")
    /\ UNCHANGED <<heap, lock, new, cur, behind, old, cursize, dead>>

ReallocLock(t) ==
    /\ At(t, "r_lock")
    /\ Take(t)
    /\ cur' = [cur EXCEPT ![t] = last]
    /\ old' = [old EXCEPT ![t] = Null]
    /\ cursize' = [cursize EXCEPT ![t] = 0]
    /\ Goto(t, "r_walk")
    /\ UNCHANGED <<heap, ptr, new, behind, moving, given, dead>>

(* As a mutant of Matches: the lookup misses the last block. *)
MatchesOlder(t) == cur[t] = ptr[t] /\ cur[t] # last
Matches(t) == cur[t] = ptr[t]

ReallocStep(t) ==
    /\ At(t, "r_walk") /\ Touched(t) \subseteq mapped
    /\ cur[t] # Null
    /\ \/ /\ Matches(t)
          /\ old' = [old EXCEPT ![t] = cur[t]]
          /\ cursize' = [cursize EXCEPT ![t] = size[cur[t]]]
       \/ ~Matches(t) /\ UNCHANGED <<old, cursize>>
    /\ cur' = [cur EXCEPT ![t] = prev[cur[t]]]
    /\ UNCHANGED <<heap, lock, pc, ptr, new, behind, moving, given, dead>>

ReallocUnlock(t) ==
    /\ At(t, "r_walk")
    /\ cur[t] = Null
    /\ Leave(t)
    /\ Goto(t, "a_map")
    /\ UNCHANGED <<heap, locals, given, dead>>

(* ... map and link a new one as alloc does ... *)
ReallocMap(t, b, n) == At(t, "a_map") /\ Map(t, b, n)

(* ... copy the old size, whatever the new size is: what does not fit is   *)
(* written behind the new block, which only its last page may forgive ...  *)
(* As a mutant of Copied: the loop that copies is not entered.             *)
NotCopied(t) == content[new[t]]
Copied(t) == IF cursize[t] = 0 THEN content[new[t]] ELSE content[old[t]]

ReallocCopy(t) ==
    /\ At(t, "r_copy") /\ Touched(t) \subseteq mapped
    /\ \/ dead' = FALSE
       \/ cursize[t] > size[new[t]] /\ dead' = TRUE
    /\ content' = [content EXCEPT ![new[t]] = Copied(t)]
    /\ FreeFrom(t, old[t])
    /\ UNCHANGED <<mapped, size, prev, last, ghosts, lock, new, cur, behind,
                   old, cursize, moving, given>>

(* ... and free the old one.  When mmap fails only the error -1 is          *)
(* recognised: any other one is taken for an address and written to.  With *)
(* -1 alloc returns nullptr, which realloc copies to.                      *)
MapFails(t) ==
    /\ At(t, "a_map")
    /\ \/ dead' = TRUE /\ UNCHANGED <<ptr, pc>>
       \/ cursize[t] = 0 /\ FreeFrom(t, old[t]) /\ UNCHANGED dead
    /\ UNCHANGED <<heap, lock, new, cur, behind, old, cursize, moving, given>>

(* alloc's own failure: as above, or the program gets nullptr. *)
AllocFails(t) ==
    /\ At(t, "idle")
    /\ dead' \in BOOLEAN
    /\ UNCHANGED <<heap, lock, pc, locals, given>>

-----------------------------------------------------------------------------
(* The program writes to a block it was given. *)
Write(b, v) ==
    /\ ~dead
    /\ b \in given
    /\ content' = [content EXCEPT ![b] = v]
    /\ UNCHANGED <<mapped, size, prev, last, ghosts, lock, pc, locals, given, dead>>

Call(t) ==
    \/ \E b \in Block, n \in 1..MaxSize : Alloc(t, b, n) \/ ReallocMap(t, b, n)
    \/ \E p \in Ptr : Free(t, p) \/ Realloc(t, p)
    \/ AllocFails(t)

InCall(t) ==
    \/ LinkToLast(t) \/ BecomeLast(t)
    \/ FreeLock(t) \/ FreeStep(t) \/ FreeFound(t) \/ FreeNothing(t)
    \/ ReallocLock(t) \/ ReallocStep(t) \/ ReallocUnlock(t) \/ ReallocCopy(t)
    \/ MapFails(t) \/ Faults(t)

Next ==
    \/ \E t \in Thread : Call(t) \/ InCall(t)
    \/ \E b \in Block, v \in Value : Write(b, v)

Spec == Init /\ [][Next]_vars
-----------------------------------------------------------------------------
TypeOK ==
    /\ mapped \subseteq Block /\ linked \subseteq Block /\ given \subseteq Block
    /\ size \in [Block -> 0..MaxSize]
    /\ prev \in [Block -> Ptr]
    /\ last \in Ptr
    /\ content \in [Block -> Value]
    /\ locking \subseteq Thread /\ overlaps \in 0..MaxOverlaps
    /\ pc \in [Thread -> Labels]
    /\ ptr \in [Thread -> Ptr]
    /\ new \in [Thread -> Ptr]
    /\ cur \in [Thread -> Ptr]
    /\ behind \in [Thread -> Ptr]
    /\ old \in [Thread -> Ptr]
    /\ cursize \in [Thread -> 0..MaxSize]
    /\ moving \in [Thread -> BOOLEAN]
    /\ before \subseteq Block \X Block
    /\ dead \in BOOLEAN

(* The blocks in the list are ordered by when they were linked ... *)
Ordered ==
    /\ before \subseteq linked \X linked
    /\ \A b \in linked : <<b, b>> \notin before
    /\ \A b, c \in linked : b # c => (<<b, c>> \in before <=> <<c, b>> \notin before)
    /\ \A b, c, d \in linked :
          <<b, c>> \in before /\ <<c, d>> \in before => <<b, d>> \in before

(* ... c is what p points to when p is the end of the list after b. *)
NewestOf(S, p) ==
    /\ S = {} => p = Null
    /\ S # {} => p \in S /\ \A c \in S : c = p \/ <<c, p>> \in before

Before(b) == {c \in linked : <<c, b>> \in before}

(* The list has no cycle, skips no block and leads over mapped memory      *)
(* only: _lastheap is the newest block and each _prevheap the newest of    *)
(* those before.                                                           *)
Chained ==
    /\ Ordered
    /\ linked \subseteq mapped
    /\ NewestOf(linked, last)
    /\ \A b \in linked : NewestOf(Before(b), prev[b])

(* As long as no two calls were inside the lock at once, the heap list is  *)
(* whole after every access, wherever calls of other threads come between: *)
(* so that each walk ends at nullptr and each free finds its block.        *)
HeapLinked == overlaps = 0 => Chained

(* The blocks that calls under way hold. *)
Linking(t) == IF pc[t] \in {"a_lock", "a_link"} THEN {new[t]} ELSE {}
Moved(t) == IF moving[t] /\ pc[t] \in {"r_copy", "f_lock", "f_walk"} THEN {new[t]} ELSE {}
Passed(t) ==
    IF pc[t] \in {"f_lock", "f_walk", "r_lock", "r_walk"} THEN {ptr[t]}
    ELSE IF moving[t] /\ pc[t] \in {"a_map", "a_lock", "a_link", "r_copy"} THEN {old[t]}
    ELSE {}
InCalls == (UNION {Moved(t) \cup Passed(t) : t \in Thread}) \ {Null}

Holds(t) == {ptr[t], new[t]} \ {Null}

(* No block is freed under its owner, though calls meet inside the lock    *)
(* and break the list: what the program has, and what each call was passed *)
(* or is to give out, is mapped and nobody else's ...                      *)
Apart ==
    /\ given \subseteq mapped
    /\ \A t \in Thread : /\ Holds(t) \subseteq mapped \ given
                         /\ ptr[t] = new[t] => ptr[t] = Null
    /\ \A t, u \in Thread : t # u => Holds(t) \cap Holds(u) = {}

(* ... and as long as no two calls have met there none is lost: what is    *)
(* mapped is in the list or about to be linked, and what is in the list is *)
(* either the program's or held by the call that moves or frees it.        *)
Kept ==
    /\ mapped = linked \cup UNION {Linking(t) : t \in Thread}
    /\ linked = given \cup InCalls
    /\ given \cap InCalls = {}

NothingLost == Apart /\ (overlaps = 0 => Kept)

(* The program's view: what it was given, and what realloc is moving, which *)
(* stays at its old address until realloc returns.                          *)
Moving == {t \in Thread : moving[t] /\ pc[t] # "idle"}

Source(t) == IF pc[t] \in {"r_lock", "r_walk"} THEN ptr[t] ELSE old[t]

Owned == (given \cup {Source(t) : t \in Moving}) \ {Null}

Store == [b \in Owned |-> content[b]]

H == INSTANCE Heap WITH store <- Store

(* new, delete and realloc give every block to one owner at a time, keep    *)
(* what it wrote there and take it along to the new address, with the calls *)
(* of several threads under way at once: every step is one of the abstract  *)
(* heap, until two calls are inside the lock at once.                       *)
ImplementsHeap == H!Init /\ [][overlaps' = 0 => H!Next]_Store
=============================================================================
