------------------------------ MODULE ConQueue ------------------------------
(***************************************************************************)
(* One queue of a sys::con (src/connection.cpp): the singly linked list of *)
(* condata blocks that addRecvQueue / addSendQueue append to, that         *)
(* resizeRecvQueue / resizeSendQueue take bytes off, and that              *)
(* cleanRecvData / cleanSendData delete.  The send and the receive queue   *)
(* run the same code on their own three fields.  Calls that throw before   *)
(* they change anything (size 0, more than is queued) are stuttering       *)
(* steps.  A byte is its position in the stream of all bytes added.        *)
(***************************************************************************)
EXTENDS Naturals, Sequences, SequencesExt

CONSTANTS Blocks,       \* addresses a condata object can have
          Null,         \* nullptr
          MaxBytes      \* bound: bytes added in a behaviour

ASSUME NullAssumption == Null \notin Blocks
ASSUME MaxBytesAssumption == MaxBytes \in Nat

VARIABLES
    first, last,        \* firstdata, lastdata
    next,               \* _nextConnectionData of each block
    data,               \* _Data of each block
    dsize,              \* _DataSize of each block
    qsize,              \* the queue's byte counter
    alive,              \* the blocks that are allocated
    pc, size, idx,      \* _resizeQueue: where it is, its argument, its i
    written,            \* ghost: bytes ever added
    chain               \* ghost: the blocks of the queue in the order added

links == <<first, last, next, alive, chain>>
vars == <<links, data, dsize, qsize, pc, size, idx, written>>

Bytes == 1 .. MaxBytes

TypeOK ==
    /\ first \in Blocks \cup {Null}
    /\ last \in Blocks \cup {Null}
    /\ next \in [Blocks -> Blocks \cup {Null}]
    /\ data \in [Blocks -> Seq(Bytes)]
    /\ dsize \in [Blocks -> Nat]
    /\ qsize \in Nat
    /\ alive \subseteq Blocks
    /\ pc \in {"idle", "drop", "shift"}
    /\ size \in Nat
    /\ idx \in Nat
    /\ written \in 0 .. MaxBytes
    /\ chain \in Seq(Blocks)

Init ==
    /\ first = Null /\ last = Null
    /\ next = [b \in Blocks |-> Null]
    /\ data = [b \in Blocks |-> <<>>]
    /\ dsize = [b \in Blocks |-> 0]
    /\ qsize = 0
    /\ alive = {}
    /\ pc = "idle" /\ size = 0 /\ idx = 0
    /\ written = 0
    /\ chain = <<>>

-----------------------------------------------------------------------------
(* condata(data, n): a new block b with a copy of the bytes. *)
NewBlock(b, n) ==
    /\ b \in Blocks \ alive
    /\ alive' = alive \cup {b}
    /\ data' = [data EXCEPT ![b] = [i \in 1 .. n |-> written + i]]
    /\ dsize' = [dsize EXCEPT ![b] = n]

(* addRecvQueue: an empty queue gets its first block ... *)
AddFirst(b) ==
    /\ first = Null
    /\ first' = b
    /\ next' = [next EXCEPT ![b] = Null]

(* ... and any other has it hung behind the block that lastdata points to. *)
AddBehind(b) ==
    /\ first # Null
    /\ last \in alive
    /\ next' = [next EXCEPT ![last] = b, ![b] = Null]
    /\ UNCHANGED first

Add(b, n) ==
    /\ pc = "idle"
    /\ n > 0 /\ written + n <= MaxBytes
    /\ NewBlock(b, n)
    /\ AddFirst(b) \/ AddBehind(b)
    /\ last' = b
    /\ qsize' = qsize + n
    /\ written' = written + n
    /\ chain' = Append(chain, b)
    /\ UNCHANGED <<pc, size, idx>>

(* As mutants of Resize: more bytes than are queued may be asked for; the  *)
(* byte counter is left as it was. *)
ResizeUnchecked(n) ==
    /\ pc = "idle"
    /\ first # Null
    /\ qsize' = qsize - n
    /\ size' = n
    /\ pc' = "drop"
    /\ UNCHANGED <<links, data, dsize, idx, written>>

ResizeUncounted(n) ==
    /\ pc = "idle"
    /\ first # Null /\ n <= qsize
    /\ size' = n
    /\ pc' = "drop"
    /\ UNCHANGED <<links, data, dsize, qsize, idx, written>>

(* _resizeQueue entry: throws unless a block exists and n bytes are queued. *)
Resize(n) ==
    /\ pc = "idle"
    /\ first # Null /\ n <= qsize
    /\ qsize' = qsize - n
    /\ size' = n
    /\ pc' = "drop"
    /\ UNCHANGED <<links, data, dsize, idx, written>>

(* What _resizeQueue does after the loop: nothing left to remove, or the   *)
(* rest comes off the first block.  Mutant: it does not ask. *)
ShiftAlways(left) ==
    /\ pc' = "shift"
    /\ idx' = 0

AfterDrop(left) ==
    /\ pc' = IF left = 0 THEN "idle" ELSE "shift"
    /\ idx' = 0

(* delete of the blocks B, whose memory is unmapped. *)
Delete(B) ==
    /\ alive' = alive \ B
    /\ next' = [b \in Blocks |-> IF b \in B THEN Null ELSE next[b]]
    /\ data' = [b \in Blocks |-> IF b \in B THEN <<>> ELSE data[b]]
    /\ dsize' = [b \in Blocks |-> IF b \in B THEN 0 ELSE dsize[b]]

(* lastdata once the first block is gone.  Mutant: it stays. *)
LastKept == last
LastAfterDrop == IF first = last THEN Null ELSE last

(* HAVEDATA: a first block not larger than size goes as a whole ... *)
DropBlock ==
    /\ pc = "drop"
    /\ dsize[first] <= size
    /\ size' = size - dsize[first]
    /\ first' = next[first]
    /\ last' = LastAfterDrop
    /\ Delete({first})
    /\ chain' = Tail(chain)
    /\ IF first' = Null THEN AfterDrop(size') ELSE UNCHANGED <<pc, idx>>
    /\ UNCHANGED <<qsize, written>>

(* ... a larger one stays ... *)
KeepBlock ==
    /\ pc = "drop"
    /\ dsize[first] > size
    /\ AfterDrop(size)
    /\ UNCHANGED <<links, data, dsize, qsize, size, written>>

(* ... and has its remaining bytes moved to the front, one by one. *)
(* The byte that moves to index i of the first block (from 0).  Mutant:    *)
(* the one before it. *)
ByteBefore(i) == data[first][size + i]
ShiftedByte(i) == data[first][size + i + 1]

ShiftByte ==
    /\ pc = "shift"
    /\ idx < dsize[first] - size
    /\ data' = [data EXCEPT ![first][idx + 1] = ShiftedByte(idx)]
    /\ idx' = idx + 1
    /\ UNCHANGED <<links, dsize, qsize, pc, size, written>>

(* The size of the first block when its bytes have moved.  Mutant: as      *)
(* before. *)
SizeKept == dsize[first]
SizeAfterShift == dsize[first] - size

ShiftDone ==
    /\ pc = "shift"
    /\ idx >= dsize[first] - size
    /\ dsize' = [dsize EXCEPT ![first] = SizeAfterShift]
    /\ pc' = "idle"
    /\ size' = 0 /\ idx' = 0
    /\ UNCHANGED <<links, data, qsize, written>>

(* The blocks that deleting b deletes: ~condata deletes the next block.    *)
(* Mutant: it does not. *)
OnlyFirst(b) == {b}

Linked(b) ==
    {c \in Blocks : \A S \in SUBSET Blocks :
        (b \in S /\ \A d \in S : next[d] # Null => next[d] \in S) => c \in S}

(* cleanRecvData / cleanSendData. *)
Clean ==
    /\ pc = "idle"
    /\ first' = Null /\ last' = Null
    /\ Delete(IF first = Null THEN {} ELSE Linked(first))
    /\ qsize' = 0
    /\ chain' = <<>>
    /\ UNCHANGED <<pc, size, idx, written>>

Next ==
    \/ \E n \in Bytes, b \in Blocks : Add(b, n)
    \/ \E n \in {0} \cup Bytes : Resize(n)
    \/ DropBlock \/ KeepBlock \/ ShiftByte \/ ShiftDone
    \/ Clean

Spec == Init /\ [][Next]_vars

-----------------------------------------------------------------------------
(* The list is exactly the allocated blocks, linked in the order they were *)
(* added, with both ends where firstdata and lastdata point: no block is   *)
(* leaked, deleted twice or reached after its deletion.                    *)
Count == Len(chain)

WellLinked ==
    /\ first = IF Count = 0 THEN Null ELSE chain[1]
    /\ last = IF Count = 0 THEN Null ELSE chain[Count]
    /\ \A k \in 1 .. Count : next[chain[k]] = IF k = Count THEN Null ELSE chain[k + 1]
    /\ \A j, k \in 1 .. Count : chain[j] = chain[k] => j = k
    /\ \A k \in 1 .. Count : chain[k] \in alive

NoLeak == \A b \in alive : \E k \in 1 .. Count : chain[k] = b

(* Every pointer _resizeQueue and the add functions follow leads to a live *)
(* block, the dereference of *firstdata after the loop included: bytes     *)
(* are left to remove there only if a block is left.                       *)
DerefsLive ==
    /\ pc \in {"drop", "shift"} => first \in alive
    /\ pc = "idle" /\ first # Null => last \in alive

(* Where a block's bytes end in the stream: shifting never moves its last  *)
(* stored byte. *)
End(b) == data[b][dsize[b]]
Start(b) == End(b) - dsize[b]

(* Byte j of block b holds its place in the stream; while the first block  *)
(* is being shifted, its first idx bytes already hold their new places.    *)
Shifted(b, j) == pc = "shift" /\ b = first /\ j <= idx

InPlace ==
    \A k \in 1 .. Count : \A j \in 1 .. dsize[chain[k]] :
        data[chain[k]][j] =
            Start(chain[k]) + j + (IF Shifted(chain[k], j) THEN size ELSE 0)

(* Each block starts where the one before it ends, the last ends with the  *)
(* last byte ever added, and the counter counts the bytes from the first   *)
(* block on, those that _resizeQueue has yet to remove excepted.           *)
Contiguous ==
    /\ \A k \in 1 .. Count : dsize[chain[k]] > 0
    /\ \A k \in 1 .. Count - 1 : Start(chain[k + 1]) = End(chain[k])
    /\ Count > 0 => End(chain[Count]) = written
    /\ qsize + size = IF Count = 0 THEN 0 ELSE written - Start(chain[1])

(* What makes these inductive: where _resizeQueue is, and that a block's   *)
(* buffer is never shorter than the size it claims. *)
ResizeProgress ==
    /\ pc = "idle" => size = 0
    /\ pc # "idle" => Count > 0
    /\ pc = "shift" => /\ size > 0 /\ size < dsize[first]
                       /\ idx <= dsize[first] - size
    /\ \A k \in 1 .. Count : dsize[chain[k]] <= Len(data[chain[k]])

Inv == TypeOK /\ WellLinked /\ NoLeak /\ InPlace /\ Contiguous /\ ResizeProgress

-----------------------------------------------------------------------------
(* The bytes of a block that belong to the queue, the first block's shift  *)
(* under way included: the part already moved, then the part yet to move.  *)
BlockBytes(b) ==
    IF pc = "shift" /\ b = first
    THEN SubSeq(data[b], 1, idx) \o SubSeq(data[b], size + idx + 1, dsize[b])
    ELSE SubSeq(data[b], 1, dsize[b])

Stored == FlattenSeq([k \in DOMAIN chain |-> BlockBytes(chain[k])])

(* Before the shift, the bytes _resizeQueue has still to remove are in     *)
(* front of those that qsize counts.                                       *)
Contents == SubSeq(Stored, Len(Stored) - qsize + 1, Len(Stored))

Stream == INSTANCE ByteStream WITH content <- Contents

(* A connection queue is a byte stream: what is read off it is what was    *)
(* added, in order, without loss or repetition, whatever the block and     *)
(* removal sizes; qsize is how much there is.                              *)
ImplementsStream == Stream!Spec
=============================================================================
