----------------------------- MODULE Exceptions -----------------------------
(***************************************************************************)
(* sys::array<char> (sysarray.h) and sys::SystemException (exception.cpp)  *)
(* as operators on a heap of cells, one mapping each.  An array is its     *)
(* pointer _buf, an exception its type, its list of messages and the       *)
(* buffer of what().  Cells are freed as the allocator does it: deleting   *)
(* an address that is not mapped does nothing.                             *)
(*                                                                         *)
(* An operation is the set of its outcomes, one for each placement of what *)
(* it allocates; `dead` in an outcome is an access to unmapped memory, or  *)
(* a copy without an end.                                                  *)
(***************************************************************************)
EXTENDS Naturals, Sequences, FiniteSetsExt

CONSTANTS Cells,        \* the number of addresses
          Gaps,         \* bound: how many of the free ones mmap chooses from
          Null          \* nullptr

ASSUME CellsAssumption == Cells \in Nat
ASSUME NullAssumption == Null \notin 1..Cells

Cell == 1..Cells
Ptr == Cell \cup {Null}
Type == {"Note", "Error", "Critical"}

Unmapped == [kind |-> "none"]
Text == [kind |-> "text"]
Address == [kind |-> "sockaddr"]
Message(type, buf) ==
    [kind |-> "message", type |-> type, buf |-> buf, empty |-> FALSE, next |-> Null]

EmptyHeap == [c \in Cell |-> Unmapped]
Mapped(h) == {c \in Cell : h[c].kind # "none"}

(* mmap returns one of the first gaps: it may be the one that was unmapped *)
(* last, or another that someone else left.                                *)
Placements(h) ==
    {c \in Cell \ Mapped(h) : Cardinality({d \in 1..(c - 1) : d \notin Mapped(h)}) < Gaps}

(* A word of 0 that the kernel writes at offset 8 of one of the cells, or  *)
(* of none: in a message that is the size of its text, elsewhere it does   *)
(* not matter. *)
Emptied(h, c) == [h EXCEPT ![c].empty = TRUE]
ZeroWritten(h) == {h} \cup {Emptied(h, c) : c \in {d \in Cell : h[d].kind = "message"}}

Delete(h, p) == IF p = Null THEN h ELSE [h EXCEPT ![p] = Unmapped]

-----------------------------------------------------------------------------
(* `a = "text"` writes a new buffer d and returns the array by value: the  *)
(* copy has the same _buf, and its destructor deletes it.                  *)
AfterAssign(h, d) == Delete(h, d)

(* push_back moves to a larger buffer; clear deletes the buffer. *)
PushBack(h, buf) ==
    {[heap |-> Delete([h EXCEPT ![d] = Text], buf), buf |-> d] : d \in Placements(h)}

-----------------------------------------------------------------------------
NewException == [type |-> "Note", first |-> Null, last |-> Null, print |-> Null]

(* The messages of a list, as far as they are messages: a first one, and   *)
(* behind each the one it points to. *)
Behind(h, p) == IF p # Null /\ h[p].kind = "message" THEN h[p].next ELSE Null

Chain(h, e) ==
    LET node[i \in 0..Cells] == IF i = 0 THEN e.first ELSE Behind(h, node[i - 1])
    IN [i \in {k \in 1..Cells : node[k - 1] # Null} |-> node[i - 1]]

Intact(h, e) == \A i \in DOMAIN Chain(h, e) : h[Chain(h, e)[i]].kind = "message"

(* asign(src): a message n of the current type behind the last one, its    *)
(* text assigned from src.  As a mutant: _lastMessage stays where it was.  *)
LastStays(e, n) == IF e.last = Null THEN n ELSE e.last
Advanced(e, n) == n

Linked(h, e, n) == IF e.last = Null THEN h ELSE [h EXCEPT ![e.last].next = n]

Asign(h, e) ==
    IF e.last # Null /\ h[e.last].kind # "message"
    THEN {[heap |-> h, exc |-> e, dead |-> TRUE]}
    ELSE UNION {
        {LET g == [h EXCEPT ![n] = Message(e.type, d), ![d] = Text]
         IN [heap |-> AfterAssign(Linked(g, e, n), d),
             exc |-> [e EXCEPT !.first = IF @ = Null THEN n ELSE @,
                               !.last = Advanced(e, n)],
             dead |-> FALSE]
            : d \in Placements([h EXCEPT ![n] = Message(e.type, Null)])}
        : n \in Placements(h)}

(* The copy that throw makes: for each message one "test" of the           *)
(* exception's type is appended, and only then the message is asked for    *)
(* the next one.  It may have become a message by that, if it was none: a  *)
(* deleted one whose cell the copy was given.  When the next one is in the *)
(* copy, the copy follows itself for ever. *)
Messages(o) == LET s == Chain(o.heap, o.exc) IN {s[i] : i \in DOMAIN s}

CopyNext(o, cur) ==
    LET nxt == Behind(o.heap, cur)
        dies == o.heap[cur].kind # "message" \/ nxt \in Messages(o)
    IN [out |-> [heap |-> o.heap, exc |-> o.exc, dead |-> o.dead \/ dies], cur |-> nxt]

CopyOne(c) ==
    IF c.cur = Null \/ c.out.dead THEN {c}
    ELSE {CopyNext(o, c.cur) : o \in Asign(c.out.heap, c.out.exc)}

Copying(h, e) ==
    LET copy == [NewException EXCEPT !.type = e.type]
        after[k \in 0..Cells] ==
            IF k = 0 THEN {[out |-> [heap |-> h, exc |-> copy, dead |-> FALSE], cur |-> e.first]}
            ELSE UNION {CopyOne(c) : c \in after[k - 1]}
    IN after[Cells]

Copy(h, e) == {c.out : c \in Copying(h, e)}

(* ~Message deletes the rest of the list, then its text, then itself: the  *)
(* last message goes first.  As a mutant of LastFirst: the rest stays.     *)
FirstOnly(s) == SubSeq(s, 1, 1)
LastFirst(s) == [i \in 1..Len(s) |-> s[Len(s) + 1 - i]]

DeleteMessage(o, n) ==
    IF o.dead \/ o.heap[n].kind # "message" THEN [o EXCEPT !.dead = TRUE]
    ELSE [o EXCEPT !.heap = Delete(Delete(@, @[n].buf), n)]

DeleteMessages(h, s) ==
    LET order == LastFirst(s)
        after[k \in 0..Len(order)] ==
            IF k = 0 THEN [heap |-> h, dead |-> \E i \in DOMAIN s : h[s[i]].kind # "message"]
            ELSE DeleteMessage(after[k - 1], order[k])
    IN after[Len(order)]

Destroy(h, e) ==
    LET r == DeleteMessages(h, Chain(h, e))
    IN [heap |-> Delete(r.heap, e.print), dead |-> r.dead]

(* what(): clear the print buffer, then read each text that is not empty   *)
(* and push its bytes.  The first one must be mapped; a later one may also *)
(* have become the place of the growing print buffer.                      *)
What(h, e) ==
    LET g == Delete(h, e.print)
        s == Chain(h, e)
        read == {i \in DOMAIN s : ~(g[s[i]].kind = "message" /\ g[s[i]].empty)}
        readable(i) == g[s[i]].kind = "message" /\ g[g[s[i]].buf].kind # "none"
        printed == {[heap |-> r.heap, exc |-> [e EXCEPT !.print = r.buf], dead |-> FALSE]
                       : r \in PushBack(g, Null)}
        killed == {[heap |-> g, exc |-> [e EXCEPT !.print = Null], dead |-> TRUE]}
    IN IF read = {}
       THEN {[heap |-> g, exc |-> [e EXCEPT !.print = Null], dead |-> FALSE]}
       ELSE IF ~readable(Min(read)) THEN killed
       ELSE IF \A i \in read : readable(i) THEN printed
       ELSE printed \cup killed
=============================================================================
