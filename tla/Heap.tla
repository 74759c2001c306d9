-------------------------------- MODULE Heap --------------------------------
(***************************************************************************)
(* What a program that uses new, delete and realloc relies on: a block is  *)
(* its own from alloc to free, keeps what was written to it, and takes its *)
(* content along when realloc moves it.                                    *)
(***************************************************************************)
CONSTANTS Block,        \* the addresses a block can have
          Value,        \* what a program can write to a block
          Zero          \* the content of memory fresh from the kernel

VARIABLE store          \* the content of each block that the program has

Without(b) == [c \in DOMAIN store \ {b} |-> store[c]]

With(f, b, v) == [c \in DOMAIN f \cup {b} |-> IF c = b THEN v ELSE f[c]]

Init == store = [b \in {} |-> Zero]

Alloc(b) == b \notin DOMAIN store /\ store' = With(store, b, Zero)

Write(b, v) == b \in DOMAIN store /\ store' = With(store, b, v)

Free(b) == b \in DOMAIN store /\ store' = Without(b)

Move(b, c) ==
    /\ b \in DOMAIN store /\ c \notin DOMAIN store
    /\ store' = With(Without(b), c, store[b])

Next ==
    \E b \in Block : \/ Alloc(b)
                     \/ Free(b)
                     \/ \E v \in Value : Write(b, v)
                     \/ \E c \in Block : Move(b, c)

Spec == Init /\ [][Next]_store
=============================================================================
