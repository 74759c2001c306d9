----------------------------- MODULE ByteStream -----------------------------
(***************************************************************************)
(* What a connection queue promises to the code that uses it: a stream of  *)
(* bytes.  Bytes are named by their position in the stream, so that order, *)
(* loss and duplication show in the content.                               *)
(***************************************************************************)
EXTENDS Naturals, Sequences

VARIABLES content,      \* the bytes in the queue, oldest first
          written       \* how many bytes were ever added

Init == content = <<>> /\ written = 0

(* Bytes are only added at the end, in one piece ... *)
Write ==
    /\ written' > written
    /\ content' = content \o [i \in 1 .. written' - written |-> written + i]

(* ... and only taken off the front, any number that is there. *)
Drop ==
    /\ \E n \in 0 .. Len(content) : content' = SubSeq(content, n + 1, Len(content))
    /\ UNCHANGED written

Next == Write \/ Drop

Spec == Init /\ [][Next]_<<content, written>>
=============================================================================
