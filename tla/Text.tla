-------------------------------- MODULE Text --------------------------------
(***************************************************************************)
(* The helpers of src/utils.cpp: numbers from and to text, comparison,     *)
(* pieces of strings, and the search and copy over the blocks of a con's   *)
(* queue (src/connection.cpp), which hold the text of a message.  Strings  *)
(* are as in Strings; digits, sign and blank have their ASCII codes.       *)
(***************************************************************************)
EXTENDS Strings, SequencesExt

CONSTANTS IntMax,       \* the largest int (and long: atoll does the same)
          UIntMax,      \* 4294967295, the limit that atoul knows
          NewLine, CarriageReturn   \* codes of the line ends

(* The last digits are those of INT_MAX, LONG_MAX and UINT_MAX. *)
ASSUME NumberAssumption ==
    /\ IntMax \in Nat /\ UIntMax \in Nat /\ 9 < IntMax /\ IntMax <= UIntMax
    /\ IntMax % 10 = 7 /\ UIntMax % 10 = 5

IntMin == -IntMax - 1
Blank == 32
Plus == 43
Minus == 45
Zero == 48
Garbage == -3   \* a byte of a new buffer that nothing has written
Over == -4      \* the number does not fit

Digit(s, i) == At(s, i) - Zero
IsDigit(s, i) == Digit(s, i) \in 0 .. 9
Positive(n) == IF n < 0 THEN -n ELSE n

(* Integer division of C, towards zero, and its remainder. *)
Quot(n, m) == IF n < 0 THEN -((-n) \div m) ELSE n \div m
Rem(n, m) == n - m * Quot(n, m)

-----------------------------------------------------------------------------
(* The loop over the digits, which gives up in front of one that would go  *)
(* over the limit (whose last digit is taken to be 7). *)
WithDigit(base, digit, limit) ==
    IF base = Over \/ base > limit \div 10 \/ (base = limit \div 10 /\ digit > 7) THEN Over
    ELSE 10 * base + digit
Digits(s, i, limit) ==
    LET read[j \in i .. Len(s)] ==
            IF j = i THEN 0 ELSE WithDigit(read[j - 1], Digit(s, j - 1), limit)
    IN  read[Until(i, Len(s), LAMBDA j : ~IsDigit(s, j))]

AfterBlanks(s) == Until(0, Len(s), LAMBDA j : At(s, j) # Blank)

SignedOverUp(s, lowest) ==  \* mutant: too low a number gives IntMax
    LET b == AfterBlanks(s)
        n == Digits(s, IF At(s, b) \in {Minus, Plus} THEN b + 1 ELSE b, IntMax)
    IN  IF n = Over THEN IntMax ELSE IF At(s, b) = Minus THEN -n ELSE n
Signed(s, lowest) ==
    LET b == AfterBlanks(s)
        sign == IF At(s, b) = Minus THEN -1 ELSE 1
        n == Digits(s, IF At(s, b) \in {Minus, Plus} THEN b + 1 ELSE b, IntMax)
    IN  IF n # Over THEN sign * n ELSE IF sign = 1 THEN IntMax ELSE lowest
AToI(s) == Signed(s, IntMin)
AToLL(s) == Signed(s, -IntMax)
AToUL(s) ==
    LET n == Digits(s, AfterBlanks(s), UIntMax) IN IF n = Over THEN UIntMax ELSE n

(* The digits of a number, lowest first; a number that stayed negative     *)
(* (-IntMin is IntMin) gives one digit below zero. *)
LowDigits(n) ==
    LET of[m \in Int] ==
            <<Zero + Rem(m, 10)>> \o (IF Quot(m, 10) > 0 THEN of[Quot(m, 10)] ELSE <<>>)
    IN  of[n]

Negated(n) == IF n = IntMin THEN IntMin ELSE -n
IToA(n) == Reverse(IF n < 0 THEN Append(LowDigits(Negated(n)), Minus) ELSE LowDigits(n))
ULToA(n) == Reverse(LowDigits(n))

-----------------------------------------------------------------------------
(* ncompare: 0, the position of a difference counted from 1, or -1. *)
NCompare(src, comp) ==
    LET i == Until(0, Len(comp), LAMBDA j : At(src, j) # At(comp, j))
    IN  IF Len(src) > Len(comp) THEN -1 ELSE IF i < Len(comp) THEN i + 1 ELSE 0

SubStr(s, from, to) == SubSeq(s, from + 1, to)

(* cleannewline: a piece ends at a line end; the next one starts behind    *)
(* the character after it when that one's position (not the character      *)
(* itself) is the code of a newline.  What follows the last line end is    *)
(* left out. *)
AtLineEnd(s, i) == i        \* mutant: the line end starts the next piece
AfterLineEnd(s, i) == IF i + 1 < Len(s) /\ i + 1 = NewLine THEN i + 2 ELSE i + 1

(* One pass of the loop, with the place where the next piece begins. *)
NextPiece(s, st) ==
    LET next == AfterLineEnd(s, st.i)
    IN  CASE st.i >= Len(s) -> st
          [] st.i < Len(s) /\ At(s, st.i) \notin {NewLine, CarriageReturn} -> [st EXCEPT !.i = @ + 1]
          [] OTHER -> [i |-> next + 1, from |-> next, text |-> st.text \o SubStr(s, st.from, st.i)]
CleanNewLine(s) ==
    LET pass[k \in 0 .. Len(s)] ==
            IF k = 0 THEN [i |-> 0, from |-> 0, text |-> <<>>] ELSE NextPiece(s, pass[k - 1])
    IN  pass[Len(s)].text

(* The console's operator>> adds what it reads in front of a newline to    *)
(* what the array has; at the end of the input, where read returns 0, it   *)
(* goes on forever.                                                        *)
Endless == <<NewLine>>
ReadLine(array, input) ==
    LET i == Until(0, Len(input), LAMBDA j : At(input, j) = NewLine)
    IN  IF i = Len(input) THEN Endless ELSE array \o SubStr(input, 0, i)

(* append of a string and of a character, to a string that may be null     *)
(* (<<>>); appending the character 0 does nothing. *)
AppendText(s, text) == s \o text
AppendChar(s, c) == IF c = 0 THEN s ELSE Append(s, c)

(* rfind runs its loop only from position 0, and then in front of the      *)
(* string. *)
RFind(s, len, c) == IF len > 0 THEN None ELSE IF At(s, 0) = c THEN 0 ELSE Beyond

-----------------------------------------------------------------------------
(* con::searchValue over a list of blocks: a byte that ends a partial      *)
(* match is not tried as the start of another one. *)
Found(pos, block) == [pos |-> pos, block |-> block]

MatchedKept(hit, matched) == IF hit THEN matched + 1 ELSE matched   \* mutant: no reset
Matched(hit, matched) == IF hit THEN matched + 1 ELSE 0

(* The blocks' bytes in their order, and what one byte does. *)
Places(blocks) ==
    FlattenSeq([b \in DOMAIN blocks |-> [i \in 1 .. Len(blocks[b]) |-> Found(i - 1, b)]])
SearchByte(st, blocks, place, key) ==
    LET hit == At(key, st.matched) = blocks[place.block][place.pos + 1]
    IN  [matched |-> Matched(hit, st.matched),
         start |-> IF ~hit THEN Found(0, 0) ELSE IF st.matched = 0 THEN place ELSE st.start]

SearchValue(blocks, key) ==
    LET places == Places(blocks)
        st[k \in 0 .. Len(places)] ==
            IF k = 0 THEN [matched |-> 0, start |-> Found(0, 0)]
            ELSE SearchByte(st[k - 1], blocks, places[k], key)
        ends == {k \in 1 .. Len(places) : st[k].matched = Len(key)}
    IN  IF ends = {} THEN Found(None, st[Len(places)].start.block) ELSE st[Min(ends)].start

(* con::copyValue from a position in the first block to one in a last      *)
(* block: what each block contributes to the new buffer.  In the first one *)
(* the end of the copy is taken as end - start; behind it the buffer is    *)
(* not written.  With start > end - start the copy runs away: it goes on   *)
(* behind the block until it leaves the memory, and no copy is returned.   *)
Runaway == <<Beyond>>
Contribution(data, start, end) ==
    SubSeq(data, start + 1, end - start) \o [i \in 1 .. start |-> Garbage]
CopyEndWhole(blocks, b, last, endpos) == Len(blocks[b])     \* mutant: no end position
CopyEnd(blocks, b, last, endpos) == IF b = last THEN endpos ELSE Len(blocks[b])
CopyRunsAway(blocks, startpos, last, endpos) ==
    CopyEnd(blocks, 1, last, endpos) < 2 * startpos
Contributions(blocks, startpos, last, endpos) ==
    [b \in 1 .. last |->
        IF b = 1 THEN Contribution(blocks[1], startpos, CopyEnd(blocks, 1, last, endpos))
        ELSE SubSeq(blocks[b], 1, CopyEnd(blocks, b, last, endpos))]
CopyValue(blocks, startpos, last, endpos) ==
    IF CopyRunsAway(blocks, startpos, last, endpos) THEN Runaway
    ELSE FlattenSeq(Contributions(blocks, startpos, last, endpos))
CopySize(blocks, startpos, last, endpos) ==
    LET size[b \in 0 .. last] == IF b = 0 THEN 0 ELSE size[b - 1] + CopyEnd(blocks, b, last, endpos)
    IN  size[last] - startpos
=============================================================================
