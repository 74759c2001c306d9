------------------------------- MODULE Strings -------------------------------
(***************************************************************************)
(* The searches, scans and comparisons of src/string.cpp and, for wide     *)
(* characters, src/linux/wchar.cpp.  A string is the sequence of its       *)
(* characters, positive numbers, without the terminator; positions count   *)
(* from 0 and None is the null pointer.  char is signed: strstr, which     *)
(* indexes tables with it, and the comparisons are modelled for ASCII.     *)
(***************************************************************************)
EXTENDS Integers, Sequences, FiniteSetsExt

CONSTANT WordSize   \* SS: bytes memchr looks at together

ASSUME WordAssumption == WordSize \in Nat \ {0}

None == -1      \* the null pointer, or no position
Beyond == -2    \* the function reads on behind the terminator

(* The character at an offset, the terminator included. *)
At(s, i) == IF i < Len(s) THEN s[i + 1] ELSE 0
Ascii(s) == \A i \in DOMAIN s : s[i] < 128

(* Where a loop that counts up from i stops: when P holds, or at end. *)
Until(i, end, P(_)) == Min({end} \cup {j \in i .. end : P(j)})
AtOrNone(i, end) == IF i < end THEN i ELSE None
From(s, i) == SubSeq(s, i + 1, Len(s))
Moved(i, by) == IF i \in {None, Beyond} THEN i ELSE i + by

-----------------------------------------------------------------------------
(* memchr on a buffer at an address: byte by byte up to a word boundary,   *)
(* by whole words that do not hold c, and byte by byte again. *)
Aligned(s, c, n, address) ==
    Until(0, n, LAMBDA j : (address + j) % WordSize = 0 \/ At(s, j) = c)
SkippedByFirstByte(s, c, n, i) ==   \* mutant: looks at a word's first byte
    Until(0, (n - i) \div WordSize, LAMBDA k : At(s, i + k * WordSize) = c)
SkippedWords(s, c, n, i) ==
    Until(0, (n - i) \div WordSize,
          LAMBDA k : \E j \in 0 .. WordSize - 1 : At(s, i + k * WordSize + j) = c)
MemChr(s, c, n, address) ==
    LET i == Aligned(s, c, n, address)
        k == SkippedWords(s, c, n, i)
    IN  AtOrNone(Until(i + k * WordSize, n, LAMBDA j : At(s, j) = c), n)
MemRChr(s, c, n) == Max({None} \cup {j \in 0 .. n - 1 : At(s, j) = c})

StrLen(s) == Until(0, Len(s), LAMBDA j : At(s, j) = 0)
StrChr(s, c) == MemChr(s, c, StrLen(s), 0)
StrRChr(s, c) == MemRChr(s, c, StrLen(s) + 1)
StrCSpn(s, set) ==
    CASE Len(set) = 0 -> StrLen(s)
      [] Len(set) = 1 -> IF StrChr(s, set[1]) # None THEN StrChr(s, set[1]) ELSE StrLen(s)
      [] OTHER -> Until(0, StrLen(s), LAMBDA j : \E k \in DOMAIN set : set[k] = At(s, j))
StrPBrk(s, set) == AtOrNone(StrCSpn(s, set), StrLen(s))

MemCmp(l, r, n) ==
    LET i == Until(0, n, LAMBDA j : At(l, j) # At(r, j))
    IN  IF i < n THEN At(l, i) - At(r, i) ELSE 0
StrNCmpOneMore(l, r, n) ==  \* mutant: the count is decremented too late
    LET i == Until(0, n, LAMBDA j : At(l, j) = 0 \/ At(r, j) = 0 \/ At(l, j) # At(r, j))
    IN  IF n = 0 THEN 0 ELSE At(l, i) - At(r, i)
StrNCmp(l, r, n) ==
    LET i == Until(0, n - 1, LAMBDA j : At(l, j) = 0 \/ At(r, j) = 0 \/ At(l, j) # At(r, j))
    IN  IF n = 0 THEN 0 ELSE At(l, i) - At(r, i)

-----------------------------------------------------------------------------
(* Copies inside one memory: memcpy byte by byte, memmove by way of a      *)
(* temporary. *)
MemCpy(mem, dest, src, n) ==
    LET copy[i \in 0 .. n] ==
            IF i = 0 THEN mem
            ELSE [copy[i - 1] EXCEPT ![dest + i] = copy[i - 1][src + i]]
    IN  copy[n]
MemMove(mem, dest, src, n) ==
    LET temp == SubSeq(mem, src + 1, src + n)
    IN  [j \in DOMAIN mem |-> IF j \in dest + 1 .. dest + n THEN temp[j - dest] ELSE mem[j]]
MemSet(mem, dest, value, n) ==
    [j \in DOMAIN mem |-> IF j \in dest + 1 .. dest + n THEN value ELSE mem[j]]

-----------------------------------------------------------------------------
(* Two-, three- and fourbyte_strstr: the last w characters and the first w *)
(* of the needle, as one number each. *)
ShortStrStr(h, n, w) ==
    LET Word(s, i) == [k \in 0 .. w - 1 |-> At(s, i + k)]
        last == Until(w - 1, Len(h), LAMBDA j : Word(h, j - w + 1) = Word(n, 0))
    IN  Moved(AtOrNone(last, Len(h)), 1 - w)

(* The maximal suffix of the needle, for one of the two orders of the      *)
(* characters, with its period. *)
NextSuffix(n, sign, s) ==
    LET diff == sign * (At(n, s.ip + s.k) - At(n, s.jp + s.k))
    IN  IF diff = 0 /\ s.k = s.p THEN [s EXCEPT !.jp = @ + s.p, !.k = 1]
        ELSE IF diff = 0 THEN [s EXCEPT !.k = @ + 1]
        ELSE IF diff > 0 THEN [s EXCEPT !.jp = @ + s.k, !.k = 1, !.p = s.jp + s.k - s.ip]
        ELSE [ip |-> s.jp, jp |-> s.jp + 1, k |-> 1, p |-> 1]
SuffixStates ==
    {s \in [ip : Int, jp : Nat, k : Nat, p : Nat] :
        s.ip >= -1 /\ s.k \in 1 .. s.p /\ s.p \in 1 .. s.jp - s.ip}
MaximalSuffix(n, sign) ==
    LET from[s \in SuffixStates] == IF s.jp + s.k < Len(n) THEN from[NextSuffix(n, sign, s)] ELSE s
    IN  from[[ip |-> -1, jp |-> 0, k |-> 1, p |-> 1]]

(* The factorization of a needle: its left part ends at ms, p is the shift *)
(* after a match of the right part, mem0 what may be remembered then. *)
FactorsOfOneOrder(n) ==     \* mutant: one maximal suffix only
    LET up == MaximalSuffix(n, 1)
    IN  [ms |-> up.ip, p |-> up.p, mem0 |-> Len(n) - up.p]
Factors(n) ==
    LET up == MaximalSuffix(n, 1)
        down == MaximalSuffix(n, -1)
        suffix == IF down.ip > up.ip THEN down ELSE up
        ms == suffix.ip
        periodic == MemCmp(n, From(n, suffix.p), ms + 1) = 0
    IN  IF periodic THEN [ms |-> ms, p |-> suffix.p, mem0 |-> Len(n) - suffix.p]
        ELSE [ms |-> ms, p |-> Max({ms, Len(n) - ms - 1}) + 1, mem0 |-> 0]

(* How far the narrow search advances for the character under the needle's *)
(* last one: 0 if that is its last one. *)
ShiftFor(c, n, f, mem) ==
    LET k == Len(n) - Max({0} \cup {i \in DOMAIN n : n[i] = c})
    IN  IF k \in 1 .. f.p - 1 /\ f.mem0 > 0 /\ mem > 0 THEN Len(n) - f.p ELSE k

(* The left part is compared backwards, down to what is remembered. *)
LeftStopShort(h, n, f, at, mem) ==  \* mutant: one comparison less
    Max({mem} \cup {k \in mem + 2 .. f.ms + 1 : n[k] # At(h, at + k - 1)})
LeftStop(h, n, f, at, mem) ==
    Max({Min({mem, f.ms + 1})} \cup {k \in mem + 1 .. f.ms + 1 : n[k] # At(h, at + k - 1)})

(* The needle is laid at one place of the haystack after the other, until *)
(* it matches, when it stays where it is. *)
NextWindow(h, n, f, narrow, s) ==
    LET last == IF narrow THEN ShiftFor(At(h, s.at + Len(n) - 1), n, f, s.mem) ELSE 0
        k == Until(Max({f.ms + 1, s.mem}), Len(n), LAMBDA j : At(n, j) # At(h, s.at + j))
    IN  IF last > 0 THEN [at |-> s.at + last, mem |-> 0]
        ELSE IF k < Len(n) THEN [at |-> s.at + k - f.ms, mem |-> 0]
        ELSE IF LeftStop(h, n, f, s.at, s.mem) = s.mem THEN s
        ELSE [at |-> s.at + f.p, mem |-> f.mem0]
TwoWay(h, n, narrow) ==
    LET f == Factors(n)
        from[s \in [at : Nat, mem : Nat]] ==
            LET t == NextWindow(h, n, f, narrow, s)
            IN  IF Len(h) - s.at < Len(n) THEN None ELSE IF t = s THEN s.at ELSE from[t]
    IN  from[[at |-> 0, mem |-> 0]]

(* strstr picks the search by how much of the haystack is left. *)
StrStr(h, n) ==
    LET first == StrChr(h, n[1])
        t == From(h, first)
    IN  CASE n = <<>> -> 0
          [] n # <<>> /\ (first = None \/ Len(n) = 1) -> first
          [] OTHER -> CASE Len(t) = 1 -> None
                        [] Len(t) \in 2 .. 4 -> Moved(ShortStrStr(t, n, Len(t)), first)
                        [] OTHER -> Moved(TwoWay(t, n, TRUE), first)

(* Other characters than ASCII are negative, and anything may come out. *)
StrStrOr(h, n, any) == IF Ascii(h) /\ Ascii(n) THEN StrStr(h, n) ELSE any

-----------------------------------------------------------------------------
(* Wide characters (wcslen, wmemcmp and wcspbrk do what their narrow       *)
(* namesakes do). *)
WMemChr(s, c, n) == AtOrNone(Until(0, n, LAMBDA j : At(s, j) = c), n)
WcsNLen(s, n) == IF WMemChr(s, 0, n) # None THEN WMemChr(s, 0, n) ELSE n
WcsChr(s, c) ==
    IF c = 0 THEN StrLen(s) ELSE AtOrNone(Until(0, StrLen(s), LAMBDA j : At(s, j) = c), StrLen(s))
WcsRChr(s, c) == Max({None} \cup {j \in 0 .. StrLen(s) : At(s, j) = c})
WcsCSpn(s, set) ==
    CASE Len(set) = 0 -> StrLen(s)
      [] Len(set) = 1 -> IF WcsChr(s, set[1]) # None THEN WcsChr(s, set[1]) ELSE StrLen(s)
      [] OTHER -> Until(0, StrLen(s), LAMBDA j : WcsChr(set, At(s, j)) # None)
WcsPBrk(s, set) == AtOrNone(WcsCSpn(s, set), StrLen(s))

(* naive_wcsstr: the outer loop tests both strings for their end, the      *)
(* inner one, which moves the haystack, neither. *)
NaiveWcsStr(h, n) ==
    LET from[s \in [at : Nat, i : Nat]] ==
            IF s.at + s.i > Len(h) THEN Beyond
            ELSE IF At(n, s.i) # At(h, s.at + s.i) THEN from[[at |-> s.at + 1, i |-> 0]]
            ELSE IF s.i + 1 = Len(n) THEN s.at
            ELSE IF s.at + s.i + 1 = Len(h) THEN None
            ELSE from[[at |-> s.at, i |-> s.i + 1]]
    IN  from[[at |-> 0, i |-> 0]]

WcsStr(h, n) ==
    LET first == WcsChr(h, n[1])
        t == From(h, first)
    IN  CASE n = <<>> -> 0
          [] n # <<>> /\ h = <<>> -> None
          [] n # <<>> /\ h # <<>> /\ (first = None \/ Len(n) = 1) -> first
          [] OTHER -> CASE Len(t) = 1 -> None
                        [] Len(t) > 1 /\ Len(n) <= 4 -> Moved(NaiveWcsStr(t, n), first)
                        [] OTHER -> Moved(TwoWay(t, n, FALSE), first)
=============================================================================
