------------------------------- MODULE Library -------------------------------
(***************************************************************************)
(* The sequential functions of the library, called on bounded inputs: each *)
(* action is the call of one group of functions on one input, and the      *)
(* invariants compare what they answer with definitions of what they are   *)
(* for.                                                                    *)
(***************************************************************************)
EXTENDS Commands, Calendar, Floats, Exits

CONSTANTS Letters,              \* characters of strings and keywords
          MaxText, MaxWord,     \* bounds: length of a text, of a keyword
          MaxBuffer, MaxSet,    \* bounds: of what is scanned, of what is looked for
          MaxMemory, MaxLines,  \* bounds: of a memory, of a text with line ends
          BlockLists,           \* lists of blocks that are searched
          MaxBlocks, MaxBlock,  \* bounds: blocks that are copied from, size of one
          MaxRegs, MaxArgs,     \* bounds: registrations and arguments of a command line
          Registrations,        \* what registerCmd is called with
          MaxNumeral, MaxRoot,  \* bounds: length of a numeral, int whose root is taken
          LastDay,              \* bound: last day of the calendar, from 1970
          Years, Settings,      \* years and other fields that a Time is set to
          StrayDays,            \* days that come out of undefined behaviour
          Moments, DayTimes     \* days and seconds of the day that are compared

ASSUME InputsAssumption ==
    /\ Letters \subseteq Nat \ {0}     \* 0 is the terminator
    /\ {MaxText, MaxWord, MaxBuffer, MaxSet, MaxBlocks, MaxBlock} \subseteq Nat
    /\ {MaxRegs, MaxArgs, MaxNumeral, MaxMemory, MaxLines} \subseteq Nat
    /\ {NewLine, CarriageReturn} \subseteq Nat \ {1, 2}    \* the letters of the lines
    /\ BlockLists \subseteq Seq(Seq(Letters) \ {<<>>})
    /\ MaxRoot \in Nat /\ MaxRoot < TwoTo[HighBits + LowBits]   \* a double holds every int
    /\ LastDay \in Nat /\ Years \subseteq Int
    /\ Settings \subseteq [month : Nat, day : Nat, hour : Nat, min : Nat, sec : Nat]
    /\ StrayDays \subseteq 0 .. DayWrap - 1
    /\ \A d \in Moments \cup {LastDay} : 2 * d < DayWrap     \* an int counts the days
    /\ Moments \subseteq Nat /\ DayTimes \subseteq 0 .. SecondsPerDay - 1

VARIABLE call   \* the call made: its functions, input and answers

Idle == [fn |-> "none"]
Init == call = Idle
Call(c) == call' = c
In(fn) == call.fn = fn

-----------------------------------------------------------------------------
(* Strings. *)
Texts == BoundedSeq(Letters, MaxText)
Keywords == BoundedSeq(Letters, MaxWord)

Search ==
    /\ call = Idle
    /\ \E h \in Texts, n \in Keywords :
       \E any \in IF Ascii(h) /\ Ascii(n) THEN {None} ELSE {None, Beyond} \cup DOMAIN h :
       Call([fn |-> "search", h |-> h, n |-> n,
             narrow |-> StrStrOr(h, n, any), wide |-> WcsStr(h, n)])

Scans(s, c, set, n, address) ==
    [fn |-> "scan", s |-> s, c |-> c, set |-> set, n |-> n,
     memchr |-> MemChr(s, c, n, address), memrchr |-> MemRChr(s, c, n),
     wmemchr |-> WMemChr(s, c, n), wcsnlen |-> WcsNLen(s, n),
     strcspn |-> StrCSpn(s, set), wcscspn |-> WcsCSpn(s, set),
     strpbrk |-> StrPBrk(s, set), wcspbrk |-> WcsPBrk(s, set),
     strrchr |-> StrRChr(s, c), wcsrchr |-> WcsRChr(s, c)]
Scan ==
    /\ call = Idle
    /\ \E s \in BoundedSeq(Letters \cup {0}, MaxBuffer), c \in Letters \cup {0},
          set \in BoundedSeq(Letters, MaxSet), n \in 0 .. MaxBuffer, address \in 0 .. WordSize - 1 :
       n <= Len(s) + 1 /\ Call(Scans(s, c, set, n, address))

Order ==
    /\ call = Idle
    /\ \E l, r \in Keywords, n \in 0 .. MaxWord :
       Ascii(l) /\ Ascii(r) /\
       Call([fn |-> "order", l |-> l, r |-> r, n |-> n,
             strncmp |-> StrNCmp(l, r, n), memcmp |-> MemCmp(l, r, n), ncompare |-> NCompare(l, r)])

Memory == [i \in 1 .. MaxMemory |-> i]
Copy ==
    /\ call = Idle
    /\ \E dest, src, n \in 0 .. MaxMemory :
       /\ dest + n <= MaxMemory /\ src + n <= MaxMemory
       /\ Call([fn |-> "copy", dest |-> dest, src |-> src, n |-> n,
                memcpy |-> MemCpy(Memory, dest, src, n), memmove |-> MemMove(Memory, dest, src, n),
                memset |-> MemSet(Memory, dest, 0, n)])

-----------------------------------------------------------------------------
(* Utilities and the text in a con's blocks. *)
NumberChars == {Blank, Plus, Minus, Zero, Zero + 1, Zero + 2, Zero + 5, Zero + 7, Zero + 8}
ParseNumber ==
    /\ call = Idle
    /\ \E s \in BoundedSeq(NumberChars, MaxNumeral) :
       Call([fn |-> "parse", s |-> s, atoi |-> AToI(s), atoll |-> AToLL(s), atoul |-> AToUL(s)])

PrintNumber ==
    /\ call = Idle
    /\ \E n \in IntMin .. IntMax :
       Call([fn |-> "print", n |-> n, itoa |-> IToA(n), ultoa |-> ULToA(Positive(n))])

Cut ==
    /\ call = Idle
    /\ \E s \in BoundedSeq({1, 2, NewLine, CarriageReturn}, MaxLines), c \in {0, 1} :
       Call([fn |-> "cut", s |-> s, c |-> c, clean |-> CleanNewLine(s),
             line |-> ReadLine(<<1>>, s),
             twice |-> AppendText(s, AppendChar(s, c)), last |-> RFind(s, Len(s), c)])

SearchCon ==
    /\ call = Idle
    /\ \E blocks \in BlockLists, key \in Keywords :
       Call([fn |-> "searchcon", blocks |-> blocks, key |-> key, hit |-> SearchValue(blocks, key)])

CopyCon ==
    /\ call = Idle
    /\ \E blocks \in SeqOf(BoundedSeq(1 .. 3, MaxBlock) \ {<<>>}, MaxBlocks) :
       \E last \in DOMAIN blocks, startpos \in 0 .. MaxBlock - 1, endpos \in 1 .. MaxBlock :
           /\ startpos < Len(blocks[1]) /\ endpos <= Len(blocks[last])
           /\ Call([fn |-> "copycon", blocks |-> blocks, startpos |-> startpos, last |-> last,
                    endpos |-> endpos, size |-> CopySize(blocks, startpos, last, endpos),
                    buf |-> CopyValue(blocks, startpos, last, endpos)])

-----------------------------------------------------------------------------
(* Time. *)
At0(day, sec, nsec) == [day |-> day, sec |-> sec, nsec |-> nsec]
Days == (0 .. LastDay) \cup (157050 .. 157150)  \* and around the end of 2399

Date ==
    /\ call = Idle
    /\ \E d \in Days :
       LET ts == At0(d, d % SecondsPerDay, d)
       IN  Call([fn |-> "date", ts |-> ts, time |-> FromSpec(ts), back |-> ToSpec(FromSpec(ts)),
                 val |-> FromVal(ts), next |-> FromSpec([ts EXCEPT !.day = @ + 1])])

(* A Time whose fields were set one after another. *)
Set(y, f) ==
    SetField(SetField(SetField(SetField(SetField(SetField(
        NewTime, "year", y), "month", f.month), "day", f.day), "hour", f.hour), "min", f.min),
        "sec", f.sec)
Normalize ==
    /\ call = Idle
    /\ \E y \in Years, f \in Settings :
       LET t == Set(y, f)
       IN  \E stray, other \in IF Undefined(t) THEN StrayDays ELSE {0} :
           LET spec == ToSpecOr(t, stray)
           IN  Call([fn |-> "normalize", time |-> t, spec |-> spec,
                     val |-> ToValOr(t, other), again |-> FromSpec(spec)])

Subtract ==
    /\ call = Idle
    /\ \E d, e \in Moments, s, r \in DayTimes, n, m \in {0, 1} :
       LET t == At0(d, s, n)  u == At0(e, r, m)
       IN  Call([fn |-> "compare", t |-> t, u |-> u, diff |-> Compare(FromSpec(t), FromSpec(u))])

SetClock ==
    /\ call = Idle
    /\ \E d \in Moments, s \in DayTimes :
       LET clock == At0(d, s, 7)
       IN  Call([fn |-> "clock", clock |-> clock, after |-> SetHWTime(GetHWTime(clock))])

-----------------------------------------------------------------------------
(* Mathematics and the command line. *)
Classify ==
    /\ call = Idle
    /\ \E b \in Patterns :
       Call([fn |-> "classify", b |-> b, class |-> FpClassify(b), root |-> SqrtF(b),
             long |-> FpClassifyL(Exponent(b), Mantissa(b) + (IF Exponent(b) = 0 THEN 0 ELSE Hidden)),
             split |-> FrExpL(Exponent(b), Mantissa(b) + (IF Exponent(b) = 0 THEN 0 ELSE Hidden), 8)])

Root ==
    /\ call = Idle
    /\ \E x \in -MaxRoot .. MaxRoot : \E any \in {Trap, x} :
           Call([fn |-> "sqrt", x |-> x, root |-> SqrtInt(x, any)])

Keys == {<<"a">>, <<"b">>}
Arguments == {Long(<<"a">>), Long(<<"a", "">>), Long(<<"b", "v">>), Long(<<"a", "b", "v">>),
              Short("x"), Short("z"), Plain}
ASSUME RegistrationsAssumption ==
    Registrations \subseteq [key : Keys, skey : {"x", "y"}, required : BOOLEAN,
                             default : Seq(Seq(Int)), given : BOOLEAN]
Registered(regs) ==
    LET cmds[k \in 0 .. Len(regs)] ==
            IF k = 0 THEN <<>> ELSE RegisterCmd(cmds[k - 1], regs[k])
    IN  cmds[Len(regs)]
Parse ==
    /\ call = Idle
    /\ \E regs \in BoundedSeq(Registrations, MaxRegs),
          argv \in BoundedSeq(Arguments, MaxArgs) :
       LET cmds == ParseCmd(Registered(regs), argv)
       IN  Call([fn |-> "parsecmd", regs |-> regs, argv |-> argv, cmds |-> cmds,
                 complete |-> CheckRequired(cmds)])

(* Exit functions: registered one after another, then finalized twice. *)
Table(regs) ==
    LET table[k \in 0 .. Len(regs)] ==
            IF k = 0 THEN <<>>
            ELSE AtExit(table[k - 1], Entry(regs[k], Len(table[k - 1]) + 1))
    IN  table[Len(regs)]
Exit ==
    /\ call = Idle
    /\ \E regs \in BoundedSeq({"f", "g", "registers"}, MaxFuncs + 1),
          f, g \in {Everything, "f", "g", "registers", "late"} :
           LET table == Table(regs)
               one == Finalize(table, f)
           IN  Call([fn |-> "exit", regs |-> regs, f |-> f, g |-> g, table |-> table,
                     accepted |-> Accepted(table),
                     one |-> one, two |-> Finalize(one.table, g)])

Next ==
    \/ Search \/ Scan \/ Order \/ Copy
    \/ ParseNumber \/ PrintNumber \/ Cut \/ SearchCon \/ CopyCon
    \/ Date \/ Normalize \/ Subtract \/ SetClock
    \/ Classify \/ Root \/ Parse \/ Exit

Spec == Init /\ [][Next]_call

-----------------------------------------------------------------------------
Occurrences(h, n) == {i \in 0 .. Len(h) - Len(n) : SubSeq(h, i + 1, i + Len(n)) = n}
FirstOf(S) == IF S = {} THEN None ELSE Min(S)

(* The two-way search forgets to be exact for some periodic needles: it    *)
(* remembers more of a match than the left part, and takes the comparison  *)
(* of that part, which has nothing left to do, for a mismatch. *)
Overlong(n) == n # <<>> /\ Factors(n).mem0 > Factors(n).ms + 1

(* strstr finds the first occurrence of an ASCII needle in an ASCII text,  *)
(* unless the needle is one of those; it then still reports occurrences    *)
(* only.  This holds where the search suits the needle, when five          *)
(* characters are left of the haystack or as many as the needle has.       *)
StrStrFinds ==
    In("search") =>
        LET h == call.h  n == call.n
            left == Len(h) - FirstOf({i \in 0 .. Len(h) - 1 : n # <<>> /\ h[i + 1] = n[1]})
        IN  Ascii(h) /\ Ascii(n) /\ (Len(n) <= 1 \/ left \in {1, Len(n)} \/ left >= 5) =>
                /\ call.narrow \in Occurrences(h, n) \cup {None}
                /\ call.narrow = FirstOf(Occurrences(h, n)) \/ Overlong(n)

(* wcsstr finds what is there to find, again but for Overlong needles,     *)
(* reports occurrences only, and reads on behind the end only for a needle *)
(* of up to four characters that is not there. *)
WcsStrFinds ==
    In("search") =>
        LET found == Occurrences(call.h, call.n)
        IN  /\ call.wide \in found \cup {None, Beyond}
            /\ call.wide = FirstOf(found) \/ (Len(call.n) > 4 /\ Overlong(call.n))
                  \/ (call.wide = Beyond /\ found = {} /\ Len(call.n) \in 2 .. 4)

(* The scans answer with the first (the r ones with the last) position of  *)
(* what they look for in what they may look at: the string up to its       *)
(* terminator or the n characters of a buffer, at any alignment. *)
ScansFindFirst ==
    In("scan") =>
        LET s == call.s
            len == FirstOf({i \in 0 .. Len(s) : At(s, i) = 0})
            buffer == {i \in 0 .. call.n - 1 : At(s, i) = call.c}
            string == {i \in 0 .. len : At(s, i) = call.c}
            in == {i \in 0 .. len - 1 : \E k \in DOMAIN call.set : call.set[k] = At(s, i)}
        IN  /\ call.memchr = FirstOf(buffer) /\ call.wmemchr = FirstOf(buffer)
            /\ call.memrchr = Max(buffer \cup {None})
            /\ call.strrchr = Max(string \cup {None}) /\ call.wcsrchr = call.strrchr
            /\ call.strcspn = Min(in \cup {len}) /\ call.wcscspn = call.strcspn
            /\ call.strpbrk = FirstOf(in) /\ call.wcspbrk = call.strpbrk
            /\ call.wcsnlen = Min({len, call.n})

(* The comparisons order strings: the first difference within what is      *)
(* compared decides, antisymmetrically, and only equal ones give 0.        *)
ComparisonsOrder ==
    In("order") =>
        LET l == call.l  r == call.r  n == call.n
            differ == {i \in 0 .. Max({Len(l), Len(r)}) : At(l, i) # At(r, i)}
            sign == IF differ = {} \/ FirstOf(differ) >= n THEN 0
                    ELSE At(l, FirstOf(differ)) - At(r, FirstOf(differ))
        IN  /\ call.strncmp = sign /\ call.memcmp = sign
            /\ call.ncompare = 0 <=> l = r
            /\ call.ncompare > 0 => Len(l) <= Len(r) /\ call.ncompare = FirstOf(differ) + 1

-----------------------------------------------------------------------------
(* The number a text begins with. *)
Value(s) ==
    LET end == Until(0, Len(s), LAMBDA j : ~IsDigit(s, j))
        upTo[j \in 0 .. end] == IF j = 0 THEN 0 ELSE 10 * upTo[j - 1] + Digit(s, j - 1)
    IN  upTo[end]
WithoutBlanks(s) == From(s, Until(0, Len(s), LAMBDA j : At(s, j) # Blank))
Clamped(v, lo, hi) == Max({lo, Min({v, hi})})

(* atoi and atoll answer with the number, cut off at the ends of the range *)
(* (atoll one early below), atoul with the number up to its limit and a    *)
(* little more, and with the limit behind that.  What itoa and ultoa print *)
(* reads as the number again, but for the lowest int. *)
NumbersConvert ==
    /\ In("print") /\ call.n # IntMin =>
        /\ AToI(call.itoa) = call.n
        /\ AToUL(call.ultoa) = Positive(call.n)
    /\ In("parse") =>
        LET b == WithoutBlanks(call.s)
            signed == b # <<>> /\ Head(b) \in {Minus, Plus}
            v == IF signed THEN (IF Head(b) = Minus THEN -1 ELSE 1) * Value(Tail(b)) ELSE Value(b)
        IN  /\ call.atoi = Clamped(v, IntMin, IntMax)
            /\ call.atoll = Clamped(v, -IntMax, IntMax)
            /\ ~signed => call.atoul = IF v \div 10 = UIntMax \div 10 /\ v % 10 <= 7 THEN v
                                       ELSE Clamped(v, 0, UIntMax)

(* cleannewline keeps the characters in front of the last line end in      *)
(* their order: all but line ends, of which it keeps none but one that     *)
(* follows another, and the one that it takes for the second half of a     *)
(* line end.  append keeps both of its parts; a line read from the console *)
(* ends at the input's first newline.  memmove copies what was there       *)
(* before, whatever overlaps, memcpy as long as the destination does not   *)
(* begin inside the source; nothing else changes.                          *)
LineEnds(s) == {i \in DOMAIN s : s[i] \in {NewLine, CarriageReturn}}
TakenForEnd(s, i) == i = NewLine + 1 /\ i - 1 \in LineEnds(s)
KeptInOrder(s, clean) ==
    \E at \in [DOMAIN clean -> 1 .. Max({0} \cup LineEnds(s)) - 1] :
        /\ \A k \in DOMAIN clean : clean[k] = s[at[k]]
        /\ \A j, k \in DOMAIN clean : j < k => at[j] < at[k]
        /\ \A i \in 1 .. Max({0} \cup LineEnds(s)) - 1 :
               IF i \in LineEnds(s)
               THEN i \in Range(at) => \E j \in LineEnds(s) : j \in {i - 1, i - 2}
               ELSE i \in Range(at) \/ TakenForEnd(s, i)
PiecesInOrder ==
    /\ In("copy") =>
        LET to == call.dest + 1 .. call.dest + call.n
            moved == [i \in DOMAIN Memory |->
                         IF i \in to THEN Memory[i - call.dest + call.src] ELSE Memory[i]]
        IN  /\ call.memmove = moved
            /\ call.memcpy = moved \/ call.dest \in call.src + 1 .. call.src + call.n - 1
            /\ \A i \in DOMAIN Memory : call.memset[i] = IF i \in to THEN 0 ELSE Memory[i]
    /\ In("cut") =>
        /\ KeptInOrder(call.s, call.clean)
        /\ \/ call.line = Endless /\ NewLine \notin {call.s[i] : i \in DOMAIN call.s}
           \/ /\ IsPrefix(Append(Tail(call.line), NewLine), call.s)
              /\ \A i \in DOMAIN call.line : call.line[i] # NewLine
        /\ SubStr(call.twice, 0, Len(call.s)) = call.s
        /\ SubStr(call.twice, Len(call.s), 2 * Len(call.s)) = call.s

-----------------------------------------------------------------------------
(* searchValue reports where the keyword is, with the block it begins in,  *)
(* and finds it if it begins with the first of its characters' occurrences.*)
BytesBefore(blocks, b) == Len(FlattenSeq(SubSeq(blocks, 1, b - 1)))
ConSearchSound ==
    In("searchcon") /\ call.key # <<>> =>
        LET text == FlattenSeq(call.blocks)
            at == BytesBefore(call.blocks, call.hit.block) + call.hit.pos
            first == FirstOf({i \in 0 .. Len(text) - 1 : text[i + 1] = call.key[1]})
        IN  /\ call.hit.pos # None => at \in Occurrences(text, call.key)
            /\ first \in Occurrences(text, call.key) => call.hit.pos # None /\ at = first

(* copyValue returns the size of the text between the two positions, and   *)
(* every byte of it that it writes is the right one at its place; from the *)
(* start of a block it writes all of them.  From behind the middle of what *)
(* is to be copied of the first block it never returns. *)
ConCopyInPlace ==
    In("copycon") =>
        LET upTo == [b \in 1 .. call.last |->
                        IF b = call.last THEN SubSeq(call.blocks[b], 1, call.endpos) ELSE call.blocks[b]]
            text == From(FlattenSeq(upTo), call.startpos)
        IN  IF 2 * call.startpos > Len(upTo[1]) THEN call.buf = Runaway
            ELSE /\ call.size = Len(text) /\ Len(call.buf) = call.size
                 /\ \A i \in DOMAIN text : call.buf[i] \in {text[i], Garbage}
                 /\ call.startpos = 0 => call.buf = text

-----------------------------------------------------------------------------
(* The Gregorian calendar, by its own rules. *)
IsLeap(y) == y % 400 = 0 \/ (y % 4 = 0 /\ y % 100 # 0)
MonthLength(y, m) ==
    IF m = 2 THEN (IF IsLeap(y) THEN 29 ELSE 28) ELSE IF m \in {4, 6, 9, 11} THEN 30 ELSE 31
LeapYearsBefore(y) == {x \in 1970 .. y - 1 : IsLeap(x)}
FirstOfMonths(y) ==
    LET first[m \in 1 .. 12] == IF m = 1 THEN 0 ELSE first[m - 1] + MonthLength(y, m - 1)
    IN  first
DaysBefore(y, m) == 365 * (y - 1970) + Cardinality(LeapYearsBefore(y)) + FirstOfMonths(y)[m]
NextDate(t) ==
    IF t.day < MonthLength(t.year, t.month) THEN [t EXCEPT !.day = @ + 1]
    ELSE IF t.month < 12 THEN [t EXCEPT !.day = 1, !.month = @ + 1]
    ELSE [t EXCEPT !.day = 1, !.month = 1, !.year = @ + 1]

(* Day by day from 1970-01-01 a count of seconds becomes the date and time *)
(* of the calendar, and that date the same count again. *)
DatesFollow ==
    In("date") =>
        /\ call.ts.day = 0 => call.time = NewTime
        /\ call.next = NextDate(call.time)
        /\ call.back = call.ts
        /\ Seconds(call.time) = call.ts.sec /\ call.time.sec < 60 /\ call.time.min < 60
        /\ call.val = [call.time EXCEPT !.nsec = 1000 * @]

(* What the setters accepted is the instant its fields say, counted from   *)
(* 1970, and the date made of that is a real one.  Exempt are instants     *)
(* before 1970, which wrap, month 0 and years whose days overflow an int.  *)
SetTimesNormalize ==
    In("normalize") =>
        LET t == call.time
            days == DaysBefore(t.year, t.month) + t.day - 1
        IN  ~Undefined(t) /\ t.year >= 1970 /\ days >= 0 =>
                /\ call.spec = Instant(days, Seconds(t), 0) /\ call.val = call.spec
                /\ ToSpec(call.again) = call.spec
                /\ call.again.month \in 1 .. 12
                /\ call.again.day \in 1 .. MonthLength(call.again.year, call.again.month)

(* The difference of two times, the later first, is the time that has      *)
(* passed, as a date from 1970 on, unless nanoseconds had to be borrowed.  *)
(* Setting the clock to the time read from it does not move it. *)
DifferencesElapse ==
    /\ In("clock") => call.after = call.clock
    /\ In("compare") =>
        LET t == call.t  u == call.u
            later == t.day > u.day \/ (t.day = u.day /\ t.sec >= u.sec)
        IN  later /\ t.nsec >= u.nsec =>
                LET d == ToSpec(call.diff)
                IN  Instant(u.day + d.day, u.sec + d.sec, u.nsec + d.nsec) = t

-----------------------------------------------------------------------------
(* The value of a pattern, times 2^(MantBits + Bias), as mantissa and      *)
(* exponent. *)
MantOf(b) == Mantissa(b) + (IF Exponent(b) = 0 THEN 0 ELSE Hidden)
ExpOf(b) == Max({Exponent(b), 1})

(* Each pattern is in one class, and the macros and the functions agree    *)
(* which. *)
ClassesAgree ==
    In("classify") =>
        LET b == call.b
        IN  /\ call.long = call.class
            /\ IsInf(b) <=> call.class = "infinite"
            /\ IsNan(b) <=> call.class = "nan"
            /\ IsNormal(b) <=> call.class = "normal"
            /\ IsFinite(b) <=> call.class \in {"normal", "subnormal", "zero"}

(* sqrtf answers with the number nearest to the root: half a unit of its   *)
(* last place away at most.  frexpl keeps the value and leaves the leading *)
(* bit of the mantissa set.  sqrt of an int from 0 on is its root, rounded *)
(* down; that of a negative int is not defined. *)
RootsAreNearest ==
    /\ In("sqrt") /\ call.x >= 0 =>
        call.root * call.root <= call.x /\ call.x < (call.root + 1) * (call.root + 1)
    /\ In("classify") /\ call.class \in {"normal", "subnormal"} =>
        LET b == call.b  y == call.root
            \* 4 * value of b in units of the square of y's last place
            shift == ExpOf(b) + Bias + MantBits - 2 * ExpOf(y)
            square == 4 * MantOf(b) * TwoTo[shift]
        IN  /\ SignBit(b) = 0 =>
                   /\ FpClassify(y) = "normal"
                   /\ (2 * MantOf(y) - 1) * (2 * MantOf(y) - 1) <= square
                   /\ square <= (2 * MantOf(y) + 1) * (2 * MantOf(y) + 1)
            /\ call.split.m \in Hidden .. 2 * Hidden - 1
            /\ MantOf(b) * TwoTo[ExpOf(b) + MantBits] = call.split.m * TwoTo[call.split.e + (Bias - 1) + MantBits]

-----------------------------------------------------------------------------
(* A command counts as found only if an argument names it, its value comes *)
(* from an argument that does or from one behind a short option, and the   *)
(* required commands are complete when each was found.  Behind a short     *)
(* option any argument passes for its value.  Keys are unique: of the      *)
(* registrations with one key that are accepted the last one counts.       *)
Names(arg, cmd) ==
    \/ arg.kind = "long" /\ KeyOf(arg) = cmd.key
    \/ arg.kind = "short" /\ arg.skey = cmd.skey
Plains(argv) == {i \in DOMAIN argv : argv[i].kind = "plain"}
Shorts(argv) == {i \in DOMAIN argv : argv[i].kind = "short"}
Own(cmd, argv) == {i \in DOMAIN argv : (\A j \in Plains(argv) : i < j) /\ Names(argv[i], cmd)}
Earned(cmd, argv) ==
    /\ cmd.found => \E i \in DOMAIN argv : Names(argv[i], cmd)
    /\ cmd.value # Default =>
           /\ cmd.found
           /\ \/ /\ argv[cmd.value].kind = "long" /\ Names(argv[cmd.value], cmd)
                 /\ HasValue(argv[cmd.value])
              \/ \E i \in Shorts(argv) : i < cmd.value /\ Names(argv[i], cmd)
    /\ Shorts(argv) = {} =>
           /\ cmd.found <=> Own(cmd, argv) # {}
           /\ cmd.value = Max({Default} \cup {i \in Own(cmd, argv) : HasValue(argv[i])})
KeysUnique(cmds) == \A c, d \in DOMAIN cmds : cmds[c].key = cmds[d].key => c = d
LastOfKey(regs, i) ==
    /\ regs[i].given
    /\ \A j \in i + 1 .. Len(regs) : regs[j].given => regs[j].key # regs[i].key
Keeps(cmd, reg) ==
    /\ cmd.key = reg.key /\ cmd.skey = reg.skey /\ cmd.required = reg.required
    /\ cmd.default = reg.default \/ (reg.default = Null /\ cmd.default = AText(<<>>))
LastCounts(cmds, regs) ==
    \A i \in DOMAIN regs : LastOfKey(regs, i) => \E c \in DOMAIN cmds : Keeps(cmds[c], regs[i])
FoundAreNamed ==
    In("parsecmd") =>
        /\ \A c \in DOMAIN call.cmds : Earned(call.cmds[c], call.argv)
        /\ KeysUnique(call.cmds) /\ LastCounts(call.cmds, call.regs)
        /\ call.complete <=> \A c \in DOMAIN call.cmds :
                                 call.cmds[c].found \/ ~call.cmds[c].required

-----------------------------------------------------------------------------
(* __cxa_finalize calls the objects' exit functions in the reverse of the  *)
(* order in which they were registered, those of one function or all of    *)
(* them, but none that is registered while it runs.  What it called for    *)
(* one function is not called again.  Only what did not fit into the table *)
(* is refused.                                                             *)
Descending(called) ==
    \A i, j \in DOMAIN called :
        i < j /\ "late" \notin {called[i].f, called[j].f} => called[i].obj > called[j].obj
Disjoint(called, again) ==
    \A i \in DOMAIN called, j \in DOMAIN again : called[i] # again[j]
ExitsReverse ==
    In("exit") =>
        LET n == Min({Len(call.regs), MaxFuncs})
            wanted == {i \in 1 .. n : call.f \in {Everything, call.regs[i]}}
        IN  /\ {call.one.called[k] : k \in DOMAIN call.one.called}
                   = {Entry(call.regs[i], i) : i \in wanted}
            /\ Descending(call.one.called) /\ Descending(call.two.called)
            /\ call.accepted = 0 <=> n < MaxFuncs
            /\ call.f # Everything => Disjoint(call.one.called, call.two.called)
=============================================================================
