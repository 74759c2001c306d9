# A verification model of libsystempp

libsystempp is a freestanding C++ run-time library for Linux on x86_64
(`-nostdlib`, its own system call layer, allocator, threads, mutex, exceptions,
strings, sockets and an epoll server loop). This directory holds TLA+ modules
translated from its source, TLC configurations that check them on small
instances, and TLAPS proofs of their main invariants. Paths below are relative
to the repository.

## 1. The system

| Component | Source | State | Operations | What makes it correct | Modelled |
|---|---|---|---|---|---|
| Mutex | `src/linux/mutex.cpp` | one futex word per mutex; three function-local statics shared by all mutexes | lock, trylock, unlock, pthread wrappers | one holder; sleepers are woken; never everybody asleep | yes |
| Allocator | `src/linux/alloc.cpp` | list of mapped blocks behind a `sys::mutex` | alloc, realloc, free | a block has one owner, is in the list until freed, and keeps its content, with calls of several threads under way | yes |
| Thread, ThreadPool | `src/linux/thread.cpp`, `clone.S` | two pid words per thread; list of jobs | start, join, joinable, addjob, deljob | the list has every job and leads over no deleted one; join returns when the jobs have ended | yes |
| Array, SystemException | `src/include/systempp/sysarray.h`, `src/exception.cpp` | owned buffers, list of messages | assign, push_back, message, throw (copy), what | a buffer has one owner; messages keep their order; nothing is left | partly |
| Sockets | `src/linux/socket.cpp` | descriptor, address and path of each end | construct, accept, send, receive, destroy | each descriptor has one owner | partly |
| Connection queues | `src/connection.cpp` | linked list of blocks, first, last and byte counter | add, resize, clean, for sending and receiving | a byte stream: nothing lost, repeated or reordered; no block leaked or used after deletion | yes |
| Connection search and copy | `src/connection.cpp` | none of their own | searchValue, copyValue | the position of the keyword; the copied range | yes |
| Event loop | `src/linux/event.cpp` | epoll interest list, entry being handled, con objects | wait, connect, read, write and close handlers, sendReady, worker loop | epoll only knows live cons; queued data is sent, once; gone peers are closed, also when a step of closing fails | yes |
| Strings, wide strings | `src/string.cpp`, `src/linux/wchar.cpp` | none | searches, scans, comparisons, copies | agree with their definition | yes |
| Utilities | `src/utils.cpp` | none | atoi, itoa, ncompare, append, substr, cleannewline, ... | agree with their definition, at the ends of their width | yes |
| Time | `src/linux/time.cpp` | calendar fields | from and to seconds, setters, compare, clock | the calendar, day by day; inverse of each other | partly |
| Mathematics | `src/math.cpp`, `src/include/math.h` | none | classification, sqrtf, integer sqrt, frexpl; polynomials | the nearest root; one class per number | partly |
| Command line | `src/libcmd/cmd.cpp` | list of options | registerCmd, parseCmd, getCmdbyKey, checkRequired | an option is found when it is named, with its own value | yes |
| C++ run-time support | `src/linux/cxa_exception.cpp` | table of exit functions, guard bytes | atexit, finalize, guards | each exit function in reverse order | partly |
| Console, files | `src/linux/console.cpp`, `file.cpp` | descriptor | read, write, read a line | the line read | partly |
| Exec | `src/linux/exec.cpp` | child pid | fork and exec, join | a failed exec does not run on as the parent | no |
| System information, sleep, unistd, system calls, start-up | `src/linux/...` | none | one system call or instruction each | | no |
| confdb, dirsrv, uuid, locale, sysprocess | empty files | | | | no |

How they interact. Application code implements the hooks of `eventapi`
(Connect-, Request-, Response-, DisconnectEvent) and calls back into the
connection (`addSendQueue`, `cleanSendData`, `resizeRecvQueue`), which calls
`sendReady` of the loop, which changes what epoll waits for. The loop is started
by `runEventloop` as a thread of a ThreadPool, on which the main thread joins.
Every `new` and `delete` goes through the allocator, which takes a `sys::mutex`.
Errors travel as SystemException, whose messages are arrays. What is hard in
this code is therefore: threads racing on the mutex's words and, through it, on
the allocator's list; pointers kept in the kernel across callbacks and
deletions; partial sends and peers that stop reading or vanish; lists from which
an element is deleted while they are walked; buffers with two owners after an
assignment or a throw; and pointer-and-counter bookkeeping or arithmetic in
which one wrong assignment shows only for particular inputs.

`PROJECT.json` lists every hazard at its line with the properties that would
catch it going wrong, the mutants that show each property can fail, and for each
definition the source lines it stands for.

## 2. Modules

| Module | Models | Theorems in |
|---|---|---|
| `Mutex` | `sys::mutex` at the grain of its memory accesses and futex calls | `MutexProofs` |
| `Allocator` | alloc, realloc and free of several threads on the heap list | `AllocatorProofs` |
| `Heap` | what a program relies on when it uses new, delete and realloc | |
| `ConQueue` | one queue of a `sys::con` | `ConQueueProofs` |
| `ByteStream` | what such a queue promises | |
| `EventLoop` | the worker, the handlers, epoll, peers and hooks | `EventLoopProofs` |
| `Exceptions` | `array<char>` and SystemException as operators on a heap | `ProgramProofs` |
| `Threads` | Thread and ThreadPool | `ProgramProofs` |
| `Program` | the main thread of a program: EXTENDS Exceptions and Threads, adds the sockets | `ProgramProofs` |
| `Strings` | string.cpp, wchar.cpp | |
| `Text` | utils.cpp, searchValue and copyValue, the console's line reader | |
| `Calendar` | time.cpp | |
| `Floats` | the bit-level part of math.cpp and math.h | |
| `Commands` | cmd.cpp | |
| `Exits` | the exit function table | |
| `Library` | calls the functions of the last six on bounded inputs and says what they are for | `LibraryProofs`, `NumberProofs` |
| `Induction` | what the proofs share about counting and recursion | itself |
| `MCMutex`, `MCAllocator`, `MCConQueue`, `MCEventLoop`, `MCProgram`, `MCLibrary` | symmetry and other definitions for TLC | |

### Mutex

`word[m]` is `*_mutex`. The statics `exp` of lock, trylock and unlock are
`lockExp`, `tryExp`, `unlockExp`: one each, because a function-local static
belongs to the function and not to the object (`des` never changes and is a
constant here). `__atomic_compare_exchange` compiles to a load of `exp`, a
`cmpxchg`, and a store of the old word into `exp` if that failed; `LockLoad`,
`LockCas`, `LockStore` (and the same for the other two) are those accesses. The
load and the store are plain and race with those of other threads, which is
undefined in C++; on x86_64 the outcomes are those of atomic 8-byte accesses,
which is what the interleaved steps produce. The futex calls are external:
`FUTEX_WAIT` with value 0 sleeps if the word is 0 and else returns -EAGAIN,
which the loop `while(s==-1)` does not repeat; `FUTEX_WAKE` wakes the first
waiter, whose lock() then returns. Spurious returns of FUTEX_WAIT are not
modelled. A caller does not lock what it holds, unlocks only what it holds, and
does not delete a mutex in use; from its call of unlock() on it is no longer a
holder.

### ConQueue and ByteStream

A byte is its position in the stream of all bytes ever added, so that loss,
repetition and reordering show. Blocks are addresses: `alive` is what is
allocated, `next`, `data`, `dsize` are the fields of condata, `first`, `last`,
`qsize` those of con. `_resizeQueue` is a little program: `Resize` is its entry
(guard and decrement of the counter), `DropBlock` one turn of the HAVEDATA loop,
`KeepBlock` leaving it, `ShiftByte` one turn of the in-place move, `ShiftDone`
the decrement of `_DataSize`. `Clean` deletes what `~condata` reaches through
`next` (`Linked`), not what the model knows to be in the list. Calls that throw
before they change anything are stuttering steps. `chain` and `written` are
ghosts. Reuse of a freed address is included: an address that left `alive` can
be taken again.

`ByteStream` says what a queue is for: bytes are appended in one piece and taken
off the front. `Contents` maps a queue's blocks to the stream's content, in the
middle of a shift too; `ImplementsStream` is checked as a property and proved.

### EventLoop

One worker (`thrs = 1`) with a program counter: `head` is the `while` of
WorkerThread, `wait` is epoll_wait, then one label per handler. `Wait` picks any
ready entry, since the code handles only the last of those returned and which
one that is is up to the kernel, and `Dispatch` is the end of waitEventHandler:
listener, queued data, or neither. A handler is split where the application or
another party can see a difference: WriteEventHandler into the send, the queue
and epoll update, and the hook. `Throw` is a SystemException leaving a handler:
CloseEventHandler follows, unless reading the exception's message kills the
process (its text has been freed by then). `dead` is a process killed by a bad
pointer or by SIGPIPE.

CloseEventHandler has the steps of its code. `CloseCon` takes the con out of
epoll and enters DisconnectEvent, the fourth hook, in which the application can
queue data like in any other (`SendReady` then fails, since epoll does not know
the con any more; the data is queued all the same). `Delete` is the rest: the
con goes with what the hook queued. `CloseFails` is EPOLL_CTL_DEL refused, which
the handler's own catch swallows: the con stays registered and the loop goes on.
`DisconnectThrows` is the hook throwing into the same catch: the con is neither
registered nor deleted, its socket stays open, and no event can bring it back.
The ghost `stranded` has these cons. `CloseListener` is the code on the
listener's nullptr. `AcceptFails` and `AddFails` are acceptEvent failing and
setnonblocking or EPOLL_CTL_ADD failing after it: both leak the new con.

The kernel and the clients are external: `Ready` is level-triggered epoll,
`inbuf` and `outbuf` are the socket's buffers as numbers of bytes, peers send,
read, shut down and reset at any time. In a hook the application queues data on
any connection, takes it back, returns or throws. In the source the hooks of
EPOLL are empty and the class is local to its file; the model takes them for
what `eventapi` declares them to be. The send queue appears as the sizes of its
blocks: what happens inside it is ConQueue's.

`PackedEvents` says which layout of `struct epoll_event` the kernel uses. FALSE
is the layout the source declares, and the runs about the loop's own logic use
it; TRUE is the x86_64 kernel's. On that kernel the loop does not survive its
first connection event (section 4), so that the other runs say what the code
does once the declaration is packed.

The models take `throw` and `catch` to mean what C++ says; the library's own
`__cxa_throw` is a stub.

### Allocator and Heap

A block is the mapping of one `heap` header with its bytes, named by its
address; `mapped`, `size`, `prev`, `last` are the kernel's mappings and the
fields `_size`, `_prevheap` and `_lastheap`. A thread's program counter says
where it is in a call: `a_lock` and `a_link` are the two sides of the plain store
`block->_prevheap=_lastheap`, `f_walk` and `r_walk` one turn of the loops of free
and realloc, `r_copy` the copy between realloc's unlock and its own free. Locks
are taken and given back by the action with the first and last access they
protect. realloc's call of alloc and free is the same code with `moving` set.

`_memlock` is a sys::mutex, and that lets a second thread in while one is inside
(run `mutex_exclusion`). So does `Take`: `locking` is the set of threads inside,
and the ghost `overlaps` counts how often one entered while others were there,
up to `MaxOverlaps`. From then on two calls edit the list at once: links are
lost, a walk can follow a header that is not mapped any more (`Touched`), and the
process dies (`Faults`). `HeapLinked`, the second half of `NothingLost` and
`ImplementsHeap` are therefore about the time up to the first overlap; that no
block is freed under its owner (`Apart`) holds after it as well. What is left
to show up to an overlap is the allocator's own protocol: which steps are inside
the lock, that realloc may use after unlock what it looked up before, and what
mapping and copying outside of it do to others.

A program passes back only what it was given (`given`), once. mmap may fail; only
-1 is recognised as failure, any other -errno is used as an address, which the
model counts as a killed process (`dead`), and so is a copy that does not fit
into the smaller new block, unless the rest of its last page absorbs it. Memory
fresh from the kernel is zero, also when an address is given out again.
`linked`, `before` and `given` are ghosts: the blocks of the list, in the order
in which they were linked, and what the program has.

`Heap` is the promise: alloc gives a block nobody has, filled with zeros, free
takes one back, realloc moves the content to a block nobody has, and nothing but
the owner's writes changes it. `ImplementsHeap` maps what the program was given
and what realloc is moving, which stays at its old address until realloc
returns.

### Exceptions, Threads and Program

The cells of Exceptions are mappings: a text buffer, a message, an address
structure. Every new takes one of the first `Gaps` free cells, so that a freed
cell may or may not come back at once; deleting what is not mapped does nothing,
as `free` of the allocator. An operation is the set of its outcomes. In
`operator=(const char*)` the array is returned by value: the temporary shares the
buffer and deletes it (`AfterAssign`), so that the texts of messages are gone
before what() reads them (`What`); messages themselves, their order, types and
deletion are not harmed, which is what `MessagesInOrder` and `NothingLeft` say.
`Copy` is the copy that `throw` makes, a message `"test"` for each message: each
turn appends one and only then asks the original's message for the next one, so
that a deleted message whose cell the copy was given is followed into the copy.

Threads has the two pid words of a Thread: `_ParentPid` gets the id (clone with
CLONE_PARENT_SETTID), `_ThreadPid` is cleared at the end (CLONE_CHILD_CLEARTID)
and set by nothing. Addresses of Threads are used again. deljob unlinks, deletes,
and goes on from the deleted job, which kills the process unless another thread
runs that may have been given the address (`ReadsOn`); `_lastThread` stays, so
that a later addjob may write behind a deleted job (`BehindDeleted`) and lose the
new one, which the ghost `strayed` records. Deleting a Thread does not end its
thread (`orphans`): when that ends, the kernel writes its zero to where the
object was, in another Thread or, outside of the Threads (`LateEnd`), into a
message's text size or a word that does not matter (`ZeroWritten`).

Program is the main thread: it opens, accepts on and closes sockets, or uses a
pool, and in between it catches what the calls throw. A throw takes the steps
the source takes: build the exception message by message (`AddMessage`), copy
and destroy the original with the members of the object under construction
(`Throw`), read, throw again, destroy. `open` and `named` are the kernel's
descriptors (lowest free first) and the socket file; `lost` counts what nothing
refers to any more: the descriptor of a constructor that threw after socket(),
and the address structure whose pointer accept overwrote. The program does not
accept twice on one ClientSocket, and calls nothing on a deleted object.

### Library

`Library` has one action per group of functions: it calls them on one input and
keeps input and answers in `call`; the invariants compare the answers with
definitions of what the functions are for. An index that the code would read
behind the end of a buffer is `Beyond`, uninitialised memory `Garbage`, a loop
that does not end `Endless`.

Narrowed widths: a word has 2 bytes instead of 8 (`WordSize`: the alignment and
HASZERO loops), an int 8 bits (`IntMax`, `UIntMax`), a float 4 bits of exponent
and of mantissa, the table of exit functions 4 entries instead of 1024. The
constants of the code that depend on the width are computed from these. Two things
that hold for every width in the code are assumed of the narrowed ones: the last
digits of the largest int and unsigned are 7 and 5 (`NumberAssumption`; the digit
loop has a 7 for both), and a mantissa has fewer bits than the exponent bias says
(`RangeAssumption`), so that the root of a subnormal number is normal.

What the functions do not do, and the invariants therefore except:
- the two-way search of strstr and wcsstr misses some periodic needles
  (`Overlong`: the memory of the last match is longer than the left factor, and
  `k==mem` is then never true, string.cpp:202);
- strstr picks the search by the number of characters left, not by the needle
  (string.cpp:282), and is exact where the two agree or five are left;
- wcsstr reads on behind the end for a short needle that is not there;
- atoll is clamped one above the lowest number, atoul takes any digit up to 7
  after the limit's prefix, itoa does not print the lowest int;
- the two-way search and strncmp are for ASCII: a char above 127 is negative, as
  an index of strstr's tables too (string.cpp:110), and any answer may come out
  (`StrStrOr`);
- searchValue finds a keyword for sure only at the first occurrence of its first
  character (connection.cpp:252);
- copyValue subtracts the start from the end of its copy of the first block
  (connection.cpp:217). From inside a block the last bytes of that block's part
  stay unwritten (`Garbage`), which `ConCopyInPlace` allows; from behind the
  middle of what is to be copied it runs through the memory and does not return
  (`CopyRunsAway`, `Runaway`), which `ConCopyInPlace` states as an equivalence;
- setMounth accepts 0, which indexes the table of days with -1, and the days of a
  year far away are no int (time.cpp:223-224): any day may come out (`Undefined`,
  `ToSpecOr`, `StrayDays`), and `SetTimesNormalize` is about the other settings,
  from 1970 on;
- compare does not borrow from the seconds for nanoseconds (time.cpp:286);
  `DifferencesElapse` is about differences without a borrow;
- sqrt of a negative int divides 0 by 0 as ints (math.cpp:225): a trap or any
  result; `RootsAreNearest` is about ints from 0 on;
- a short option takes the next argument as its value, whatever that is, once for
  each command with that key; `FoundAreNamed` allows any argument behind it.

## 3. Runs that pass

| Run | Instance | Shows |
|---|---|---|
| `mutex` | 3 threads, 2 mutexes | types; never all threads asleep |
| `mutex_wake` | 3 threads, 1 mutex | a sleeper is woken while unlocks go on |
| `allocator` | 2 threads, 3 blocks, 2 sizes, 2 contents, 1 overlap in the lock | no block is freed under its owner; up to the overlap the heap list stays linked, no block is lost, and it implements Heap |
| `conqueue` | 4 blocks, 8 bytes | the six invariants of the queue; it implements ByteStream |
| `eventloop` | 2 con addresses, 3 clients, 1 byte in, 2 bytes out, send buffer of 1 | epoll and the heap agree, arming, byte accounting, with closing that fails |
| `eventloop_live` | 2 con addresses, 2 clients, 0 bytes in, 2 bytes out, send buffer of 1 | every byte queued is handed over; gone peers are closed, also after refusals |
| `program` | 2 ServerSockets, 1 ClientSocket, 2 descriptors, 3 jobs, 6 cells, exceptions of 1 or 2 messages | messages keep their order, nothing of an exception is left, descriptors have one owner, the pool's list has its jobs and no deleted one |
| `library` | every input within the bounds below | each function does what it is for |

Bounds. Two mutexes are enough for one to disturb the other through the statics,
three threads for two to sleep while a third unlocks; the proofs of section 5 do
not depend on them. Two threads and three blocks let one call unlink the last,
the middle and the first block of the list while another maps, copies or waits to
link, and make addresses come back; the second size is for the copy that does not
fit. One overlap is enough: a call that enters a held lock ends what the
properties say up to the first one, and lets both calls finish on a broken list
for what they say after it. Four blocks and eight bytes give queues of up to four
blocks with every split of the bytes, removals that end inside, at and beyond a
block boundary, and reuse of freed blocks. In the event loop a send buffer of one
byte makes every larger block a partial send and a second one a full buffer;
three clients on two addresses make a closed con's address come back while the
other con is stranded or being closed. The liveness run drops incoming bytes to
stay small; end of stream and reset, which also make a connection readable,
remain. In Program six cells are what an exception of two messages, its copy and
an address need at the same time, so that no placement is ruled out; two gaps let
a freed cell come back or not; two descriptors for three owners let a closed
number be given out again and run out; three jobs are the first list in which the
deleted job has both a predecessor and a successor. `Thrown` are the lists of
message types that the program itself throws: one or two notes, besides the
exceptions of the library's own calls. Counters are bounded in the guards by
`MaxBytes`, `MaxClients`, `MaxIn`, `MaxOut`, `MaxSize` and `MaxOverlaps`.

Library's inputs are constants, and its theorems hold for any; the run has texts
of up to 7 and keywords of up to 5 characters of two letters (up to 5 and 2, with
terminators, for the scans), which is where the two-way search has periodic
needles with either factorisation; numbers as texts of up to 4 characters of
signs, blanks and digits, which passes both ends of the 8-bit range, and every
8-bit int; up to 3 blocks of up to 2 bytes for the search and 2 blocks of up to 3
for the copy; every day from 1970 to 2101 (leap years, the missing leap day of
2100) and around the end of 2399 (that of 2400); field values at and one beyond
each limit, month 0 and the last year whose days are an int included, with two
stray days for what is undefined; every float of nine bits; every int from -255
to 255 (`MaxRoot`, which a double of that width holds exactly); every copy within
a memory of six bytes, and every text of up to six letters and line ends, the
position that cleannewline takes for a newline included; up to two registrations
(null defaults, numbers and missing keys among them) and four arguments; up to
five registrations of exit functions for four entries, one of which registers
another when it is called.

Deadlock. The mutex and queue runs check for it. The event loop really stops,
when the flag is cleared or the process is killed, and blocks when nothing
happens; Allocator and Program stop when the process is dead; Library makes one
call and ends: their configurations switch the check off.

Fairness. `Mutex!FairSpec`: a thread inside a call and not asleep goes on, as the
scheduler gives every runnable thread its turn; no thread has to make a call.
`EventLoop!FairSpec`: the worker is one thread and its hooks return; only the
steps it takes by itself are fair (`Worker`), not the failures of calls
(`Failures`) nor what the application does in a hook; peers read what arrives.
`CloseCon` is strongly fair: EPOLL_CTL_DEL of an open descriptor that is
registered has no reason to be refused every time the loop comes back to it, and
a refusal sends the worker away from the step, so that weak fairness of it would
say nothing. That peers read is an assumption about the other end; nothing else
is assumed of clients. `Flushed` speaks of traffic that calms down, because the
bounds make it: with endless traffic on one connection the loop, which handles
only the last entry reported, may starve another. `Program!FairSpec`: the main
thread in join() and the jobs, which are threads whose functions return, keep
running, those of deleted Threads (`LateEnd`) too.

## 4. Runs that end in a violation

- `mutex_exclusion`: lock() gives the mutex to two threads. Its exchange fails on
  a locked word, and a failed exchange means return.
- `eventloop_packed`: with the kernel's packed `struct epoll_event` the `User
  data` of an event is not the registered pointer.
- `eventloop_send`: WriteEventHandler runs on a connection that is not ready to
  send, because the handler is chosen by the queue instead of the event; the
  failed send closes a healthy connection with data unsent.
- `program_join`: join() of a pool whose jobs have ended does not return. It waits
  for `_ParentPid` and `_ThreadPid` to be equal; the one holds the thread's id, the
  other is 0 before and after.

More things happen in the models that no text of the repository forbids, and are
therefore not runs:
- a con whose DisconnectEvent throws stays open for good (`DisconnectThrows`); the
  listener's nullptr is dereferenced after a failed accept or a throwing
  connect hook (`CloseListener`); cleanSendData leaves EPOLLOUT armed so that the
  next event closes the connection (`AppClean`, `RecvFails`); an interrupted
  epoll_wait indexes in front of the array (`WaitFails`);
- realloc to a smaller size writes behind the new block (`ReallocCopy`), and a
  failed mmap other than with -1 is written to (`MapFails`, `AllocFails`,
  `StartFails`); ~allocator frees nothing, because it passes addresses of headers;
- an assigned array points to freed memory (`AfterAssign`), what() may read it
  (`What`), and a thrown exception's texts are all "test" (`Copy`); the path of a
  unix ServerSocket is such an array, so that its file usually stays
  (`DeleteServer`);
- a constructor that throws after socket() leaves the descriptor open
  (`BindFails`); bind's result on an inet socket is not looked at (`NewInet`);
  accept overwrites the pointer to the address structure (`Accept`);
- two calls that meet in the allocator's lock lose blocks of the list (`Take`,
  `Faults`);
- deljob reads the job it deleted (`ReadsOn`), and addjob writes to the last job
  after it was deleted (`BehindDeleted`); ~ThreadPool deletes the first job only
  (`RenewPool`); the kernel clears a word where a deleted Thread was (`LateEnd`);
- `>>` of the console never returns at the end of its input (`ReadLine`, `Endless`);
- the list under Library above.

## 5. Proofs

All theorems hold for every value of the constants that satisfies the named
assumptions of the modules: there is a thread; `Null`, `None` and `Wild` are
nothing that a pointer can otherwise be; sizes and bounds are natural numbers,
and those of buffers and blocks are not 0; characters are numbers other than 0,
the terminator; daylight saving is less than a day.

`Induction` has what the others use in place of induction theorems: the least
element of a set of numbers (`LeastNumber`), induction up to a bound over the set
of numbers with a property (`InductionUpTo`), and that a recursive function over
`0 .. n` exists and follows its equations (`RecursiveFunction`), as does one over
all numbers that goes back by one (`RecursionOnNat`) or to any lower number
(`RecursionToLess`, for the loops that divide). A loop that leads from state to
state while a measure falls is such a function too (`LoopEnds`), and what each turn
keeps true holds of the state that it stops in (`LoopKeeps`).

`MutexProofs`
- `TypeCorrect`: `TypeOK` is inductive as it stands.
- `NeverAllAsleep`: `NotAllAsleep` is not inductive, because the last thread awake
  could be about to sleep. `AwakeWitness` adds that some thread awake is either
  not waiting or waits on a word that is 1. A step that could break it is the
  exchange of unlock(), which sets a word to 0, but then the unlocking thread is
  awake and outside; a sleeping step is taken by a thread whose word is 0, hence
  not by the witness. `SoleUserNeverBlocks` is the case of one thread.
- `QueuedExactlyWhenAsleep`: the futex queue holds each sleeper once and nobody
  else; rests on two lemmas about removing the head of a sequence without
  duplicates and appending to one.

`AllocatorProofs`, for a lock that may let threads in, any number of times
- `TypeCorrect` and `OneOwner` hold whether or not calls have met inside the lock:
  what the program has, and what a call was passed or is to give out, is mapped and
  nobody else's (`Separate`, with what each call has in hand, `Calls`). A walk on a
  broken list finds its own block or none, since it compares with what the call was
  passed.
- `ListInvariant`: as long as no two calls have met (`Alone`), `ListInv` is
  inductive. That is a property of the past (`AloneBefore`: a step after which
  nobody has met leaves from a state like that), and while it holds the lock is one
  (`TakenAlone`). `Chained` describes the list by an order instead of by paths:
  `_lastheap` is the newest of the linked blocks and each `_prevheap` the newest of
  those before, so that no induction along the list is needed. `AppendKeepsLinked`
  and `UnlinkKeepsLinked` are the two ways the list changes. They need, of the
  thread inside, that what it is about to link points to the last block
  (`Unlinked`) and that `behind` is the block that points to `cur` (`Walking`), and
  that nobody else is inside (`Locked`). `AlwaysLinked` follows.
- `OwnerInvariant`, again up to the first meeting: each block in the list is the
  program's or the argument or result of exactly one call (`Owners`), what a call
  at each point has of its arguments (`Arguments`), and that a walk has not passed
  the block it looks for (`Searching`), so that free and realloc find it.
  `NeverLost` follows, with `OneOwner`.
- `ContentsInvariant`: unlinked memory is zero; after the copy the new block holds
  what the old one, which is still in the list, holds; nobody writes to either
  between.
- `Implements`: up to the first meeting every step is one of Heap's.
  `WhatIsOwned` reads the mapping as "given, or argument of a realloc under way";
  `StepImplements` maps linking a block outside of realloc to Alloc, the call of
  free to Free, the last step of a realloc to Move (or Alloc, if there was no old
  block), and every other step to none.

`ConQueueProofs`
- `QueueInvariant`: the conjunction `Inv` of the named parts is inductive, by one
  lemma per action. `ResizeProgress` is what has to be added to the properties:
  where _resizeQueue is, and that a block's buffer is never shorter than its
  size. The position of a block in the stream is read off its last stored byte,
  the one byte that the in-place shift never overwrites before it is moved.
- `LinkedIsWholeChain`: following `next` from the first block reaches the whole
  list, by the least counterexample (`LeastNumber`, from well-foundedness of <).
- `TypeCorrect`, `AlwaysWellLinked`, `NeverLeaks`, `OnlyLiveBlocksFollowed`,
  `AlwaysInPlace` and `AlwaysContiguous` follow.
- `Implements`: Spec => ByteStream's specification. `ContentsAre` shows that what
  the blocks hold, read one by one, is the span of the last `qsize` bytes of the
  stream (`Span`); the fold over the blocks is followed by its recursive function
  (`Flattens`). `StreamStep` maps the add functions to Append, the entry of
  _resizeQueue and the clean functions to taking off the front, and each turn of
  the loops in between to none.

`EventLoopProofs`
- `LoopInvariant`: `LoopInv` is inductive in either layout of `struct epoll_event`.
  `RegisteredLive` and `WriteArmed` rest on each other and on `HandlerEntry`: that
  the con of a send handler has data and is registered is established by
  waitEventHandler and used two steps later; that a con outside epoll has no data,
  unless it is being closed or was stranded, is what makes a new con start unarmed;
  and each step of closing, done or refused, accounts for its con (`Known`): before
  CTL_DEL it is registered, in DisconnectEvent it is alive and not registered, after
  that deleted or in `stranded`, and never two of these. `AlwaysWriteArmed`
  follows, and `AlwaysRegisteredLive` for the layout that the source declares:
  with the kernel's packed one it is false (section 4).
- `CountInvariant`: for each con, as many bytes as were queued for it are with the
  kernel, in the send under way, still queued or taken back. It counts bytes, and
  says nothing of their order, which is ConQueue's. The queue's size is the last
  value of a recursive function over its blocks (`SizeUpTo`); `SizeOfAppend` and
  `SizeOfRemaining` say what appending and a send, partial or not, do to it, by
  comparing queues that have the same blocks (`SizeOfSameBlocks`).
  `AlwaysSentOnce` and the bounds of `TypeCorrect` follow.

`ProgramProofs`
- `PoolInvariant`: `PoolInv` is inductive. The list is the least set of jobs that has
  the first and is closed under `next` (`Listed`), so that no induction along the
  list is needed: `AddJobLists` and `TakeOutLists` are the two ways it changes,
  although deljob reads the job that it deleted. It needs that the list never comes
  back to a job (`Ranked`, a rank that rises along it), which an address used again
  could make it do, and that `_lastThread`, if it is in the list, ends it.
  `AlwaysListed` follows.
- `SocketInvariant`: `SocketInv` is inductive: open descriptors are those of the
  server sockets, of the accepted client sockets and those that constructors
  lost, each once. `AlwaysOwned` follows.
- `ExceptionInvariant`: an exception's messages are the way through its list,
  without repetition (`Path`). The list of one that is being built is `Whole`; of
  one that is thrown and handled it is whole or `Broken`, one of its cells having
  been deleted by the pointer that operator= leaves dangling. What each operation
  does to such lists: `AsignAppends`, `CopyGrows` and `CopyWalks` (turn by
  turn; the copy comes to the end of the list or dies), `CopyOfBroken` (what comes of
  a broken list dies or is broken), `DestroyShrinks`, `DestroyBroken`, `WhatPrints`. The
  loops stop because a path is not longer than there are cells (`PathLength`, by
  the pigeonhole principle). `AlwaysInOrder` and `AlwaysNothingLeft` follow, and
  `TypeCorrect`, which the invariants contain.

`LibraryProofs`, for texts, keywords and argument lists of any length and any
days and years. `Library` makes one call, so that the invariants are inductive;
what has to be proved is what the functions compute.
- `AlwaysDatesFollow`: the algorithm's years begin in March. A day is one day of
  one year of one century in one way, because a division with remainder is unique
  (`DivisionIsUnique`); the date of the next day is then found by cases on whether
  the day, the year or the century ends. `AlwaysDifferencesElapse` adds that a day
  and a second of the day are an instant, and back.
- `AlwaysSetTimesNormalize`: the leap years counted one by one are those that the
  quotients count (`LeapYearsCounted`), and the table of the months' first days
  adds their lengths up (`MonthsAddUp`); with the dates this makes every accepted
  combination of fields a number of days and seconds since 1970, but for those that
  the code leaves `Undefined`.
- `AlwaysScansFindFirst`: a loop stops at the first of its reasons (`LoopStops`,
  `FirstFound`). For memchr this includes the words: a word is only skipped if none
  of its bytes is the one looked for.
- `AlwaysComparisonsOrder`: where two strings differ first (`FirstDifference`, with
  the terminators), memcmp, strncmp and ncompare stop.
- `AlwaysFoundAreNamed`: what parseCmd keeps true in each turn (`Parsed`): a command
  is found only if an argument names it, and its value comes from one (`Told`);
  without short options it is exactly so of the arguments in front of the next
  one (`Counted`). `KnownAll` is the same for registerCmd.
- `AlwaysConSearchSound`: a byte of the text has a place in a block, as far behind
  the blocks in front of it as its position there (`PlacesInText`); what is matched
  are always the last bytes read, from the place noted (`InMatch`), and from the
  first occurrence of the keyword's first character on nothing resets it
  (`FirstIsMatched`).
- `AlwaysExitsReverse`: what a loop down the table has called and what it left of
  the entries it passed (`CalledDown`, `LeftDown`), whatever functions that are
  called append meanwhile; a second loop starts from what the first one left.
- `AlwaysConCopyInPlace`: block by block, the copy so far has the size of the text
  so far and agrees with it wherever it is written (`InPlaceSoFar`,
  `OneBlockMore`); it runs away exactly from a first block of which less than twice
  the start is copied.
- `AlwaysPiecesInOrder`: the loop of cleannewline in passes of which each comes
  further in the text (`PassKeeps`). After any of them what it has kept stands at
  rising places in front of the last line end it found (`Rising`, `KeptUpTo`);
  behind that, at most the character it stepped over and the next one can be line
  ends that it did not see (`Pieced`). memcpy is a loop over bytes that each are
  read before they are written, unless the destination begins inside the source
  (`MemCpyCopies`).

`NumberProofs`, for floats, ints and limits of any width, numerals of any length, and
haystacks and needles of any length (of ASCII for strstr, whose tables a char above
127 indexes negatively; of any numbers for wcsstr)
- `AlwaysClassesAgree`: sign, exponent and mantissa of a pattern are one way to
  write it (division by powers of two), and each class is a range of the last two.
- `AlwaysRootsAreNearest`: after each bit of the root, what sqrtf has left over is
  the square minus that of the bits found, and less than the next bit makes up for;
  the invariant of the loop in products instead of shifts. The last bit decides
  the rounding (`RoundsToNearest`). The loops of sqrt do the same with numbers of
  two words, compared and subtracted word by word (`NextHighBit`, `NextLowBit`);
  their root is a double whose unit is small enough for its int part to be that
  of the root itself (`CutOffRoot`). frexpl scales a subnormal number by a power
  of two and takes that away again.
- `AlwaysNumbersConvert`: a numeral determines its number digit by digit
  (`IsNumeral`). The digit loop keeps it until one more digit would pass the limit,
  and then nothing brings it back (`DigitsAreKept`, from `OneMoreDigit`). What
  itoa prints are the digits from the lowest up, of which there are as many as
  divisions by ten (`LowDigitsAreDigits`), turned round, so that the loop reads
  the number they were taken from (`PrintedIsRead`).
- `AlwaysStrStrFinds` and `AlwaysWcsStrFinds` rest on the critical factorisation of
  words, which is proved here in the form that the code uses it. The loop over the
  needle keeps a candidate for the maximal suffix, with its period, a word that is
  above its own rotations (`SuffixSoFar`, `NextSuffixKnows`), so that it ends with
  the maximal suffix under an order of the letters (`MaximalSuffixIs`). The longer
  suffix of the two orders starts where the needle is split: a shift under which
  the needle agrees with itself across that place is longer than the left part
  (`ShortRepetition`) and, if it fits into the right part, a period of the whole
  needle (`LongRepetition`), because the suffix of the other order begins no later
  (`CriticalSuffix`); and no period is shorter than that of the suffix
  (`NoShorterPeriod`). Hence what `Factors` returns is a shift that
  passes no occurrence, whether the needle is periodic or not (`FactorsAre`).
  The search keeps that no occurrence begins in front of the window and that what
  it remembers of the window matches (`SearchKnows`); each way of advancing keeps
  it: by the last character's shift (`LastCharacter`), by a mismatch in the right
  part (`RightMismatch`), by the period (`RightMatch`). What it reports is therefore
  an occurrence for every needle, and the first unless the needle is `Overlong`,
  where the loop may take a match for a mismatch. The searches for short needles
  compare at each place in turn (`ShortFinds`, `NaiveSearchFinds`).

Only model-checked:
- the liveness properties `Flushed`, `GoneAreClosed` and `SleepersAreWoken`:
  fairness and ENABLED are beyond the prover.

Every safety invariant that a passing run checks is a theorem.

## 6. Not modelled, and why

- Exec: from the fork on there are two processes, and the class keeps nothing but
  the pid. A failed fork builds an exception and does not throw it; the child
  whose execve failed returns from the constructor and runs on as a copy of the
  program (exec.cpp:127-134). Both are one branch, read off the code.
- The polynomial approximations of math.cpp (acos, acosf, acoshl, logl, log1pl):
  their correctness is rounding in double arithmetic.
- The pthread functions of mutex.cpp (68-126) and thread.cpp (201-225) create and
  delete the objects or forward to their lock, trylock, unlock, join, and turn an
  exception into -1: as steps they are those of the methods.
- Of SystemException's operators: `<<` of an array, which appends a message like `<<` of
  a text does and assigns from another array, and `<<` of an int, which prints it
  into a buffer of its own first.
- The guards of function-local statics (cxa_exception.cpp:127) are placed by the
  compiler, and the library has two such objects: the allocator, constructed by
  the main thread's first new, and CmdController. They are not synchronised.
- `__cxa_throw` is a stub, `_start` runs no static constructors and nothing calls
  `__cxa_finalize`; the models take the C++ meaning instead. `__cxa_finalize`
  compares its argument with functions, where compilers pass a dso handle.
- The lookup in the table of time zones selects a constant. The general template
  `array<T>` is declared without bodies; only `array<char>` exists.
- System information, sleep, unistd, errno, signal, the system call layer and
  start-up: one system call or instruction each, with no state. Stubs: empty.

## 7. Plan

1. Allocator composed with Mutex, instead of a lock that may let anybody in, once
   sys::mutex excludes; the properties then lose their condition on `overlaps`.
2. The receive queue in EventLoop, with the hooks reading from it.
