------------------------------- MODULE Mutex -------------------------------
(***************************************************************************)
(* sys::mutex (src/linux/mutex.cpp): one futex word per mutex, and three   *)
(* `exp` values that lock, trylock and unlock keep in function-local       *)
(* statics, so that every mutex and every thread of the process shares     *)
(* them.  __atomic_compare_exchange is three accesses: a plain load of     *)
(* exp, the cmpxchg on the word, and, when the cmpxchg fails, a plain      *)
(* store of the word's old value into exp.  The plain accesses of two      *)
(* threads race; each is an atomic step here (an aligned 8-byte access).   *)
(***************************************************************************)
EXTENDS Naturals, Sequences

CONSTANTS Threads,      \* the threads that call the library
          Mutexes       \* the addresses a mutex object can have

ASSUME ThreadsAssumption == Threads # {}

VARIABLES
    live,        \* the mutexes that are constructed (mapped)
    word,        \* the futex word of each mutex
    lockExp,     \* static exp of lock()
    tryExp,      \* static exp of trylock()
    unlockExp,   \* static exp of unlock()
    waiters,     \* external: the kernel's FIFO of threads asleep on a word
    pc,          \* where each thread is in a call; "idle" is outside
    on,          \* the mutex of the call
    reg,         \* the register a compare-exchange works with
    held         \* ghost: mutexes whose lock returned, not yet unlocked

statics == <<lockExp, tryExp, unlockExp>>
vars == <<live, word, statics, waiters, pc, on, reg, held>>

Labels == {"idle", "l_cas", "l_store", "l_wait", "asleep",
           "t_cas", "t_store", "t_wake", "u_wake", "u_load", "u_cas", "u_store"}

TypeOK ==
    /\ live \subseteq Mutexes
    /\ word \in [Mutexes -> {0, 1}]
    /\ lockExp \in {0, 1}
    /\ tryExp \in {0, 1}
    /\ unlockExp \in {0, 1}
    /\ waiters \in [Mutexes -> Seq(Threads)]
    /\ pc \in [Threads -> Labels]
    /\ on \in [Threads -> Mutexes]
    /\ reg \in [Threads -> {0, 1}]
    /\ held \in [Threads -> SUBSET Mutexes]

Init ==
    /\ live = {}
    /\ word = [m \in Mutexes |-> 0]         \* mmap returns zeroed memory
    /\ lockExp = 0
    /\ tryExp = 0
    /\ unlockExp = 1
    /\ waiters = [m \in Mutexes |-> <<>>]
    /\ pc = [t \in Threads |-> "idle"]
    /\ on \in [Threads -> Mutexes]
    /\ reg = [t \in Threads |-> 0]
    /\ held = [t \in Threads |-> {}]

Goto(t, l) == pc' = [pc EXCEPT ![t] = l]

Acquire(t) == held' = [held EXCEPT ![t] = @ \cup {on[t]}]

(* A thread uses a mutex while it is in a call on it or has it locked. *)
InUse(m) == \E t \in Threads : (pc[t] # "idle" /\ on[t] = m) \/ m \in held[t]

-----------------------------------------------------------------------------
(* mutex() maps the word and sets it to 1. *)
Construct(m) ==
    /\ m \notin live
    /\ live' = live \cup {m}
    /\ word' = [word EXCEPT ![m] = 1]
    /\ UNCHANGED <<statics, waiters, pc, on, reg, held>>

(* ~mutex() unmaps it; deleting a mutex in use is the caller's error. *)
Destroy(m) ==
    /\ m \in live
    /\ ~InUse(m)
    /\ live' = live \ {m}
    /\ UNCHANGED <<word, statics, waiters, pc, on, reg, held>>

(* A caller enters a function on a live mutex that it has not locked. *)
Enter(t, m) ==
    /\ pc[t] = "idle"
    /\ m \in live \ held[t]
    /\ on' = [on EXCEPT ![t] = m]

-----------------------------------------------------------------------------
(* lock(): compare-exchange word from lockExp to 1 ... *)
LockLoad(t, m) ==
    /\ Enter(t, m)
    /\ reg' = [reg EXCEPT ![t] = lockExp]
    /\ Goto(t, "l_cas")
    /\ UNCHANGED <<live, word, statics, waiters, held>>

LockCas(t) ==
    /\ pc[t] = "l_cas"
    /\ \/ /\ word[on[t]] = reg[t]
          /\ word' = [word EXCEPT ![on[t]] = 1]
          /\ Goto(t, "l_wait")
          /\ UNCHANGED reg
       \/ /\ word[on[t]] # reg[t]
          /\ reg' = [reg EXCEPT ![t] = word[on[t]]]
          /\ Goto(t, "l_store")
          /\ UNCHANGED word
    /\ UNCHANGED <<live, statics, waiters, on, held>>

(* ... a failed exchange makes lock() return at once ... *)
LockStore(t) ==
    /\ pc[t] = "l_store"
    /\ lockExp' = reg[t]
    /\ Goto(t, "idle")
    /\ Acquire(t)
    /\ UNCHANGED <<live, word, tryExp, unlockExp, waiters, on, reg>>

(* ... a successful one makes it call FUTEX_WAIT with expected value 0.    *)
(* The kernel returns -EAGAIN, which is not the -1 that the loop tests,    *)
(* when the word is not 0.                                                 *)
LockWaitAgain(t) ==
    /\ pc[t] = "l_wait"
    /\ word[on[t]] # 0
    /\ Goto(t, "idle")
    /\ Acquire(t)
    /\ UNCHANGED <<live, word, statics, waiters, on, reg>>

(* FUTEX_WAIT itself; as a mutant of LockSleep, without its test. *)
SleepAnyway(t) ==
    /\ pc[t] = "l_wait"
    /\ Goto(t, "asleep")
    /\ waiters' = [waiters EXCEPT ![on[t]] = Append(@, t)]
    /\ UNCHANGED <<live, word, statics, on, reg, held>>

LockSleep(t) == word[on[t]] = 0 /\ SleepAnyway(t)

-----------------------------------------------------------------------------
(* External: FUTEX_WAKE of at most one thread.  The woken lock() leaves    *)
(* its loop and returns.                                                   *)
Woken(m) == IF waiters[m] = <<>> THEN {} ELSE {Head(waiters[m])}

(* The caller t goes on at label l; `winners` are the threads whose call   *)
(* returns with the mutex.                                                 *)
WakeOne(t, m, l, winners) ==
    /\ waiters' = [waiters EXCEPT ![m] = IF @ = <<>> THEN @ ELSE Tail(@)]
    /\ pc' = [s \in Threads |-> IF s \in Woken(m) THEN "idle"
                                ELSE IF s = t THEN l ELSE pc[s]]
    /\ held' = [s \in Threads |-> IF s \in winners THEN held[s] \cup {m}
                                  ELSE held[s]]

-----------------------------------------------------------------------------
(* trylock(): compare-exchange word from tryExp to 1, wake after success;  *)
(* it returns true whichever way the exchange went.                        *)
TryLoad(t, m) ==
    /\ Enter(t, m)
    /\ reg' = [reg EXCEPT ![t] = tryExp]
    /\ Goto(t, "t_cas")
    /\ UNCHANGED <<live, word, statics, waiters, held>>

TryCas(t) ==
    /\ pc[t] = "t_cas"
    /\ \/ /\ word[on[t]] = reg[t]
          /\ word' = [word EXCEPT ![on[t]] = 1]
          /\ Goto(t, "t_wake")
          /\ UNCHANGED <<reg, held>>
       \/ /\ word[on[t]] # reg[t]
          /\ reg' = [reg EXCEPT ![t] = word[on[t]]]
          /\ Goto(t, "t_store")
          /\ UNCHANGED <<word, held>>
    /\ UNCHANGED <<live, statics, waiters, on>>

TryStore(t) ==
    /\ pc[t] = "t_store"
    /\ tryExp' = reg[t]
    /\ Goto(t, "idle")
    /\ Acquire(t)
    /\ UNCHANGED <<live, word, lockExp, unlockExp, waiters, on, reg>>

TryWake(t) ==
    /\ pc[t] = "t_wake"
    /\ WakeOne(t, on[t], "idle", Woken(on[t]) \cup {t})
    /\ UNCHANGED <<live, word, statics, on, reg>>

-----------------------------------------------------------------------------
(* unlock(): wake one sleeper first, then compare-exchange word from       *)
(* unlockExp to 0.  From its call on, the caller no longer holds m.        *)
UnlockEnter(t, m) ==
    /\ pc[t] = "idle"
    /\ m \in held[t]
    /\ on' = [on EXCEPT ![t] = m]
    /\ held' = [held EXCEPT ![t] = @ \ {m}]
    /\ Goto(t, "u_wake")
    /\ UNCHANGED <<live, word, statics, waiters, reg>>

(* As a mutant of UnlockWake: FUTEX_WAKE wakes nobody. *)
UnlockWithoutWake(t) ==
    /\ pc[t] = "u_wake"
    /\ Goto(t, "u_load")
    /\ UNCHANGED <<live, word, statics, waiters, on, reg, held>>

UnlockWake(t) ==
    /\ pc[t] = "u_wake"
    /\ WakeOne(t, on[t], "u_load", Woken(on[t]))
    /\ UNCHANGED <<live, word, statics, on, reg>>

UnlockLoad(t) ==
    /\ pc[t] = "u_load"
    /\ reg' = [reg EXCEPT ![t] = unlockExp]
    /\ Goto(t, "u_cas")
    /\ UNCHANGED <<live, word, statics, waiters, on, held>>

(* The value that unlock() exchanges for w.  Mutant: one less than w. *)
Decremented(w) == w - 1
Released(w) == 0

UnlockCas(t) ==
    /\ pc[t] = "u_cas"
    /\ \/ /\ word[on[t]] = reg[t]
          /\ word' = [word EXCEPT ![on[t]] = Released(@)]
          /\ Goto(t, "idle")
          /\ UNCHANGED reg
       \/ /\ word[on[t]] # reg[t]
          /\ reg' = [reg EXCEPT ![t] = word[on[t]]]
          /\ Goto(t, "u_store")
          /\ UNCHANGED word
    /\ UNCHANGED <<live, statics, waiters, on, held>>

UnlockStore(t) ==
    /\ pc[t] = "u_store"
    /\ unlockExp' = reg[t]
    /\ Goto(t, "idle")
    /\ UNCHANGED <<live, word, lockExp, tryExp, waiters, on, reg, held>>

-----------------------------------------------------------------------------
(* The steps a call takes by itself once it has begun. *)
InCall(t) ==
    \/ LockCas(t) \/ LockStore(t) \/ LockWaitAgain(t) \/ LockSleep(t)
    \/ TryCas(t) \/ TryStore(t) \/ TryWake(t)
    \/ UnlockWake(t) \/ UnlockLoad(t) \/ UnlockCas(t) \/ UnlockStore(t)

Call(t) == \E m \in Mutexes : LockLoad(t, m) \/ TryLoad(t, m) \/ UnlockEnter(t, m)

Next ==
    \/ \E m \in Mutexes : Construct(m) \/ Destroy(m)
    \/ \E t \in Threads : Call(t) \/ InCall(t)

Spec == Init /\ [][Next]_vars

(* The scheduler runs every thread that is inside a call and not asleep;   *)
(* whether a thread makes another call is up to the program.               *)
FairSpec == Spec /\ \A t \in Threads : WF_vars(InCall(t))

-----------------------------------------------------------------------------
(* The calls never put every thread to sleep: FUTEX_WAIT sleeps only on a  *)
(* word that is 0, and the thread that made it 0 comes after the exchange  *)
(* that set it to 1.  With one thread this says that lock() never blocks   *)
(* the only user of a mutex.                                               *)
NotAllAsleep == \E t \in Threads : pc[t] # "asleep"

(* What makes NotAllAsleep inductive: some thread is awake, and if it is   *)
(* about to wait its word is 1, so that the wait returns.                  *)
AwakeWitness ==
    \E t \in Threads : /\ pc[t] # "asleep"
                       /\ pc[t] = "l_wait" => word[on[t]] = 1

(* The FIFO of a word holds exactly the threads asleep on it, each once:   *)
(* a wake-up never goes to a thread that left and none is queued twice.    *)
WaitersAreAsleep ==
    \A m \in Mutexes :
        /\ \A i, j \in DOMAIN waiters[m] : waiters[m][i] = waiters[m][j] => i = j
        /\ \A t \in Threads : (\E i \in DOMAIN waiters[m] : waiters[m][i] = t)
                                <=> pc[t] = "asleep" /\ on[t] = m

(* What a mutex is for, and sys::mutex does not give: of the threads whose *)
(* lock() or trylock() succeeded, one at a time holds the mutex.           *)
MutualExclusion ==
    \A s, t \in Threads : held[s] \cap held[t] # {} => s = t

(* unlock() wakes: a thread asleep in lock() does not sleep forever as     *)
(* long as the program keeps unlocking that mutex.                         *)
Unlocking(m) == \E t \in Threads : pc[t] = "u_wake" /\ on[t] = m
Sleeping(t, m) == pc[t] = "asleep" /\ on[t] = m

SleepersAreWoken ==
    \A t \in Threads, m \in Mutexes :
        []<>Unlocking(m) => []<>~Sleeping(t, m)
=============================================================================
