------------------------------ MODULE Threads ------------------------------
(***************************************************************************)
(* sys::Thread and sys::ThreadPool (src/linux/thread.cpp).  A Thread has   *)
(* two pid words.  clone writes the new thread's id to _ParentPid          *)
(* (CLONE_PARENT_SETTID); the kernel clears _ThreadPid when the thread     *)
(* ends (CLONE_CHILD_CLEARTID), and nothing ever sets it.  Objects come    *)
(* from new, so their words start as 0 and _nextThread as nullptr, and an  *)
(* address may be used again after its object was deleted.                 *)
(***************************************************************************)
EXTENDS Naturals

CONSTANTS Job,          \* the addresses of Thread objects
          None          \* nullptr

ASSUME NoneAssumption == None \notin Job

VARIABLES
    object,      \* the Thread objects: "none", "live" or "deleted"
    running,     \* external: the threads of live objects that have not ended
    orphans,     \* external: the others that have not ended, by their objects
    threadPid,   \* _ThreadPid
    parentPid,   \* _ParentPid
    next,        \* _nextThread
    first,       \* _firstThread
    last,        \* _lastThread
    curth,       \* the position of ThreadPool::join
    jobs,        \* ghost: jobs added to the pool, not taken out by its user
    strayed      \* ghost: those of them that were added behind no job of the list

list == <<next, first, last, jobs, strayed>>
threads == <<object, running, orphans, threadPid, parentPid, list, curth>>

Tid(j) == <<j>>         \* external: the thread's id
NoTid == <<>>           \* pid 0

ThreadsInit ==
    /\ object = [j \in Job |-> "none"]
    /\ running = {} /\ orphans = {}
    /\ threadPid = [j \in Job |-> NoTid]
    /\ parentPid = [j \in Job |-> NoTid]
    /\ next = [j \in Job |-> None]
    /\ first = None
    /\ last = None
    /\ curth = None
    /\ jobs = {} /\ strayed = {}

(* joinable(), and what join() waits for. *)
Joinable(j) == parentPid[j] = threadPid[j]

(* Thread(f, arg): clone succeeds. *)
Started(j) ==
    /\ object[j] # "live"
    /\ object' = [object EXCEPT ![j] = "live"]
    /\ running' = running \cup {j}
    /\ parentPid' = [parentPid EXCEPT ![j] = Tid(j)]
    /\ threadPid' = [threadPid EXCEPT ![j] = NoTid]
    /\ UNCHANGED orphans

(* The jobs from j on that a walk along nextThread() visits: those of every *)
(* set that has j and, with a job, the one behind it. *)
ClosedFrom(S, j) == (j \in S \/ j = None) /\ \A k \in S : next[k] \in S \/ next[k] = None
Walk(j) == {i \in Job : \A S \in SUBSET Job : ClosedFrom(S, j) => i \in S}

Listed == Walk(first)

(* addjob: behind the last job.  That may have been deleted, and its       *)
(* address may be the new job's own, which then leads to itself.  When it  *)
(* is not a Thread's any more, the write goes to unmapped memory or into   *)
(* what somebody else has mapped there.                                    *)
BehindDeleted(j) == first # None /\ object[last] # "live" /\ last # j

AddJob(j) ==
    /\ Started(j)
    /\ next' = [i \in Job |-> IF first # None /\ i = last THEN j
                              ELSE IF i = j THEN None ELSE next[i]]
    /\ first' = IF first = None THEN j ELSE first
    /\ last' = j
    /\ jobs' = jobs \cup {j}
    /\ strayed' = IF first # None /\ last \notin Listed THEN strayed \cup {j} ELSE strayed
    /\ UNCHANGED curth

(* deljob(j) takes a listed job out and deletes it.  As a mutant of its    *)
(* predecessor's next: the rest of the list goes with it.                  *)
RestLost(j) == None
NextOf(j) == next[j]

Orphaned(js) ==
    /\ running' = running \ js
    /\ orphans' = orphans \cup (running \cap js)

TakeOut(j) ==
    /\ first' = IF first = j THEN next[j] ELSE first
    /\ next' = [i \in Job |-> IF i = j THEN None
                              ELSE IF next[i] = j THEN NextOf(j) ELSE next[i]]
    /\ object' = [object EXCEPT ![j] = "deleted"]
    /\ Orphaned({j})
    /\ UNCHANGED <<threadPid, parentPid, last>>

(* Then it reads j's nextThread(): unmapped memory, unless a running       *)
(* thread was given the address in between, where the loop finds zeros and *)
(* ends.                                                                   *)
ReadsOn == running \cup orphans # {}

(* When a thread ends, the kernel clears the _ThreadPid of its object, or  *)
(* what is where that was: another Thread's, which is 0 anyway, or a word  *)
(* of something else, if Elsewhere.                                        *)
WorkerEnds(j) ==
    /\ j \in running
    /\ running' = running \ {j}
    /\ threadPid' = [threadPid EXCEPT ![j] = NoTid]
    /\ UNCHANGED <<object, orphans, parentPid, list, curth>>

Elsewhere(j) == object[j] # "live"

OrphanEnds(j) ==
    /\ j \in orphans
    /\ orphans' = orphans \ {j}
    /\ threadPid' = IF Elsewhere(j) THEN threadPid ELSE [threadPid EXCEPT ![j] = NoTid]
    /\ UNCHANGED <<object, running, parentPid, list, curth>>

(* ~ThreadPool() deletes the first job only; a new pool starts empty. *)
RenewPool ==
    /\ object' = [j \in Job |-> IF j = first THEN "deleted" ELSE object[j]]
    /\ first' = None
    /\ last' = None
    /\ jobs' = {} /\ strayed' = {}
    /\ Orphaned({first})
    /\ UNCHANGED <<threadPid, parentPid, next, curth>>
=============================================================================
