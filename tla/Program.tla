------------------------------ MODULE Program ------------------------------
(***************************************************************************)
(* The main thread of a program that uses the library: it owns sockets     *)
(* (src/linux/socket.cpp) or a thread pool (Threads), and catches the      *)
(* SystemExceptions (Exceptions) that the calls throw.  Sockets and pool   *)
(* share nothing but the exceptions, so a program uses one of the two.     *)
(*                                                                         *)
(* `throw` and `catch` are what C++ says: the exception is copied, the     *)
(* original and the members of an unfinished object are destroyed, the     *)
(* handler runs, the copy is destroyed.                                    *)
(***************************************************************************)
EXTENDS Exceptions, Threads

CONSTANTS Server,       \* the ServerSocket objects of the program
          Client,       \* its ClientSocket objects
          Fds,          \* bound on the number of descriptors
          Thrown        \* what the program itself throws: lists of message types

ASSUME BoundsAssumption == Fds \in Nat /\ Thrown \subseteq Seq(Type)

VARIABLES
    part,        \* "sockets" or "pool"
    heap,        \* the cells that arrays, exceptions and addresses live in
    pc,          \* "idle", "raise" (building an exception), "catch", "join"
    left,        \* the types of the messages still to be added
    built,       \* the exception being built
    said,        \* ghost: the types of the messages added so far
    members,     \* buffers of members that the throw destroys
    thrown,      \* the exception of the handler
    server,      \* _Socket and _UxPath of each ServerSocket; NoServer
    client,      \* _Socket and _SocketPtr of each ClientSocket; NoClient
    open,        \* external: the open descriptors
    named,       \* external: the file name of the local socket exists
    lost,        \* ghost: descriptors and cells that nothing refers to
    dead         \* the process died from an access to unmapped memory

sockets == <<server, client, open, named, lost>>
exceptions == <<heap, pc, left, built, said, members, thrown>>
vars == <<part, exceptions, sockets, threads, dead>>

NoServer == [fd |-> 0, path |-> Null, live |-> FALSE]
NoClient == [fd |-> 0, addr |-> Null, live |-> FALSE]
NoFd == 0               \* -1 in the code
Overwritten == Cells + 1    \* a pointer that accept wrote an address over

Init ==
    /\ part \in {"sockets", "pool"}
    /\ heap = EmptyHeap
    /\ pc = "idle"
    /\ left = <<>> /\ said = <<>>
    /\ built = NewException /\ thrown = NewException
    /\ members = {}
    /\ server = [s \in Server |-> NoServer]
    /\ client = [c \in Client |-> NoClient]
    /\ open = {}
    /\ named \in {FALSE, part = "sockets"}     \* an earlier process may have left it
    /\ lost = [fds |-> {}, cells |-> {}]
    /\ dead = FALSE
    /\ ThreadsInit

At(l) == ~dead /\ pc = l
Using(p) == At("idle") /\ part = p

-----------------------------------------------------------------------------
(* A call begins an exception with messages of these types; buffers are    *)
(* the arrays of the object under construction.                            *)
Raise(types, buffers) ==
    /\ pc' = "raise"
    /\ left' = types
    /\ members' = buffers
    /\ UNCHANGED <<heap, built, said, thrown>>

(* exception[type] << "text" *)
AddMessage ==
    /\ At("raise") /\ left # <<>>
    /\ \E o \in Asign(heap, [built EXCEPT !.type = Head(left)]) :
          heap' = o.heap /\ built' = o.exc /\ dead' = o.dead
    /\ said' = Append(said, Head(left))
    /\ left' = Tail(left)
    /\ UNCHANGED <<part, pc, members, thrown, sockets, threads>>

(* throw copies the exception, then the scope is left: the original and    *)
(* the members go.  thrown is empty here, or destroyed by the end of the   *)
(* handler that throws again.                                              *)
DeleteAll(h, cells) == [c \in Cell |-> IF c \in cells THEN Unmapped ELSE h[c]]

Left(o) ==
    LET r == Destroy(o.heap, built)
    IN [heap |-> DeleteAll(r.heap, members), dead |-> o.dead \/ r.dead]

Throw ==
    /\ At("raise") /\ left = <<>>
    /\ \E o \in Copy(heap, built) :
          /\ heap' = Left(o).heap
          /\ dead' = Left(o).dead
          /\ thrown' = o.exc
    /\ pc' = "catch"
    /\ built' = NewException
    /\ said' = <<>>
    /\ members' = {}
    /\ UNCHANGED <<part, left, sockets, threads>>

(* The handler reads what(), or throws the exception again ... *)
ReadWhat ==
    /\ At("catch")
    /\ \E o \in What(heap, thrown) :
          heap' = o.heap /\ thrown' = o.exc /\ dead' = o.dead
    /\ UNCHANGED <<part, pc, left, built, said, members, sockets, threads>>

Rethrow ==
    /\ At("catch")
    /\ \E o \in Copy(heap, thrown) :
          LET r == Destroy(o.heap, thrown)
          IN heap' = r.heap /\ thrown' = o.exc /\ dead' = (o.dead \/ r.dead)
    /\ UNCHANGED <<part, pc, left, built, said, members, sockets, threads>>

(* ... and ends: the exception is destroyed. *)
EndCatch ==
    /\ At("catch")
    /\ LET r == Destroy(heap, thrown) IN heap' = r.heap /\ dead' = r.dead
    /\ thrown' = NewException
    /\ pc' = "idle"
    /\ UNCHANGED <<part, left, built, said, members, sockets, threads>>

(* The program throws an exception of its own. *)
AppThrows ==
    /\ Using("sockets")
    /\ \E types \in Thrown : Raise(types, {})
    /\ UNCHANGED <<part, sockets, threads, dead>>

-----------------------------------------------------------------------------
(* External: socket and accept return the lowest free descriptor. *)
Opened(f) == f \in (1..Fds) \ open /\ \A g \in 1..(f - 1) : g \in open

(* ServerSocket(path): the path is kept in an array, whose buffer is gone  *)
(* after the assignment; d is where it was.                                *)
NewUnix(s) ==
    /\ Using("sockets") /\ ~server[s].live /\ ~named
    /\ \E f \in 1..Fds, d \in Placements(heap) :
          /\ Opened(f)
          /\ open' = open \cup {f}
          /\ server' = [server EXCEPT ![s] = [fd |-> f, path |-> d, live |-> TRUE]]
          /\ heap' = AfterAssign([heap EXCEPT ![d] = Text], d)
    /\ named' = TRUE
    /\ UNCHANGED <<part, pc, left, built, said, members, thrown, client, lost,
                   threads, dead>>

(* Without a path, or when socket fails, it throws with nothing opened ... *)
NewUnixFails(s) ==
    /\ Using("sockets") /\ ~server[s].live
    /\ \E buffers \in {{}} \cup {{d} : d \in Placements(heap)} :
          Raise(<<"Critical">>, buffers)
    /\ UNCHANGED <<part, sockets, threads, dead>>

(* ... and when the name exists, bind fails and the descriptor stays open. *)
BindFails(s) ==
    /\ Using("sockets") /\ ~server[s].live /\ named
    /\ \E f \in 1..Fds, d \in Placements(heap) :
          /\ Opened(f)
          /\ open' = open \cup {f}
          /\ lost' = [lost EXCEPT !.fds = @ \cup {f}]
          /\ Raise(<<"Error">>, {d})
    /\ UNCHANGED <<part, server, client, named, threads, dead>>

(* ServerSocket(addr, port): bind's result is not looked at.  As a mutant, *)
(* nor is that of socket.                                                  *)
InetUnchecked(f) == Opened(f) \/ f = NoFd
InetSocket(f) == Opened(f)

NewInet(s) ==
    /\ Using("sockets") /\ ~server[s].live
    /\ \E f \in 0..Fds :
          /\ InetSocket(f)
          /\ open' = open \cup ({f} \ {NoFd})
          /\ server' = [server EXCEPT ![s] = [fd |-> f, path |-> Null, live |-> TRUE]]
    /\ UNCHANGED <<part, exceptions, client, named, lost, threads, dead>>

(* ~ServerSocket(): close, then unlink if the path is not empty.  The name *)
(* goes only if the buffer still holds it.                                 *)
DeleteServer(s) ==
    /\ Using("sockets") /\ server[s].live
    /\ open' = open \ {server[s].fd}
    /\ named' = (named /\ ~(server[s].path # Null /\ heap[server[s].path].kind = "text"))
    /\ heap' = Delete(heap, server[s].path)
    /\ lost' = [lost EXCEPT !.cells = @ \ {server[s].path}]
    /\ server' = [server EXCEPT ![s] = NoServer]
    /\ UNCHANGED <<part, pc, left, built, said, members, thrown, client, threads, dead>>

(* setnonblocking, listenSocket and acceptEvent throw when their system    *)
(* call fails; the object stays as it is.                                  *)
MethodFails(s) ==
    /\ Using("sockets") /\ server[s].live
    /\ \E type \in {"Error", "Critical"} : Raise(<<type>>, {})
    /\ UNCHANGED <<part, sockets, threads, dead>>

(* ClientSocket(), and ~ClientSocket(), which closes what it has. *)
NewClient(c) ==
    /\ Using("sockets") /\ ~client[c].live
    /\ \E a \in Placements(heap) :
          /\ heap' = [heap EXCEPT ![a] = Address]
          /\ client' = [client EXCEPT ![c] = [fd |-> NoFd, addr |-> a, live |-> TRUE]]
    /\ UNCHANGED <<part, pc, left, built, said, members, thrown, server, open, named,
                   lost, threads, dead>>

(* As a mutant of Closed: the descriptor is left open. *)
NotClosed(fd) == open
Closed(fd) == open \ {fd}

DeleteClient(c) ==
    /\ Using("sockets") /\ client[c].live
    /\ open' = Closed(client[c].fd)
    /\ heap' = IF client[c].addr \in Cell THEN Delete(heap, client[c].addr) ELSE heap
    /\ client' = [client EXCEPT ![c] = NoClient]
    /\ UNCHANGED <<part, pc, left, built, said, members, thrown, server, named, lost,
                   threads, dead>>

(* acceptEvent: the kernel writes the peer's address over _SocketPtr       *)
(* itself, so that its block is not referred to any more.                  *)
Accept(s, c) ==
    /\ Using("sockets") /\ server[s].live /\ client[c].live /\ client[c].fd = NoFd
    /\ \E f \in 1..Fds :
          /\ Opened(f)
          /\ open' = open \cup {f}
          /\ client' = [client EXCEPT ![c].fd = f, ![c].addr = Overwritten]
    /\ lost' = [lost EXCEPT !.cells = @ \cup ({client[c].addr} \cap Mapped(heap))]
    /\ UNCHANGED <<part, exceptions, server, named, threads, dead>>

(* sendData and recvData throw with the text and the descriptor's number. *)
TransferFails(s, c) ==
    /\ Using("sockets") /\ server[s].live /\ client[c].live
    /\ Raise(<<"Error", "Error">>, {})
    /\ UNCHANGED <<part, sockets, threads, dead>>

-----------------------------------------------------------------------------
(* addjob(new Thread(f, arg)) *)
StartJob(j) ==
    /\ Using("pool")
    /\ AddJob(j)
    /\ dead' \in (IF BehindDeleted(j) THEN BOOLEAN ELSE {FALSE})
    /\ UNCHANGED <<part, exceptions, sockets>>

(* clone fails; or the stack cannot be mapped, which the constructor sees  *)
(* only for the error -1: any other one is used as the stack's address.    *)
StartFails ==
    /\ Using("pool")
    /\ \/ Raise(<<"Error">>, {}) /\ UNCHANGED dead
       \/ dead' = TRUE /\ UNCHANGED exceptions
    /\ UNCHANGED <<part, sockets, threads>>

(* deljob(j): a job that is not listed is passed over. *)
DelJob(j) ==
    /\ Using("pool") /\ j \in Listed
    /\ TakeOut(j)
    /\ dead' \in (IF ReadsOn THEN BOOLEAN ELSE {TRUE})
    /\ jobs' = jobs \ {j}
    /\ UNCHANGED <<curth, strayed>>
    /\ UNCHANGED <<part, exceptions, sockets>>

(* join(): one turn of the inner loop ... *)
JoinStep ==
    /\ At("join") /\ curth # None
    /\ IF Joinable(curth)
       THEN /\ TakeOut(curth)
            /\ dead' \in (IF ReadsOn THEN BOOLEAN ELSE {TRUE})
            /\ curth' = None
       ELSE /\ curth' = next[curth]
            /\ UNCHANGED <<object, running, orphans, threadPid, parentPid, next, first, last,
                           dead>>
    /\ UNCHANGED <<part, exceptions, sockets, jobs, strayed>>

(* ... and of the outer one. *)
Join ==
    /\ Using("pool")
    /\ pc' = "join"
    /\ curth' = first
    /\ UNCHANGED <<part, heap, left, built, said, members, thrown, sockets, dead,
                   object, running, orphans, threadPid, parentPid, list>>

JoinAgain ==
    /\ At("join") /\ curth = None /\ first # None
    /\ curth' = first
    /\ UNCHANGED <<part, exceptions, sockets, dead, object, running, orphans, threadPid,
                   parentPid, list>>

JoinReturn ==
    /\ At("join") /\ curth = None /\ first = None
    /\ pc' = "idle"
    /\ UNCHANGED <<part, heap, left, built, said, members, thrown, sockets, threads, dead>>

PoolEnds ==
    /\ Using("pool")
    /\ RenewPool
    /\ UNCHANGED <<part, exceptions, sockets, dead>>

JobEnds(j) == ~dead /\ WorkerEnds(j) /\ UNCHANGED <<part, exceptions, sockets, dead>>

(* The thread of a deleted object ends: the kernel writes into whatever    *)
(* has its address now. *)
LateEnd(j) ==
    /\ ~dead /\ OrphanEnds(j)
    /\ heap' \in (IF Elsewhere(j) THEN ZeroWritten(heap) ELSE {heap})
    /\ UNCHANGED <<part, pc, left, built, said, members, thrown, sockets, dead>>

-----------------------------------------------------------------------------
Handling == AddMessage \/ Throw \/ ReadWhat \/ Rethrow \/ EndCatch \/ AppThrows

Serving ==
    \/ \E s \in Server : \/ NewUnix(s) \/ NewUnixFails(s) \/ BindFails(s) \/ NewInet(s)
                         \/ DeleteServer(s) \/ MethodFails(s)
    \/ \E c \in Client : NewClient(c) \/ DeleteClient(c)
    \/ \E s \in Server, c \in Client : Accept(s, c) \/ TransferFails(s, c)

Joining == JoinStep \/ JoinAgain \/ JoinReturn

Pooling ==
    \/ \E j \in Job : StartJob(j) \/ DelJob(j) \/ JobEnds(j) \/ LateEnd(j)
    \/ StartFails \/ Join \/ Joining \/ PoolEnds

Next == Handling \/ Serving \/ Pooling

Spec == Init /\ [][Next]_vars

(* The main thread in join() and the threads of the pool keep running. *)
FairSpec == Spec /\ WF_vars(Joining) /\ \A j \in Job : WF_vars(JobEnds(j)) /\ WF_vars(LateEnd(j))

-----------------------------------------------------------------------------
Exception(e) == /\ e.type \in Type
                /\ {e.first, e.last, e.print} \subseteq Ptr

TypeOK ==
    /\ part \in {"sockets", "pool"}
    /\ \A c \in Cell : heap[c].kind \in {"none", "text", "sockaddr", "message"}
    /\ pc \in {"idle", "raise", "catch", "join"}
    /\ Exception(built) /\ Exception(thrown)
    /\ members \subseteq Cell
    /\ \A s \in Server : server[s].path \in Ptr
                         /\ server[s].fd \in (IF server[s].live THEN 1..Fds ELSE {NoFd})
    /\ \A c \in Client : client[c].fd \in 0..Fds
    /\ open \subseteq 1..Fds /\ lost.fds \subseteq open
    /\ object \in [Job -> {"none", "live", "deleted"}]
    /\ \A js \in {running, orphans, jobs, strayed} : js \subseteq Job
    /\ {first, last, curth} \subseteq Job \cup {None}
    /\ next \in [Job -> Job \cup {None}]

(* An exception that has not been thrown has its messages in the order and *)
(* with the types in which they were added, and _lastMessage is the last   *)
(* of them, whatever the deleted text buffers were reused for since.       *)
MessagesInOrder ==
    pc = "raise" /\ ~dead =>
      LET s == Chain(heap, built)
      IN /\ Intact(heap, built)
         /\ [i \in DOMAIN s |-> heap[s[i]].type] = said
         /\ built.last = IF s = <<>> THEN Null ELSE s[Len(s)]

(* When the handler is done nothing of the exception is left, neither of   *)
(* the original nor of its copies: what is mapped then is the addresses of *)
(* clients, and those that accept made unreachable.                        *)
NothingLeft ==
    pc = "idle" /\ ~dead =>
      Mapped(heap) \subseteq {client[c].addr : c \in Client} \cup lost.cells

(* Every open descriptor belongs to one socket object, or was left open by *)
(* a constructor that threw; no object has a descriptor that is closed or  *)
(* another's, although the kernel gives closed numbers out again.          *)
Holders(f) == {s \in Server : server[s].fd = f} \cup {c \in Client : client[c].fd = f}

DescriptorsOwned ==
    \A f \in 1..Fds :
        /\ f \in open <=> Holders(f) # {} \/ f \in lost.fds
        /\ Cardinality(Holders(f)) + (IF f \in lost.fds THEN 1 ELSE 0) <= 1

(* However jobs are added to the pool and taken out of it, at the front,   *)
(* in the middle or at the end: the list leads over Threads that have not  *)
(* been deleted, so that a walk along it never reads freed memory, and to  *)
(* every job of the pool.  Only a job that addjob put behind a last job    *)
(* that is not in the list any more is not found, and those behind it.     *)
JobsListed == /\ \A j \in Listed : object[j] = "live"
              /\ jobs \subseteq Listed \cup strayed

(* join() returns once the jobs have ended. *)
JoinReturns == pc = "join" /\ running = {} ~> pc # "join" \/ dead
=============================================================================
