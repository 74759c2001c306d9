----------------------------- MODULE EventLoop -----------------------------
(***************************************************************************)
(* The event loop of src/linux/event.cpp: runEventloop starts one worker   *)
(* (thrs = 1), which waits in epoll_wait, handles the last entry of what   *)
(* is returned and starts over.  The kernel (sockets and epoll), the peers *)
(* at the other end and the application behind the four hooks (Connect-,   *)
(* Request-, Response- and DisconnectEvent, which eventapi declares and    *)
(* EPOLL leaves empty) are external.  The receive queue, which the loop    *)
(* only appends to, is ConQueue's; here a con has its send queue, as the   *)
(* sizes of its blocks.                                                    *)
(***************************************************************************)
EXTENDS Naturals, Sequences, FiniteSets

CONSTANTS
    Cons,           \* addresses a con object can have
    Null,           \* data.ptr of the listening socket
    Wild,           \* a data.ptr that is the address of nothing
    PackedEvents,   \* whether the kernel packs struct epoll_event (x86_64)
    SndBuf,         \* bytes a socket's send buffer takes
    BlockSize,      \* BLOCKSIZE: bytes one recv takes
    MaxClients,     \* bound: clients that ever connect
    MaxIn, MaxOut   \* bounds: bytes a peer sends, the application queues

ASSUME PointerAssumption == Null \notin Cons /\ Wild \notin Cons /\ Null # Wild
ASSUME SizeAssumption ==
    /\ PackedEvents \in BOOLEAN
    /\ SndBuf \in Nat \ {0} /\ BlockSize \in Nat \ {0}
    /\ MaxClients \in Nat /\ MaxIn \in Nat /\ MaxOut \in Nat

VARIABLES
    run,        \* event::_Run
    pc,         \* where the worker is
    cur,        \* _Events[pos].data.ptr of the entry being handled
    sent,       \* `sended` in WriteEventHandler
    alloc,      \* the con objects that exist
    sendq,      \* block sizes of each con's send queue
    named,      \* whether sendto still gets the address of accept
    \* external: the kernel and the peers
    arrived,    \* clients that connected so far
    backlog,    \* connections waiting for accept
    armed,      \* the events each con is registered for; {}: it is not
    inbuf,      \* bytes in the socket's receive buffer
    outbuf,     \* bytes in its send buffer
    peer,       \* the other end: "none", "open", "eof" or "reset"
    \* ghosts, counted over a connection's life
    heard,      \* bytes the peer sent
    queued,     \* bytes the application added to the send queue
    cleaned,    \* bytes cleanSendData removed
    handed,     \* bytes the kernel took
    stranded    \* cons whose DisconnectEvent threw: alive, not in epoll

worker == <<run, pc, cur, sent>>
conn == <<alloc, sendq, named>>
net == <<arrived, backlog, armed, inbuf, outbuf, peer>>
ghosts == <<heard, queued, cleaned, handed, stranded>>
vars == <<worker, conn, net, ghosts>>

Handlers == {"accept", "recv", "send", "resize", "close"}
Hooks == {"connect", "request", "response", "disconnect"}

TypeOK ==
    /\ run \in BOOLEAN
    /\ pc \in Handlers \cup Hooks \cup {"head", "wait", "exit", "dead"}
    /\ cur \in Cons \cup {Null, Wild}
    /\ sent \in 0 .. SndBuf
    /\ alloc \subseteq Cons
    /\ sendq \in [Cons -> Seq(1 .. MaxOut)]
    /\ named \in [Cons -> BOOLEAN]
    /\ arrived \in 0 .. MaxClients
    /\ backlog \in 0 .. MaxClients
    /\ armed \in [Cons -> {{}, {"in"}, {"in", "out"}}]
    /\ inbuf \in [Cons -> 0 .. MaxIn]
    /\ outbuf \in [Cons -> 0 .. SndBuf]
    /\ peer \in [Cons -> {"none", "open", "eof", "reset"}]
    /\ heard \in [Cons -> 0 .. MaxIn]
    /\ queued \in [Cons -> 0 .. MaxOut]
    /\ cleaned \in [Cons -> 0 .. MaxOut]
    /\ handed \in [Cons -> 0 .. MaxOut]
    /\ stranded \subseteq Cons

Init ==
    /\ run = TRUE /\ pc = "head" /\ cur = Null /\ sent = 0
    /\ alloc = {}
    /\ sendq = [c \in Cons |-> <<>>]
    /\ named = [c \in Cons |-> FALSE]
    /\ arrived = 0 /\ backlog = 0
    /\ armed = [c \in Cons |-> {}]
    /\ inbuf = [c \in Cons |-> 0] /\ outbuf = [c \in Cons |-> 0]
    /\ peer = [c \in Cons |-> "none"]
    /\ heard = [c \in Cons |-> 0] /\ queued = [c \in Cons |-> 0]
    /\ cleaned = [c \in Cons |-> 0] /\ handed = [c \in Cons |-> 0]
    /\ stranded = {}

Goto(l) == pc' = l
Least(a, b) == IF a < b THEN a ELSE b
Registered == {c \in Cons : armed[c] # {}}
Pending(c) == sendq[c] # <<>>

(* The bytes of the first blocks of a queue, by their number, and of a     *)
(* whole send queue (getSendSize). *)
SizeUpTo(q) ==
    LET upTo[i \in 0 .. Len(q)] == IF i = 0 THEN 0 ELSE upTo[i - 1] + q[i]
    IN  upTo

SendSize(c) == SizeUpTo(sendq[c])[Len(sendq[c])]

-----------------------------------------------------------------------------
(* External: what epoll reports (level-triggered; Null is the listener). *)
Readable(c) == inbuf[c] > 0 \/ peer[c] \in {"eof", "reset"}
Writable(c) == outbuf[c] < SndBuf \/ peer[c] = "reset"

Ready == {c \in Registered : Readable(c) \/ ("out" \in armed[c] /\ Writable(c))}
         \cup (IF backlog > 0 THEN {Null} ELSE {})

(* What the worker reads in data.ptr of the last of n returned entries.    *)
(* Its struct epoll_event is 16 bytes, with data at 8.  A kernel that      *)
(* packs the struct into 12 bytes has stored only the low half of the      *)
(* pointer, which comes back as the whole pointer if n = 1; for n > 1 the  *)
(* worker reads behind what the kernel wrote: the nullptr that             *)
(* initEventHandler stored, or what a longer answer left there.            *)
Delivered(e, n) ==
    IF ~PackedEvents THEN {e}
    ELSE IF n > 1 THEN {Null, Wild}
    ELSE {IF e = Null THEN Null ELSE Wild}

-----------------------------------------------------------------------------
(* WorkerThread's loop head. *)
LoopHead ==
    /\ pc = "head"
    /\ Goto(IF run THEN "wait" ELSE "exit")
    /\ UNCHANGED <<run, cur, sent, conn, net, ghosts>>

(* waitEventHandler: the entry of the listener goes to Connect-, a con     *)
(* with queued data to Write- and any other con to ReadEventHandler,       *)
(* whichever events the kernel reported. *)
Dispatch(p) ==
    CASE p = Null -> "accept"
      [] p = Wild -> "dead"
      [] OTHER    -> IF Pending(p) THEN "send" ELSE "recv"

Wait ==
    /\ pc = "wait"
    /\ \E e \in Ready : cur' \in Delivered(e, Cardinality(Ready))
    /\ Goto(Dispatch(cur'))
    /\ UNCHANGED <<run, sent, conn, net, ghosts>>

(* epoll_wait fails (-EINTR): pos stays negative and CloseEventHandler     *)
(* follows the pointer in an entry in front of the array. *)
WaitFails ==
    /\ pc = "wait"
    /\ Goto("dead")
    /\ UNCHANGED <<run, cur, sent, conn, net, ghosts>>

-----------------------------------------------------------------------------
(* A SystemException is thrown: a handler's catch asks it what() it says,  *)
(* and reads message text that array::operator= has already freed, which   *)
(* may kill the process; else CloseEventHandler follows.                   *)
Throw == Goto("close") \/ Goto("dead")

(* ConnectEventHandler: a new con is registered for EPOLLIN. *)
Accept(c) ==
    /\ pc = "accept"
    /\ backlog > 0 /\ c \notin alloc
    /\ backlog' = backlog - 1
    /\ alloc' = alloc \cup {c}
    /\ named' = [named EXCEPT ![c] = TRUE]
    /\ armed' = [armed EXCEPT ![c] = {"in"}]
    /\ peer' = [peer EXCEPT ![c] = "open"]
    /\ Goto("connect")
    /\ UNCHANGED <<run, cur, sent, sendq, arrived, inbuf, outbuf, ghosts>>

(* accept fails (out of descriptors, no client): the new con is leaked.    *)
AcceptFails(c) ==
    /\ pc = "accept"
    /\ c \notin alloc
    /\ alloc' = alloc \cup {c}
    /\ Throw
    /\ UNCHANGED <<run, cur, sent, sendq, named, net, ghosts>>

(* accept succeeds, setnonblocking or EPOLL_CTL_ADD fails: the new con is  *)
(* leaked together with the connection, which stays open.                  *)
AddFails(c) ==
    /\ pc = "accept"
    /\ backlog > 0 /\ c \notin alloc
    /\ backlog' = backlog - 1
    /\ alloc' = alloc \cup {c}
    /\ named' = [named EXCEPT ![c] = TRUE]
    /\ peer' = [peer EXCEPT ![c] = "open"]
    /\ Throw
    /\ UNCHANGED <<run, cur, sent, sendq, arrived, armed, inbuf, outbuf, ghosts>>

(* ReadEventHandler: recv, addRecvQueue, then the hook. *)
Recv ==
    /\ pc = "recv"
    /\ inbuf[cur] > 0
    /\ inbuf' = [inbuf EXCEPT ![cur] = @ - Least(@, BlockSize)]
    /\ named' = [named EXCEPT ![cur] = FALSE]
    /\ Goto("request")
    /\ UNCHANGED <<run, cur, sent, alloc, sendq, arrived, backlog, armed, outbuf,
                   peer, ghosts>>

(* As a mutant of RecvFails: the failure is taken for "try again". *)
RecvAgain ==
    /\ pc = "recv"
    /\ inbuf[cur] = 0
    /\ Goto("head")
    /\ UNCHANGED <<run, cur, sent, conn, net, ghosts>>

(* Nothing to receive (EAGAIN), the end of the stream (addRecvQueue throws *)
(* on 0 bytes) and a reset all end in a Critical exception. *)
RecvFails ==
    /\ pc = "recv"
    /\ inbuf[cur] = 0
    /\ Throw
    /\ UNCHANGED <<run, cur, sent, conn, net, ghosts>>

(* WriteEventHandler: the kernel takes any part of the first block. *)
Send ==
    /\ pc = "send"
    /\ peer[cur] # "reset"
    /\ \E k \in 1 .. Least(Head(sendq[cur]), SndBuf - outbuf[cur]) :
          /\ sent' = k
          /\ outbuf' = [outbuf EXCEPT ![cur] = @ + k]
          /\ handed' = [handed EXCEPT ![cur] = @ + k]
    /\ Goto("resize")
    /\ UNCHANGED <<run, cur, conn, arrived, backlog, armed, inbuf, peer,
                   heard, queued, cleaned, stranded>>

(* The send buffer is full (EAGAIN), the peer reset the connection, or     *)
(* sendto rejects the address that accept left in the client socket.       *)
SendFails ==
    /\ pc = "send"
    /\ outbuf[cur] = SndBuf \/ peer[cur] = "reset" \/ named[cur]
    /\ Throw
    /\ UNCHANGED <<run, cur, sent, conn, net, ghosts>>

(* sendto without MSG_NOSIGNAL on a reset connection raises SIGPIPE. *)
SendKills ==
    /\ pc = "send"
    /\ peer[cur] = "reset"
    /\ Goto("dead")
    /\ UNCHANGED <<run, cur, sent, conn, net, ghosts>>

(* resizeSendQueue: a queue q of which k bytes of the first block go.      *)
(* Mutants of Remaining: a block sent as a whole stays, without bytes; a   *)
(* block sent in part goes as a whole. *)
RemainingEmptied(q, k) == [q EXCEPT ![1] = @ - k]
RemainingDropped(q, k) == Tail(q)

Remaining(q, k) ==
    IF Head(q) = k THEN Tail(q) ELSE [q EXCEPT ![1] = @ - k]

(* The events a con is registered for once q is what it has still to send: *)
(* with an empty queue EPOLLIN only.  Mutant: after every send. *)
EventsAfterAnySend(c, q) == {"in"}
EventsAfterSend(c, q) == IF q = <<>> THEN {"in"} ELSE armed[c]

(* The rest of WriteEventHandler, up to its hook. *)
Resize ==
    /\ pc = "resize"
    /\ sendq' = [sendq EXCEPT ![cur] = Remaining(@, sent)]
    /\ armed' = [armed EXCEPT ![cur] = EventsAfterSend(cur, sendq'[cur])]
    /\ sent' = 0
    /\ Goto("response")
    /\ UNCHANGED <<run, cur, alloc, named, arrived, backlog, inbuf, outbuf, peer,
                   ghosts>>

(* EPOLL_CTL_DEL.  Mutant: it is left to delete, with the entry still in   *)
(* the interest list of a descriptor that someone else holds open. *)
Unforgotten(c) == UNCHANGED armed
Forget(c) == armed' = [armed EXCEPT ![c] = {}]

(* delete: ~con closes the client socket and drops both queues. *)
DeleteCon(c) ==
    /\ alloc' = alloc \ {c}
    /\ sendq' = [sendq EXCEPT ![c] = <<>>]
    /\ named' = [named EXCEPT ![c] = FALSE]
    /\ inbuf' = [inbuf EXCEPT ![c] = 0]
    /\ outbuf' = [outbuf EXCEPT ![c] = 0]
    /\ peer' = [peer EXCEPT ![c] = "none"]

(* CloseEventHandler has caught or finished: the loop goes on, unless the  *)
(* error it closes for is Critical and its freed text kills WorkerThread,  *)
(* which prints it.                                                        *)
Closed == Goto("head") \/ Goto("dead")

(* CloseEventHandler: the con is taken out of epoll and then passed to     *)
(* DisconnectEvent, the fourth hook ... *)
CloseCon ==
    /\ pc = "close"
    /\ cur # Null
    /\ Forget(cur)
    /\ Goto("disconnect")
    /\ UNCHANGED <<run, cur, sent, conn, arrived, backlog, inbuf, outbuf, peer, ghosts>>

(* ... or epoll refuses, and the catch leaves the con as it was.           *)
CloseFails ==
    /\ pc = "close"
    /\ cur # Null
    /\ Closed
    /\ UNCHANGED <<run, cur, sent, conn, net, ghosts>>

(* The hook has returned: the con is deleted, with what the hook queued.   *)
Delete ==
    /\ pc = "disconnect"
    /\ DeleteCon(cur)
    /\ heard' = [heard EXCEPT ![cur] = 0]
    /\ queued' = [queued EXCEPT ![cur] = 0]
    /\ cleaned' = [cleaned EXCEPT ![cur] = 0]
    /\ handed' = [handed EXCEPT ![cur] = 0]
    /\ cur' = Null
    /\ Closed
    /\ UNCHANGED <<run, sent, arrived, backlog, armed, stranded>>

(* The hook has thrown, into CloseEventHandler's own catch: the con is     *)
(* neither registered nor deleted, and nothing comes back to it.           *)
DisconnectThrows ==
    /\ pc = "disconnect"
    /\ stranded' = stranded \cup {cur}
    /\ Closed
    /\ UNCHANGED <<run, cur, sent, conn, net, heard, queued, cleaned, handed>>

(* ... but after a failed ConnectEventHandler data.ptr is the nullptr of   *)
(* the listener, which it dereferences. *)
CloseListener ==
    /\ pc = "close"
    /\ cur = Null
    /\ Goto("dead")
    /\ UNCHANGED <<run, cur, sent, conn, net, ghosts>>

-----------------------------------------------------------------------------
(* External: the application in a hook.  It queues n bytes on a connection *)
(* (addSendQueue calls sendReady last), takes its queued data back with    *)
(* cleanSendData (calling sendReady after it or not), returns, or throws a *)
(* SystemException.                                                        *)
InHook == pc \in Hooks

(* EPOLL_CTL_MOD.  On a con that epoll has forgotten it fails: the data is *)
(* queued all the same, and sendReady's exception is the application's to  *)
(* catch, or else leaves the hook.                                         *)
SendReady(c, ready) ==
    IF c \in Registered
    THEN armed' = [armed EXCEPT ![c] = IF ready THEN {"in", "out"} ELSE {"in"}]
    ELSE UNCHANGED armed

AppSend(c, n) ==
    /\ InHook
    /\ c \in alloc
    /\ queued[c] + n <= MaxOut
    /\ sendq' = [sendq EXCEPT ![c] = Append(@, n)]
    /\ queued' = [queued EXCEPT ![c] = @ + n]
    /\ SendReady(c, TRUE)
    /\ UNCHANGED <<worker, alloc, named, arrived, backlog, inbuf, outbuf, peer,
                   heard, cleaned, handed, stranded>>

AppClean(c) ==
    /\ InHook
    /\ c \in alloc /\ Pending(c)
    /\ cleaned' = [cleaned EXCEPT ![c] = @ + SendSize(c)]
    /\ sendq' = [sendq EXCEPT ![c] = <<>>]
    /\ SendReady(c, FALSE) \/ UNCHANGED armed
    /\ UNCHANGED <<worker, alloc, named, arrived, backlog, inbuf, outbuf, peer,
                   heard, queued, handed, stranded>>

(* The hooks that end a handler; for DisconnectEvent see Delete and        *)
(* DisconnectThrows. *)
HookReturn ==
    /\ InHook /\ pc # "disconnect"
    /\ Goto("head")
    /\ UNCHANGED <<run, cur, sent, conn, net, ghosts>>

HookThrow ==
    /\ InHook /\ pc # "disconnect"
    /\ Throw
    /\ UNCHANGED <<run, cur, sent, conn, net, ghosts>>

-----------------------------------------------------------------------------
(* External: the clients.  There is always an address for one more con.    *)
ClientConnect ==
    /\ arrived < MaxClients
    /\ backlog + Cardinality(alloc) < Cardinality(Cons)
    /\ arrived' = arrived + 1
    /\ backlog' = backlog + 1
    /\ UNCHANGED <<worker, conn, armed, inbuf, outbuf, peer, ghosts>>

PeerSend(c) ==
    /\ peer[c] = "open"
    /\ heard[c] < MaxIn
    /\ heard' = [heard EXCEPT ![c] = @ + 1]
    /\ inbuf' = [inbuf EXCEPT ![c] = @ + 1]
    /\ UNCHANGED <<worker, conn, arrived, backlog, armed, outbuf, peer,
                   queued, cleaned, handed, stranded>>

PeerRead(c) ==
    /\ peer[c] \in {"open", "eof"}
    /\ outbuf[c] > 0
    /\ outbuf' = [outbuf EXCEPT ![c] = @ - 1]
    /\ UNCHANGED <<worker, conn, arrived, backlog, armed, inbuf, peer, ghosts>>

PeerShut(c) ==
    /\ peer[c] = "open"
    /\ peer' = [peer EXCEPT ![c] = "eof"]
    /\ UNCHANGED <<worker, conn, arrived, backlog, armed, inbuf, outbuf, ghosts>>

(* A reset discards what the socket's buffers hold. *)
PeerReset(c) ==
    /\ peer[c] \in {"open", "eof"}
    /\ peer' = [peer EXCEPT ![c] = "reset"]
    /\ inbuf' = [inbuf EXCEPT ![c] = 0]
    /\ outbuf' = [outbuf EXCEPT ![c] = 0]
    /\ UNCHANGED <<worker, conn, arrived, backlog, armed, ghosts>>

(* Something sets event::_Run to false; the worker sees it at its loop     *)
(* head, not while it waits. *)
Stop ==
    /\ run
    /\ run' = FALSE
    /\ UNCHANGED <<pc, cur, sent, conn, net, ghosts>>

-----------------------------------------------------------------------------
(* What the worker does by itself ... *)
Worker ==
    \/ LoopHead \/ Wait
    \/ \E c \in Cons : Accept(c)
    \/ Recv \/ RecvFails
    \/ Send \/ SendFails \/ Resize
    \/ CloseCon \/ CloseListener \/ Delete
    \/ HookReturn

(* ... and what may come in between: calls that fail for a reason outside  *)
(* the model, and the application in a hook. *)
Failures ==
    \/ WaitFails \/ SendKills \/ CloseFails
    \/ \E c \in Cons : AcceptFails(c) \/ AddFails(c)

Application ==
    \/ \E c \in Cons : AppClean(c) \/ \E n \in 1 .. MaxOut : AppSend(c, n)
    \/ HookThrow \/ DisconnectThrows

Clients ==
    \/ ClientConnect
    \/ \E c \in Cons : PeerSend(c) \/ PeerRead(c) \/ PeerShut(c) \/ PeerReset(c)

Next == Worker \/ Failures \/ Application \/ Clients \/ Stop

Spec == Init /\ [][Next]_vars

(* The worker is a thread of its own, whose hooks return or throw, and the *)
(* peers read what they are sent.  Nothing has to fail; but EPOLL_CTL_DEL  *)
(* of an open, registered descriptor is not refused every time, however    *)
(* often the loop comes back to it: a fairness that must be strong, as a   *)
(* refusal sends the worker away from "close".                             *)
FairSpec ==
    /\ Spec
    /\ WF_vars(Worker) /\ SF_vars(CloseCon)
    /\ \A c \in Cons : WF_vars(PeerRead(c))

-----------------------------------------------------------------------------
Stopped == pc \in {"exit", "dead"}

(* epoll and the heap agree: a registered con is never a deleted one, so   *)
(* that the pointer an event brings can be followed; the one a handler or  *)
(* its hook works on is registered, up to the EPOLL_CTL_DEL that closes    *)
(* it; and between two events no con is left that epoll has forgotten and  *)
(* nothing could ever close, except those whose DisconnectEvent threw.     *)
RegisteredLive ==
    /\ Registered \subseteq alloc
    /\ cur \in alloc \cup {Null}
    /\ pc \in {"recv", "request", "send", "resize", "response"} => cur \in Registered
    /\ pc = "close" => cur \in Registered \cup {Null}
    /\ Registered \cap stranded = {}
    /\ pc \in {"head", "wait", "exit"} => alloc = Registered \cup stranded

(* A con with unsent data waits for EPOLLOUT as well, whichever way it got *)
(* there: nothing queued in one hook is forgotten by the handler of        *)
(* another event that empties the queue in between.  Only data for a con   *)
(* that is being closed, or should have been (stranded), waits for nothing.*)
WriteArmed ==
    \A c \in Cons :
        Pending(c) => "out" \in armed[c] \/ c \in stranded \/ (pc = "disconnect" /\ c = cur)

(* What makes these inductive, on a kernel of either kind: a pointer that  *)
(* is no con's kills the process before a handler runs (Known; without     *)
(* packed events it says RegisteredLive); the send handler works on a con  *)
(* with data, of whose first block it sends no more than there is, and the *)
(* connect handler on none; only a failed accept, a con being closed and   *)
(* the stranded ones are cons that epoll does not know.                    *)
Known ==
    /\ Registered \subseteq alloc /\ stranded \subseteq alloc
    /\ Registered \cap stranded = {}
    /\ cur \in alloc \cup {Null} \/ (cur = Wild /\ pc = "dead" /\ PackedEvents)
    /\ pc \in {"recv", "request", "send", "resize", "response"} => cur \in Registered
    /\ pc = "close" => cur \in Registered \cup {Null}
    /\ pc = "disconnect" => cur \in alloc \ (Registered \cup stranded)

HandlerEntry ==
    /\ pc \in {"send", "resize"} => Pending(cur)
    /\ pc = "resize" => sent <= Head(sendq[cur])
    /\ pc \in {"accept", "connect"} => cur = Null
    /\ \/ alloc = Registered \cup stranded
       \/ pc = "dead" \/ (pc = "close" /\ cur = Null)
       \/ pc = "disconnect" /\ alloc = Registered \cup stranded \cup {cur}

Shape ==
    /\ pc \in Handlers \cup Hooks \cup {"head", "wait", "exit", "dead"}
    /\ armed \in [Cons -> SUBSET {"in", "out"}]
    /\ sendq \in [Cons -> Seq(Nat \ {0})]
    /\ sent \in Nat
    /\ outbuf \in [Cons -> 0 .. SndBuf]
    /\ alloc \subseteq Cons

LoopInv == Shape /\ Known /\ WriteArmed /\ HandlerEntry

(* No byte is lost, sent twice or sent after it was taken back, as far as  *)
(* the numbers of bytes tell: as many as were queued are with the kernel,  *)
(* still queued or cleaned; a block of which the kernel took a part is     *)
(* counted once.                                                           *)
InFlight(c) == IF pc = "resize" /\ cur = c THEN sent ELSE 0

SentOnce ==
    \A c \in Cons : queued[c] + InFlight(c) = handed[c] + SendSize(c) + cleaned[c]

(* With LoopInv this is inductive, if no connection is accepted that did   *)
(* not arrive and nothing received that was not sent.                      *)
Accounts ==
    /\ backlog <= arrived
    /\ \A c \in Cons : inbuf[c] <= heard[c]

CountInv == TypeOK /\ SentOnce /\ Accounts

(* What was queued does not wait forever: for every n bytes queued on a    *)
(* connection, n bytes are handed to the kernel or taken back by the       *)
(* application, whatever else (full send buffers, partial sends, other     *)
(* connections) comes first, unless the worker stops or the connection is  *)
(* closed with the rest of its data, by a failing send for example.  Not   *)
(* so for a con whose DisconnectEvent threw: its data stays.               *)
Flushed ==
    \A c \in Cons, n \in 1 .. MaxOut :
        queued[c] >= n ~> \/ handed[c] + cleaned[c] >= n
                         \/ peer[c] = "none" \/ c \in stranded \/ Stopped

(* A connection the other end has left (shut down or reset) is closed and  *)
(* deleted in the end, also when data was queued for it at that time and   *)
(* though epoll may refuse to forget it a few times; unless its            *)
(* DisconnectEvent throws, and it stays open for good.                     *)
GoneAreClosed ==
    \A c \in Cons : peer[c] \in {"eof", "reset"} ~>
                         (peer[c] = "none" \/ c \in stranded \/ Stopped)

(* What an event entry brings back is what was registered with it: the con *)
(* or the listener's nullptr (the `User data` of struct epoll_event).      *)
UserData == cur \in alloc \cup {Null}

(* WriteEventHandler runs for a connection that is ready to send data.     *)
ReadyToSend == pc = "send" => Writable(cur)
=============================================================================
