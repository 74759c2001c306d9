-------------------------- MODULE EventLoopProofs --------------------------
(* Theorems about EventLoop: epoll and the heap agree about the cons,      *)
(* queued data always waits for EPOLLOUT, and every byte is sent once.     *)
EXTENDS EventLoop, Induction, TLAPS

(* What resizeSendQueue leaves of a queue: blocks that are not empty. *)
LEMMA RemainingFacts ==
    ASSUME NEW q \in Seq(Nat \ {0}), q # <<>>, NEW k \in Nat, k <= Head(q)
    PROVE  Remaining(q, k) \in Seq(Nat \ {0})
<1>1. Head(q) \in Nat \ {0} /\ 1 \in 1 .. Len(q) /\ Head(q) = q[1]
  OBVIOUS
<1>2. CASE Head(q) = k
  BY <1>2 DEF Remaining
<1>3. CASE Head(q) # k
  <2>1. q[1] - k \in Nat \ {0}
    BY <1>1, <1>3
  <2>2. QED
    BY <1>1, <1>3, <2>1 DEF Remaining
<1>4. QED
  BY <1>2, <1>3

(* The number of bytes in the first blocks of a queue, block by block. *)
LEMMA SizeSteps ==
    ASSUME NEW q \in Seq(Nat)
    PROVE  /\ SizeUpTo(q) \in [0 .. Len(q) -> Nat]
           /\ SizeUpTo(q)[0] = 0
           /\ \A i \in 1 .. Len(q) : SizeUpTo(q)[i] = SizeUpTo(q)[i - 1] + q[i]
<1> DEFINE n == Len(q)
           h == [i \in 1 .. n |-> [k \in Nat |-> k + q[i]]]
           Steps(f) == f = [i \in 0 .. n |-> IF i = 0 THEN 0 ELSE f[i - 1] + q[i]]
<1>1. StepsOf(Nat, 0, n, h) /\ n \in Nat
  BY DEF StepsOf
<1>2. \A i \in 1 .. n, k \in Nat : h[i][k] = k + q[i]
  OBVIOUS
<1> HIDE DEF h
<1>3. PICK f : Follows(f, Nat, 0, n, h)
  BY <1>1, RecursiveFunction
<1>4. /\ f \in [0 .. n -> Nat] /\ f[0] = 0
      /\ \A i \in 1 .. n : f[i] = h[i][f[i - 1]]
  BY <1>3 DEF Follows
<1>5. ASSUME NEW i \in 1 .. n PROVE f[i - 1] \in Nat
  <2>1. i - 1 \in 0 .. n
    BY <1>1
  <2>2. f \in [0 .. n -> Nat]
    BY <1>4
  <2> HIDE DEF n
  <2>3. QED
    BY <2>1, <2>2
<1>6. \A i \in 1 .. n : f[i] = f[i - 1] + q[i]
  BY <1>2, <1>4, <1>5
<1>7. Steps(f)
  BY <1>4, <1>6
<1>8. Steps(SizeUpTo(q))
  <2> HIDE DEF Steps
  <2>1. Steps(CHOOSE g : Steps(g))
    BY <1>7
  <2>2. QED
    BY <2>1 DEF Steps, SizeUpTo
<1> DEFINE u == SizeUpTo(q)
           S == {i \in 0 .. n : u[i] \in Nat}
<1> HIDE DEF u
<1>9. u = [i \in 0 .. n |-> IF i = 0 THEN 0 ELSE u[i - 1] + q[i]]
  BY <1>8 DEF u
<1>10. u[0] = 0 /\ \A i \in 1 .. n : u[i] = u[i - 1] + q[i]
  BY <1>1, <1>9
<1>11. \A i \in 1 .. n : q[i] \in Nat
  OBVIOUS
<1>12. 0 .. n \subseteq S
  <2>1. 0 \in S /\ \A i \in 1 .. n : i - 1 \in S => i \in S
    BY <1>1, <1>10, <1>11, SMTT(30)
  <2> HIDE DEF S
  <2>2. QED
    BY <1>1, <2>1, InductionUpTo
<1>13. u \in [0 .. n -> Nat]
  BY <1>9, <1>12
<1>14. QED
  BY <1>10, <1>13 DEF u

(* Where two queues have the same m blocks, behind their first a and their *)
(* first b, their sizes grow by the same number of bytes. *)
SameBlocks(q, a, r, b, m) ==
    /\ q \in Seq(Nat) /\ r \in Seq(Nat)
    /\ a \in Nat /\ b \in Nat /\ m \in Nat
    /\ a + m <= Len(q) /\ b + m <= Len(r)
    /\ \A i \in 1 .. m : q[a + i] = r[b + i]

SameGrowth(q, a, r, b, m) ==
    SizeUpTo(q)[a + m] + SizeUpTo(r)[b] = SizeUpTo(q)[a] + SizeUpTo(r)[b + m]

LEMMA SizeOfSameBlocks ==
    ASSUME NEW q, NEW a, NEW r, NEW b, NEW m, SameBlocks(q, a, r, b, m)
    PROVE  SameGrowth(q, a, r, b, m)
<1> USE DEF SameBlocks
<1>0. Len(q) \in Nat /\ Len(r) \in Nat /\ m \in Nat
  OBVIOUS
<1> DEFINE u == SizeUpTo(q)
           v == SizeUpTo(r)
           S == {i \in 0 .. m : u[a + i] + v[b] = u[a] + v[b + i]}
<1>1. /\ u \in [0 .. Len(q) -> Nat] /\ \A i \in 1 .. Len(q) : u[i] = u[i - 1] + q[i]
      /\ v \in [0 .. Len(r) -> Nat] /\ \A i \in 1 .. Len(r) : v[i] = v[i - 1] + r[i]
  BY SizeSteps
<1> HIDE DEF u, v
<1>2. 0 \in S
  BY <1>1
<1>3. ASSUME NEW i \in 1 .. m, i - 1 \in S
      PROVE  i \in S
  <2>1. /\ a + i \in 1 .. Len(q) /\ b + i \in 1 .. Len(r)
        /\ (a + i) - 1 = a + (i - 1) /\ (b + i) - 1 = b + (i - 1)
    OBVIOUS
  <2>2. u[a + i] = u[a + (i - 1)] + q[a + i] /\ v[b + i] = v[b + (i - 1)] + r[b + i]
    BY <1>1, <2>1
  <2>3. u[a + (i - 1)] + v[b] = u[a] + v[b + (i - 1)]
    BY <1>3
  <2>4. q[a + i] \in Nat /\ q[a + i] = r[b + i]
    BY <2>1
  <2>5. /\ a + (i - 1) \in 0 .. Len(q) /\ a \in 0 .. Len(q)
        /\ b + (i - 1) \in 0 .. Len(r) /\ b \in 0 .. Len(r)
    BY <1>0
  <2>6. u[a + (i - 1)] \in Nat /\ v[b + (i - 1)] \in Nat /\ u[a] \in Nat /\ v[b] \in Nat
    BY <1>1, <2>5
  <2> HIDE DEF SameBlocks
  <2>7. \A w, x, y, z, p \in Nat : w + x = y + z => (w + p) + x = y + (z + p)
    OBVIOUS
  <2>8. u[a + i] + v[b] = u[a] + v[b + i]
    BY <2>2, <2>3, <2>4, <2>6, <2>7
  <2>9. QED
    BY <1>0, <2>8
<1>4. 0 .. m \subseteq S
  <2> HIDE DEF S
  <2>1. QED
    BY <1>0, <1>2, <1>3, InductionUpTo
<1>5. m \in S
  BY <1>0, <1>4
<1>6. QED
  BY <1>5 DEF u, v, SameGrowth

(* The sizes of the queues that the handlers and the application leave.    *)
LEMMA SizeOfAppend ==
    ASSUME NEW q \in Seq(Nat), NEW n \in Nat
    PROVE  SizeUpTo(Append(q, n))[Len(Append(q, n))] = SizeUpTo(q)[Len(q)] + n
<1> DEFINE r == Append(q, n)
<1>1. /\ r \in Seq(Nat) /\ Len(q) \in Nat /\ Len(r) = Len(q) + 1 /\ r[Len(q) + 1] = n
      /\ \A i \in 1 .. Len(q) : r[i] = q[i]
  OBVIOUS
<1> HIDE DEF r
<1>2. /\ SizeUpTo(q) \in [0 .. Len(q) -> Nat] /\ SizeUpTo(q)[0] = 0
      /\ SizeUpTo(r)[0] = 0 /\ SizeUpTo(r) \in [0 .. Len(r) -> Nat]
      /\ SizeUpTo(r)[Len(r)] = SizeUpTo(r)[Len(r) - 1] + r[Len(r)]
  <2>1. Len(r) \in 1 .. Len(r)
    BY <1>1
  <2>2. QED
    BY <1>1, <2>1, SizeSteps
<1>3. SizeUpTo(r)[0 + Len(q)] + SizeUpTo(q)[0] = SizeUpTo(r)[0] + SizeUpTo(q)[0 + Len(q)]
  <2>1. SameBlocks(r, 0, q, 0, Len(q))
    BY <1>1 DEF SameBlocks
  <2>2. QED
    BY <2>1, SizeOfSameBlocks DEF SameGrowth
<1>4. SizeUpTo(r)[Len(q)] = SizeUpTo(q)[Len(q)]
  BY <1>1, <1>2, <1>3, SMTT(30)
<1>5. SizeUpTo(r)[Len(r)] = SizeUpTo(q)[Len(q)] + n
  BY <1>1, <1>2, <1>4
<1>6. QED
  BY <1>5 DEF r

LEMMA SizeOfRemaining ==
    ASSUME NEW q \in Seq(Nat \ {0}), q # <<>>, NEW k \in Nat, k <= Head(q)
    PROVE  /\ SizeUpTo(q)[Len(q)] = SizeUpTo(Remaining(q, k))[Len(Remaining(q, k))] + k
           /\ k <= SizeUpTo(q)[Len(q)]
<1> DEFINE r == Remaining(q, k)
           m == Len(q) - 1
<1>1. /\ q \in Seq(Nat) /\ Head(q) = q[1] /\ q[1] \in Nat /\ m \in Nat /\ Len(q) = 1 + m
      /\ 1 \in 1 .. Len(q)
  OBVIOUS
<1>2. r \in Seq(Nat)
  BY RemainingFacts
<1>3. SizeUpTo(q) \in [0 .. Len(q) -> Nat] /\ SizeUpTo(q)[1] = q[1]
  <2>1. SizeUpTo(q)[1] = SizeUpTo(q)[1 - 1] + q[1] /\ SizeUpTo(q)[0] = 0
    BY <1>1, SizeSteps
  <2>2. QED
    BY <1>1, <2>1, SizeSteps
<1>4. CASE Head(q) = k
  <2>1. r = Tail(q)
    BY <1>4 DEF Remaining
  <2>2. Len(r) = m /\ \A i \in 1 .. m : q[1 + i] = r[0 + i]
    BY <1>1, <2>1
  <2> HIDE DEF r
  <2>3. SizeUpTo(r) \in [0 .. Len(r) -> Nat] /\ SizeUpTo(r)[0] = 0
    BY <1>2, SizeSteps
  <2>4. SizeUpTo(q)[1 + m] + SizeUpTo(r)[0] = SizeUpTo(q)[1] + SizeUpTo(r)[0 + m]
    <3>1. SameBlocks(q, 1, r, 0, m)
      BY <1>1, <1>2, <2>2 DEF SameBlocks
    <3>2. QED
      BY <3>1, SizeOfSameBlocks DEF SameGrowth
  <2>5. SizeUpTo(q)[Len(q)] = k + SizeUpTo(r)[Len(r)] /\ SizeUpTo(r)[Len(r)] \in Nat
    <3>1. SizeUpTo(r)[m] \in Nat /\ SizeUpTo(q)[1 + m] \in Nat /\ 0 + m = m
      <4>1. 1 + m \in 0 .. Len(q) /\ m \in 0 .. Len(r) /\ 0 + m = m
        BY <1>1, <2>2
      <4> HIDE DEF m
      <4>2. QED
        BY <1>3, <2>3, <4>1
    <3>2. SizeUpTo(q)[1 + m] + 0 = k + SizeUpTo(r)[m]
      BY <1>1, <1>3, <1>4, <2>3, <2>4, <3>1
    <3>3. QED
      BY <1>1, <2>2, <3>1, <3>2
  <2>6. QED
    BY <2>5 DEF r
<1>5. CASE Head(q) # k
  <2>1. r = [q EXCEPT ![1] = q[1] - k]
    BY <1>1, <1>5 DEF Remaining
  <2>2. Len(r) = 1 + m /\ r[1] = q[1] - k /\ \A i \in 1 .. m : q[1 + i] = r[1 + i]
    BY <1>1, <2>1
  <2> HIDE DEF r
  <2>3. SizeUpTo(r) \in [0 .. Len(r) -> Nat] /\ SizeUpTo(r)[1] = q[1] - k
    <3>1. SizeUpTo(r)[1] = SizeUpTo(r)[1 - 1] + r[1] /\ SizeUpTo(r)[0] = 0 /\ r[1] \in Nat
      BY <1>1, <1>2, <2>2, SizeSteps
    <3>2. QED
      BY <1>2, <2>2, <3>1, SizeSteps
  <2>4. SizeUpTo(q)[1 + m] + SizeUpTo(r)[1] = SizeUpTo(q)[1] + SizeUpTo(r)[1 + m]
    <3>1. SameBlocks(q, 1, r, 1, m)
      BY <1>1, <1>2, <2>2 DEF SameBlocks
    <3>2. QED
      BY <3>1, SizeOfSameBlocks DEF SameGrowth
  <2>5. SizeUpTo(q)[Len(q)] = SizeUpTo(r)[Len(r)] + k /\ SizeUpTo(r)[Len(r)] \in Nat
    <3>1. SizeUpTo(q)[1 + m] \in Nat /\ SizeUpTo(r)[1 + m] \in Nat
      <4>1. 1 + m \in 0 .. Len(q) /\ 1 + m \in 0 .. Len(r)
        BY <1>1, <2>2
      <4> HIDE DEF m
      <4>2. QED
        BY <1>3, <2>3, <4>1
    <3>2. QED
      BY <1>1, <1>3, <2>2, <2>3, <2>4, <3>1, SMTT(30)
  <2>6. QED
    BY <2>5 DEF r
<1>6. QED
  BY <1>4, <1>5

LEMMA RemainingBlocks ==
    ASSUME NEW N \in Nat, NEW q \in Seq(1 .. N), q # <<>>, NEW k \in Nat, k <= Head(q)
    PROVE  Remaining(q, k) \in Seq(1 .. N)
<1>1. Head(q) = q[1] /\ q[1] \in 1 .. N /\ 1 \in 1 .. Len(q)
  OBVIOUS
<1>2. CASE Head(q) = k
  BY <1>2 DEF Remaining
<1>3. CASE Head(q) # k
  <2>1. q[1] - k \in 1 .. N
    BY <1>1, <1>3
  <2>2. QED
    BY <1>1, <1>3, <2>1 DEF Remaining
<1>4. QED
  BY <1>2, <1>3

(* The loop's invariant is inductive for any number of connections, bytes  *)
(* and clients, whether the kernel packs struct epoll_event or not.        *)
THEOREM LoopInvariant == Spec => []LoopInv
<1> USE DEF LoopInv, Shape, Known, WriteArmed, HandlerEntry, Registered,
            Pending, Handlers, Hooks
<1>1. Init => LoopInv
  BY SizeAssumption DEF Init
<1>2. LoopInv /\ [Next]_vars => LoopInv'
  <2> SUFFICES ASSUME LoopInv, [Next]_vars
               PROVE  LoopInv'
    OBVIOUS
  <2> USE PointerAssumption DEF Goto, worker, conn, net, ghosts, Throw, InHook
  <2>1. CASE LoopHead
    BY <2>1 DEF LoopHead
  <2>2. CASE Wait
    <3>1. cur' \in Registered \cup {Null} \/ (cur' = Wild /\ PackedEvents)
      BY <2>2 DEF Wait, Ready, Delivered
    <3>2. /\ pc' = Dispatch(cur') /\ pc = "wait"
          /\ UNCHANGED <<sent, alloc, sendq, armed, outbuf, stranded>>
      BY <2>2 DEF Wait
    <3>3. CASE cur' = Wild
      BY <3>1, <3>2, <3>3 DEF Dispatch
    <3>4. CASE cur' = Null
      BY <3>1, <3>2, <3>4 DEF Dispatch
    <3>5. CASE cur' \in Registered
      BY <3>1, <3>2, <3>5 DEF Dispatch
    <3>6. QED
      BY <3>1, <3>3, <3>4, <3>5
  <2>3. CASE WaitFails
    BY <2>3 DEF WaitFails
  <2>4. ASSUME NEW c \in Cons, Accept(c)
        PROVE  LoopInv'
    <3>1. /\ pc' = "connect" /\ cur' = Null /\ cur = Null
          /\ alloc = Registered \cup stranded /\ c \notin alloc
          /\ alloc' = alloc \cup {c}
          /\ armed' = [armed EXCEPT ![c] = {"in"}]
          /\ UNCHANGED <<sent, sendq, outbuf, stranded>>
      BY <2>4 DEF Accept
    <3>2. Registered' = Registered \cup {c}
      BY <3>1
    <3>3. ~Pending(c)
      BY <3>1
    <3>4. WriteArmed'
      BY <3>1, <3>3
    <3>5. Shape'
      BY <3>1
    <3>6. Known'
      <4>1. c \notin stranded /\ stranded' = stranded /\ stranded \subseteq alloc
        BY <3>1
      <4>2. Registered' \cap stranded' = {} /\ Registered' \subseteq alloc'
        BY <3>1, <3>2, <4>1
      <4> HIDE DEF Registered
      <4>3. QED
        BY <3>1, <4>1, <4>2
    <3>7. HandlerEntry'
      <4> HIDE DEF Registered
      <4>1. QED
        BY <3>1, <3>2
    <3>8. QED
      BY <3>4, <3>5, <3>6, <3>7
  <2>5. ASSUME NEW c \in Cons, AcceptFails(c) \/ AddFails(c)
        PROVE  LoopInv'
    <3>1. /\ pc = "accept" /\ cur = Null /\ pc' \in {"close", "dead"}
          /\ alloc' = alloc \cup {c}
          /\ UNCHANGED <<cur, sent, sendq, armed, outbuf, stranded>>
      BY <2>5 DEF AcceptFails, AddFails
    <3>2. QED
      BY <3>1
  <2>6. CASE Recv
    BY <2>6 DEF Recv
  <2>7. CASE RecvFails
    BY <2>7 DEF RecvFails
  <2>8. CASE Send
    <3> DEFINE room == SndBuf - outbuf[cur]
    <3>1. /\ pc = "send" /\ pc' = "resize"
          /\ cur \in Registered /\ cur \in Cons
          /\ UNCHANGED <<cur, sendq, alloc, armed, stranded>>
      BY <2>8 DEF Send
    <3>2. /\ Head(sendq[cur]) \in Nat
          /\ room \in Nat
      BY <3>1, SizeAssumption
    <3>3. PICK k \in 1 .. Least(Head(sendq[cur]), room) :
              sent' = k /\ outbuf' = [outbuf EXCEPT ![cur] = outbuf[cur] + k]
      BY <2>8 DEF Send
    <3>4. k \in Nat /\ k <= Head(sendq[cur]) /\ k <= room
      BY <3>2, <3>3 DEF Least
    <3>5. outbuf' \in [Cons -> 0 .. SndBuf]
      BY <3>1, <3>3, <3>4, SizeAssumption
    <3>6. QED
      BY <3>1, <3>3, <3>4, <3>5
  <2>9. CASE SendFails
    BY <2>9 DEF SendFails
  <2>10. CASE SendKills
    BY <2>10 DEF SendKills
  <2>11. CASE Resize
    <3>1. /\ pc = "resize" /\ pc' = "response" /\ sent' = 0
          /\ cur \in Cons /\ cur \in Registered /\ cur # Null /\ cur \notin stranded
          /\ sendq' = [sendq EXCEPT ![cur] = Remaining(sendq[cur], sent)]
          /\ armed' = [armed EXCEPT ![cur] = EventsAfterSend(cur, sendq'[cur])]
          /\ UNCHANGED <<cur, alloc, outbuf, stranded>>
      BY <2>11 DEF Resize
    <3>2. sendq' \in [Cons -> Seq(Nat \ {0})]
      BY <3>1, RemainingFacts
    <3>3. armed'[cur] \in {{"in"}, armed[cur]} /\ "out" \in armed[cur]
      BY <3>1 DEF EventsAfterSend
    <3>4. sendq'[cur] # <<>> => armed'[cur] = armed[cur]
      BY <3>1 DEF EventsAfterSend
    <3>5. Shape' /\ Registered' = Registered
      BY <3>1, <3>2, <3>3
    <3>6. WriteArmed'
      BY <3>1, <3>3, <3>4
    <3>7. QED
      BY <3>1, <3>5, <3>6
  <2>12. CASE CloseCon
    <3>1. /\ pc = "close" /\ pc' = "disconnect"
          /\ cur \in Registered /\ cur \in Cons /\ cur \notin stranded
          /\ alloc = Registered \cup stranded
          /\ armed' = [armed EXCEPT ![cur] = {}]
          /\ UNCHANGED <<cur, sent, alloc, sendq, outbuf, stranded>>
      BY <2>12 DEF CloseCon, Forget
    <3>2. Registered' = Registered \ {cur}
      BY <3>1
    <3>3. WriteArmed'
      BY <3>1
    <3>4. Shape'
      BY <3>1
    <3>5. QED
      BY <3>1, <3>2, <3>3, <3>4
  <2>13. CASE CloseListener
    BY <2>13 DEF CloseListener
  <2>14. ASSUME NEW c \in Cons, AppClean(c)
         PROVE  LoopInv'
    <3>1. /\ pc \in Hooks
          /\ sendq' = [sendq EXCEPT ![c] = <<>>]
          /\ armed' = armed \/ (c \in Registered /\ armed' = [armed EXCEPT ![c] = {"in"}])
          /\ UNCHANGED <<pc, cur, sent, alloc, outbuf, stranded>>
      BY <2>14 DEF AppClean, SendReady
    <3>2. /\ \A d \in Cons \ {c} : armed'[d] = armed[d]
          /\ armed' \in [Cons -> SUBSET {"in", "out"}]
          /\ \A d \in Cons : armed'[d] = {} <=> armed[d] = {}
      <4>1. CASE armed' = armed
        BY <4>1
      <4>2. CASE c \in Registered /\ armed' = [armed EXCEPT ![c] = {"in"}]
        BY <4>2
      <4>3. QED
        BY <3>1, <4>1, <4>2
    <3>3. Registered' = Registered
      BY <3>1, <3>2
    <3>4. sendq' \in [Cons -> Seq(Nat \ {0})]
      BY <3>1
    <3>5. WriteArmed'
      BY <3>1, <3>2
    <3>6. QED
      BY <3>1, <3>2, <3>3, <3>4, <3>5
  <2>15. ASSUME NEW c \in Cons, NEW n \in 1 .. MaxOut, AppSend(c, n)
         PROVE  LoopInv'
    <3>1. /\ pc \in Hooks /\ c \in alloc
          /\ sendq' = [sendq EXCEPT ![c] = Append(sendq[c], n)]
          /\ UNCHANGED <<pc, cur, sent, alloc, outbuf, stranded>>
      BY <2>15 DEF AppSend
    <3>2. \/ c \in Registered /\ armed' = [armed EXCEPT ![c] = {"in", "out"}]
          \/ c \notin Registered /\ armed' = armed
      BY <2>15 DEF AppSend, SendReady
    <3>3. /\ \A d \in Cons \ {c} : armed'[d] = armed[d]
          /\ armed' \in [Cons -> SUBSET {"in", "out"}]
          /\ \A d \in Cons : armed'[d] = {} <=> armed[d] = {}
          /\ c \in Registered => "out" \in armed'[c]
      <4>1. CASE c \in Registered /\ armed' = [armed EXCEPT ![c] = {"in", "out"}]
        BY <4>1
      <4>2. CASE c \notin Registered /\ armed' = armed
        BY <4>2
      <4>3. QED
        BY <3>2, <4>1, <4>2
    <3>4. Registered' = Registered
      BY <3>3
    <3>5. n \in Nat \ {0}
      BY SizeAssumption
    <3>6. Append(sendq[c], n) \in Seq(Nat \ {0})
      BY <3>5
    <3>7. sendq' \in [Cons -> Seq(Nat \ {0})]
      BY <3>1, <3>6
    <3>8. c \in Registered \/ c \in stranded \/ (pc = "disconnect" /\ c = cur)
      BY <3>1
    <3>9. \A d \in Cons \ {c} : sendq'[d] = sendq[d]
      BY <3>1
    <3>10. WriteArmed'
      BY <3>1, <3>3, <3>8, <3>9
    <3>11. QED
      BY <3>1, <3>3, <3>4, <3>7, <3>10
  <2>16. CASE HookReturn
    BY <2>16 DEF HookReturn
  <2>17. CASE HookThrow
    BY <2>17 DEF HookThrow
  <2>18. CASE Clients \/ Stop
    <3>1. UNCHANGED <<pc, cur, sent, alloc, sendq, armed, stranded>>
      BY <2>18 DEF Clients, Stop, ClientConnect, PeerSend, PeerRead, PeerShut, PeerReset
    <3>2. \/ UNCHANGED outbuf
          \/ \E d \in Cons : outbuf' = [outbuf EXCEPT ![d] = 0]
          \/ \E d \in Cons : outbuf[d] > 0 /\ outbuf' = [outbuf EXCEPT ![d] = @ - 1]
      BY <2>18 DEF Clients, Stop, ClientConnect, PeerSend, PeerRead, PeerShut, PeerReset
    <3>3. outbuf' \in [Cons -> 0 .. SndBuf]
      <4>1. outbuf \in [Cons -> 0 .. SndBuf] /\ SndBuf \in Nat
        BY SizeAssumption
      <4>2. CASE UNCHANGED outbuf
        BY <4>1, <4>2
      <4>3. ASSUME NEW d \in Cons, outbuf' = [outbuf EXCEPT ![d] = 0]
            PROVE  outbuf' \in [Cons -> 0 .. SndBuf]
        BY <4>1, <4>3
      <4>4. ASSUME NEW d \in Cons, outbuf[d] > 0,
                   outbuf' = [outbuf EXCEPT ![d] = outbuf[d] - 1]
            PROVE  outbuf' \in [Cons -> 0 .. SndBuf]
        <5>1. outbuf[d] - 1 \in 0 .. SndBuf
          BY <4>1, <4>4
        <5>2. QED
          BY <4>1, <4>4, <5>1
      <4>5. QED
        BY <3>2, <4>2, <4>3, <4>4
    <3>4. QED
      BY <3>1, <3>3
  <2>19. CASE UNCHANGED vars
    BY <2>19 DEF vars
  <2>20. CASE CloseFails
    BY <2>20 DEF CloseFails, Closed
  <2>21. CASE Delete
    <3>1. /\ pc = "disconnect" /\ pc' \in {"head", "dead"} /\ cur' = Null
          /\ cur \in Cons /\ cur \in alloc \ (Registered \cup stranded)
          /\ alloc = Registered \cup stranded \cup {cur}
          /\ alloc' = alloc \ {cur}
          /\ sendq' = [sendq EXCEPT ![cur] = <<>>]
          /\ outbuf' = [outbuf EXCEPT ![cur] = 0]
          /\ UNCHANGED <<sent, armed, stranded>>
      BY <2>21 DEF Delete, DeleteCon, Closed
    <3>2. outbuf' \in [Cons -> 0 .. SndBuf]
      BY <3>1, SizeAssumption
    <3>3. WriteArmed'
      BY <3>1
    <3>4. QED
      BY <3>1, <3>2, <3>3
  <2>22. CASE DisconnectThrows
    BY <2>22 DEF DisconnectThrows, Closed
  <2>23. QED
    BY <2>1, <2>2, <2>3, <2>4, <2>5, <2>6, <2>7, <2>8, <2>9, <2>10, <2>11, <2>12,
       <2>13, <2>14, <2>15, <2>16, <2>17, <2>18, <2>19, <2>20, <2>21, <2>22
       DEF Next, Worker, Failures, Application
<1>3. QED
  BY <1>1, <1>2, PTL DEF Spec

LEMMA SizeOfEmpty ==
    ASSUME NEW q, q = <<>>
    PROVE  SizeUpTo(q)[Len(q)] = 0
<1>1. q \in Seq(Nat) /\ Len(q) = 0
  OBVIOUS
<1>2. SizeUpTo(q)[0] = 0
  BY <1>1, SizeSteps
<1>3. QED
  BY <1>1, <1>2

(* What a send queue holds: a number of bytes, none if it is empty. *)
LEMMA SizeTypes ==
    ASSUME LoopInv
    PROVE  /\ sendq \in [Cons -> Seq(Nat)]
           /\ \A c \in Cons : SendSize(c) \in Nat
           /\ \A c \in Cons : sendq[c] = <<>> => SendSize(c) = 0
<1>1. sendq \in [Cons -> Seq(Nat)]
  BY DEF LoopInv, Shape
<1>2. ASSUME NEW c \in Cons
      PROVE  SendSize(c) \in Nat /\ (sendq[c] = <<>> => SendSize(c) = 0)
  <2> DEFINE q == sendq[c]
  <2>1. q \in Seq(Nat) /\ Len(q) \in 0 .. Len(q) /\ (q = <<>> => Len(q) = 0)
    BY <1>1
  <2> HIDE DEF q
  <2>2. SizeUpTo(q) \in [0 .. Len(q) -> Nat] /\ SizeUpTo(q)[0] = 0
    BY <2>1, SizeSteps
  <2>3. SizeUpTo(q)[Len(q)] \in Nat /\ (q = <<>> => SizeUpTo(q)[Len(q)] = 0)
    BY <2>1, <2>2
  <2>4. QED
    BY <2>3 DEF q, SendSize
<1>3. QED
  BY <1>1, <1>2

(* A step that leaves the queues and the counts alone, and with them what  *)
(* is in flight, loses and repeats nothing. *)
LEMMA NothingMoves ==
    ASSUME SentOnce, UNCHANGED <<sendq, queued, handed, cleaned>>,
           \A c \in Cons : InFlight(c)' = InFlight(c)
    PROVE  SentOnce'
  BY DEF SentOnce, SendSize

LEMMA SentOnceStep ==
    ASSUME LoopInv, CountInv, [Next]_vars
    PROVE  SentOnce'
<1> USE DEF CountInv, TypeOK, Goto, worker, conn, net, ghosts, Throw, InHook, Hooks, InFlight
<1>1. SentOnce /\ sent \in Nat /\ SndBuf \in Nat /\ MaxOut \in Nat
  BY SizeAssumption
<1>2. ASSUME UNCHANGED <<sendq, queued, handed, cleaned>>,
             (pc # "resize" /\ pc' # "resize") \/ UNCHANGED <<pc, cur, sent>>
      PROVE  SentOnce'
  <2>1. \A c \in Cons : InFlight(c)' = InFlight(c)
    BY <1>2
  <2>2. QED
    BY <1>1, <1>2, <2>1, NothingMoves
<1>3. CASE \/ LoopHead \/ WaitFails \/ Recv \/ RecvFails \/ SendFails \/ SendKills
           \/ CloseListener \/ CloseCon \/ CloseFails \/ DisconnectThrows
           \/ HookReturn \/ HookThrow \/ Clients \/ Stop \/ UNCHANGED vars
  BY <1>2, <1>3 DEF LoopHead, WaitFails, Recv, RecvFails, SendFails, SendKills,
                    CloseListener, CloseCon, CloseFails, DisconnectThrows, Closed, HookReturn, HookThrow, Clients, Stop, vars,
                    ClientConnect, PeerSend, PeerRead, PeerShut, PeerReset
<1>4. CASE Wait
  BY <1>2, <1>4 DEF Wait, Dispatch
<1>5. ASSUME NEW c \in Cons, Accept(c) \/ AcceptFails(c) \/ AddFails(c)
      PROVE  SentOnce'
  BY <1>2, <1>5 DEF Accept, AcceptFails, AddFails
<1>6. CASE Send
  <2>1. /\ pc = "send" /\ cur \in Cons /\ pc' = "resize"
        /\ UNCHANGED <<cur, sendq, queued, cleaned>>
    BY <1>6 DEF Send, LoopInv, Known, Registered
  <2>2. PICK k \in 1 .. Least(Head(sendq[cur]), SndBuf - outbuf[cur]) :
            sent' = k /\ handed' = [handed EXCEPT ![cur] = handed[cur] + k]
    BY <1>6 DEF Send
  <2>3. k \in Nat
    BY <2>2
  <2>4. ASSUME NEW c \in Cons
        PROVE  queued'[c] + InFlight(c)' = handed'[c] + SendSize(c)' + cleaned'[c]
    <3>1. queued[c] + 0 = handed[c] + SendSize(c) + cleaned[c]
      BY <1>1, <2>1 DEF SentOnce
    <3>2. SendSize(c)' = SendSize(c) /\ SendSize(c) \in Nat
      BY <2>1, SizeTypes DEF SendSize
    <3>3. queued[c] \in Nat /\ handed[c] \in Nat /\ cleaned[c] \in Nat
      BY <1>1
    <3>4. CASE c = cur
      BY <2>1, <2>2, <2>3, <3>1, <3>2, <3>3, <3>4
    <3>5. CASE c # cur
      BY <2>1, <2>2, <3>1, <3>2, <3>3, <3>5
    <3>6. QED
      BY <3>4, <3>5
  <2>5. QED
    BY <2>4 DEF SentOnce
<1>7. CASE Resize
  <2> DEFINE q == sendq[cur]
             r == Remaining(q, sent)
  <2>1. /\ pc = "resize" /\ pc' = "response" /\ cur \in Cons
        /\ sendq' = [sendq EXCEPT ![cur] = r]
        /\ UNCHANGED <<cur, queued, handed, cleaned>>
    BY <1>7 DEF Resize, LoopInv, Known, Registered
  <2>2. q \in Seq(Nat \ {0}) /\ q # <<>> /\ sent <= Head(q)
    BY <2>1 DEF LoopInv, HandlerEntry, Shape, Pending
  <2> HIDE DEF q, r
  <2>3. SizeUpTo(q)[Len(q)] = SizeUpTo(r)[Len(r)] + sent
    BY <1>1, <2>2, SizeOfRemaining DEF r
  <2>4. SendSize(cur) = SizeUpTo(q)[Len(q)]
    BY DEF SendSize, q
  <2>5. \A d \in Cons :
           SendSize(d)' = IF d = cur THEN SizeUpTo(r)[Len(r)] ELSE SendSize(d)
    <3>1. \A d \in Cons : sendq'[d] = IF d = cur THEN r ELSE sendq[d]
      BY <2>1, SizeTypes
    <3>2. QED
      BY <3>1 DEF SendSize
  <2>6. SizeUpTo(r)[Len(r)] \in Nat
    <3>1. r \in Seq(Nat)
      BY <1>1, <2>2, RemainingFacts DEF r
    <3>2. SizeUpTo(r) \in [0 .. Len(r) -> Nat] /\ Len(r) \in 0 .. Len(r)
      BY <3>1, SizeSteps
    <3>3. QED
      BY <3>2
  <2>7. ASSUME NEW c \in Cons
        PROVE  queued'[c] + InFlight(c)' = handed'[c] + SendSize(c)' + cleaned'[c]
    <3>1. queued[c] + InFlight(c) = handed[c] + SendSize(c) + cleaned[c]
      BY <1>1, <2>1 DEF SentOnce
    <3>2. queued[c] \in Nat /\ handed[c] \in Nat /\ cleaned[c] \in Nat /\ SendSize(c) \in Nat
      BY <1>1, SizeTypes
    <3>3. InFlight(c)' = 0
      BY <2>1
    <3>4. CASE c = cur
      <4>1. InFlight(c) = sent
        BY <2>1, <3>4
      <4>2. SendSize(c) = SendSize(c)' + sent /\ SendSize(c)' \in Nat
        <5>1. SendSize(c)' = SizeUpTo(r)[Len(r)]
          BY <2>5, <3>4
        <5>2. SendSize(c) = SizeUpTo(q)[Len(q)]
          BY <2>4, <3>4
        <5>3. QED
          BY <2>3, <2>6, <5>1, <5>2
      <4>3. queued'[c] = queued[c] /\ handed'[c] = handed[c] /\ cleaned'[c] = cleaned[c]
        BY <2>1
      <4> HIDE DEF TypeOK, CountInv, InFlight
      <4>4. QED
        BY <1>1, <3>1, <3>2, <3>3, <4>1, <4>2, <4>3
    <3>5. CASE c # cur
      <4>1. InFlight(c) = 0
        BY <2>1, <3>5
      <4>2. SendSize(c)' = SendSize(c)
        BY <2>5, <3>5
      <4>3. QED
        BY <2>1, <3>1, <3>2, <3>3, <4>1, <4>2
    <3>6. QED
      BY <3>4, <3>5
  <2>8. QED
    BY <2>7 DEF SentOnce
<1>8. CASE Delete
  <2>1. /\ pc = "disconnect" /\ pc' \in {"head", "dead"} /\ cur \in Cons
        /\ sendq' = [sendq EXCEPT ![cur] = <<>>]
        /\ queued' = [queued EXCEPT ![cur] = 0] /\ cleaned' = [cleaned EXCEPT ![cur] = 0]
        /\ handed' = [handed EXCEPT ![cur] = 0]
    BY <1>8 DEF Delete, DeleteCon, Closed, LoopInv, Shape, Known
  <2>2. \A d \in Cons : SendSize(d)' = IF d = cur THEN 0 ELSE SendSize(d)
    <3>1. \A d \in Cons : sendq'[d] = IF d = cur THEN <<>> ELSE sendq[d]
      BY <2>1, SizeTypes
    <3>2. QED
      BY <3>1, SizeOfEmpty DEF SendSize
  <2>3. ASSUME NEW c \in Cons
        PROVE  queued'[c] + InFlight(c)' = handed'[c] + SendSize(c)' + cleaned'[c]
    <3>1. queued[c] + InFlight(c) = handed[c] + SendSize(c) + cleaned[c]
      BY <1>1, <2>1 DEF SentOnce
    <3>2. InFlight(c)' = 0 /\ InFlight(c) = 0
      BY <2>1
    <3>3. CASE c = cur
      <4>1. queued'[c] = 0 /\ handed'[c] = 0 /\ cleaned'[c] = 0
        BY <2>1, <3>3
      <4>2. SendSize(c)' = 0
        BY <2>2, <3>3
      <4>3. QED
        BY <3>2, <4>1, <4>2
    <3>4. CASE c # cur
      BY <1>1, <2>1, <2>2, <3>1, <3>2, <3>4
    <3>5. QED
      BY <3>3, <3>4
  <2>4. QED
    BY <2>3 DEF SentOnce
<1>9. ASSUME NEW c \in Cons, AppClean(c)
      PROVE  SentOnce'
  <2>1. /\ pc \in Hooks /\ UNCHANGED <<pc, cur, sent, queued, handed>>
        /\ sendq' = [sendq EXCEPT ![c] = <<>>]
        /\ cleaned' = [cleaned EXCEPT ![c] = cleaned[c] + SendSize(c)]
    BY <1>9 DEF AppClean
  <2>2. SendSize(c)' = 0 /\ \A d \in Cons \ {c} : SendSize(d)' = SendSize(d)
    <3>1. /\ sendq'[c] = <<>>
          /\ \A d \in Cons \ {c} : sendq'[d] = sendq[d]
      BY <2>1, SizeTypes
    <3>2. QED
      BY <3>1, SizeOfEmpty DEF SendSize
  <2>3. ASSUME NEW d \in Cons
        PROVE  queued'[d] + InFlight(d)' = handed'[d] + SendSize(d)' + cleaned'[d]
    <3>1. queued[d] + InFlight(d) = handed[d] + SendSize(d) + cleaned[d]
      BY <1>1 DEF SentOnce
    <3>2. InFlight(d)' = 0 /\ InFlight(d) = 0
      BY <2>1
    <3>3. handed[d] \in Nat /\ cleaned[d] \in Nat /\ SendSize(d) \in Nat
      BY <1>1, SizeTypes
    <3>4. queued'[d] = queued[d] /\ handed'[d] = handed[d]
      BY <2>1
    <3>5. CASE d = c
      <4>1. cleaned'[d] = cleaned[d] + SendSize(d) /\ SendSize(d)' = 0
        BY <2>1, <2>2, <3>5
      <4> HIDE DEF TypeOK, CountInv, InFlight
      <4>2. QED
        BY <3>1, <3>2, <3>3, <3>4, <4>1
    <3>6. CASE d # c
      <4>1. cleaned'[d] = cleaned[d] /\ SendSize(d)' = SendSize(d)
        BY <2>1, <2>2, <3>6
      <4>2. QED
        BY <3>1, <3>2, <3>4, <4>1
    <3>7. QED
      BY <3>5, <3>6
  <2>4. QED
    BY <2>3 DEF SentOnce
<1>10. ASSUME NEW c \in Cons, NEW n \in 1 .. MaxOut, AppSend(c, n)
       PROVE  SentOnce'
  <2> DEFINE q == sendq[c]
  <2>1. /\ pc \in Hooks /\ UNCHANGED <<pc, cur, sent, cleaned, handed>>
        /\ sendq' = [sendq EXCEPT ![c] = Append(q, n)]
        /\ queued' = [queued EXCEPT ![c] = queued[c] + n]
    BY <1>10 DEF AppSend
  <2>2. q \in Seq(Nat) /\ n \in Nat
    BY <1>1, SizeTypes
  <2> HIDE DEF q
  <2>3. SendSize(c)' = SendSize(c) + n /\ \A d \in Cons \ {c} : SendSize(d)' = SendSize(d)
    <3>1. /\ sendq'[c] = Append(q, n)
          /\ \A d \in Cons \ {c} : sendq'[d] = sendq[d]
      BY <2>1, SizeTypes
    <3>2. SizeUpTo(Append(q, n))[Len(Append(q, n))] = SizeUpTo(q)[Len(q)] + n
      BY <2>2, SizeOfAppend
    <3>3. QED
      BY <3>1, <3>2 DEF SendSize, q
  <2>4. ASSUME NEW d \in Cons
        PROVE  queued'[d] + InFlight(d)' = handed'[d] + SendSize(d)' + cleaned'[d]
    <3>1. queued[d] + InFlight(d) = handed[d] + SendSize(d) + cleaned[d]
      BY <1>1 DEF SentOnce
    <3>2. InFlight(d)' = 0 /\ InFlight(d) = 0
      BY <2>1
    <3>3. queued[d] \in Nat /\ handed[d] \in Nat /\ cleaned[d] \in Nat /\ SendSize(d) \in Nat
      BY <1>1, SizeTypes
    <3>4. handed'[d] = handed[d] /\ cleaned'[d] = cleaned[d]
      BY <2>1
    <3>5. CASE d = c
      <4>1. queued'[d] = queued[d] + n /\ SendSize(d)' = SendSize(d) + n
        BY <2>1, <2>3, <3>5
      <4> HIDE DEF TypeOK, CountInv, InFlight
      <4>2. QED
        BY <2>2, <3>1, <3>2, <3>3, <3>4, <4>1
    <3>6. CASE d # c
      <4>1. queued'[d] = queued[d] /\ SendSize(d)' = SendSize(d)
        BY <2>1, <2>3, <3>6
      <4>2. QED
        BY <3>1, <3>2, <3>4, <4>1
    <3>7. QED
      BY <3>5, <3>6
  <2>5. QED
    BY <2>4 DEF SentOnce
<1>11. QED
  BY <1>3, <1>4, <1>5, <1>6, <1>7, <1>8, <1>9, <1>10
     DEF Next, Worker, Failures, Application

(* The counts stay in their bounds: no more bytes are handed over or       *)
(* cleaned than were queued. *)
LEMMA TypeStep ==
    ASSUME LoopInv, CountInv, [Next]_vars
    PROVE  TypeOK' /\ Accounts'
<1> USE DEF TypeOK, Accounts, Goto, worker, conn, net, ghosts, Throw, InHook,
            Handlers, Hooks
<1>1. /\ TypeOK /\ Accounts /\ SentOnce
      /\ SndBuf \in Nat \ {0} /\ BlockSize \in Nat \ {0}
      /\ MaxClients \in Nat /\ MaxIn \in Nat /\ MaxOut \in Nat
  BY SizeAssumption DEF CountInv
<1>2. CASE LoopHead \/ WaitFails \/ RecvFails \/ SendFails \/ SendKills \/ CloseListener
           \/ CloseFails \/ HookReturn \/ HookThrow \/ Stop \/ UNCHANGED vars
  BY <1>1, <1>2 DEF LoopHead, WaitFails, RecvFails, SendFails, SendKills,
                    CloseListener, CloseFails, Closed, HookReturn, HookThrow, Stop, vars
<1>3. CASE Wait
  <2>1. cur' \in Cons \cup {Null, Wild}
    BY <1>3 DEF Wait, Ready, Registered, Delivered
  <2>2. pc' \in {"accept", "dead", "send", "recv"}
    BY <1>3 DEF Wait, Dispatch
  <2>3. UNCHANGED <<run, sent, conn, net, ghosts>>
    BY <1>3 DEF Wait
  <2>4. QED
    BY <1>1, <2>1, <2>2, <2>3
<1>4. ASSUME NEW c \in Cons, Accept(c) \/ AcceptFails(c) \/ AddFails(c)
      PROVE  TypeOK' /\ Accounts'
  <2>1. CASE AcceptFails(c)
    BY <1>1, <2>1 DEF AcceptFails
  <2>2. CASE Accept(c) \/ AddFails(c)
    <3>1. /\ backlog > 0 /\ backlog' = backlog - 1
          /\ alloc' = alloc \cup {c} /\ pc' \in {"connect", "close", "dead"}
          /\ named' = [named EXCEPT ![c] = TRUE]
          /\ peer' = [peer EXCEPT ![c] = "open"]
          /\ armed' = armed \/ armed' = [armed EXCEPT ![c] = {"in"}]
          /\ UNCHANGED <<run, cur, sent, sendq, arrived, inbuf, outbuf, ghosts>>
      BY <2>2 DEF Accept, AddFails
    <3>2. backlog' \in 0 .. MaxClients /\ backlog' <= arrived
      BY <1>1, <3>1
    <3>3. armed' \in [Cons -> {{}, {"in"}, {"in", "out"}}]
      BY <1>1, <3>1
    <3>4. named' \in [Cons -> BOOLEAN] /\ peer' \in [Cons -> {"none", "open", "eof", "reset"}]
      BY <1>1, <3>1
    <3>5. QED
      BY <1>1, <3>1, <3>2, <3>3, <3>4
  <2>3. QED
    BY <1>4, <2>1, <2>2
<1>5. CASE Recv
  <2>1. cur \in Cons
    BY <1>5 DEF Recv, LoopInv, Known, Registered
  <2> DEFINE left == inbuf[cur] - Least(inbuf[cur], BlockSize)
  <2>2. left \in Nat /\ left <= inbuf[cur]
    BY <1>1, <2>1 DEF Least
  <2>3. /\ inbuf' = [inbuf EXCEPT ![cur] = left]
        /\ named' = [named EXCEPT ![cur] = FALSE] /\ pc' = "request"
        /\ UNCHANGED <<run, cur, sent, alloc, sendq, arrived, backlog, armed, outbuf,
                       peer, ghosts>>
    BY <1>5 DEF Recv
  <2> HIDE DEF left
  <2>4. inbuf' \in [Cons -> 0 .. MaxIn] /\ \A c \in Cons : inbuf'[c] <= heard[c]
    BY <1>1, <2>1, <2>2, <2>3
  <2>5. QED
    BY <1>1, <2>3, <2>4
<1>6. CASE Send
  <2>1. /\ pc = "send" /\ cur \in Cons /\ pc' = "resize"
        /\ UNCHANGED <<run, cur, conn, arrived, backlog, armed, inbuf, peer, heard, queued,
                       cleaned, stranded>>
    BY <1>6 DEF Send, LoopInv, Known, Registered
  <2> DEFINE q == sendq[cur]
             room == SndBuf - outbuf[cur]
  <2>2. q \in Seq(Nat \ {0}) /\ q # <<>> /\ Head(q) \in Nat
    BY <2>1 DEF LoopInv, HandlerEntry, Shape, Pending
  <2>3. PICK k \in 1 .. Least(Head(q), room) :
            /\ sent' = k
            /\ outbuf' = [outbuf EXCEPT ![cur] = outbuf[cur] + k]
            /\ handed' = [handed EXCEPT ![cur] = handed[cur] + k]
    BY <1>6 DEF Send
  <2>4. room \in Nat /\ room <= SndBuf
    BY <1>1, <2>1, SMTT(30)
  <2>5. k \in Nat /\ k <= Head(q) /\ k <= room
    BY <2>2, <2>3, <2>4 DEF Least
  <2>6. k <= SendSize(cur) /\ SendSize(cur) \in Nat
    <3> HIDE DEF q
    <3>1. k <= SizeUpTo(q)[Len(q)]
      BY <2>2, <2>5, SizeOfRemaining
    <3>2. QED
      BY <2>1, <3>1, SizeTypes DEF q, SendSize
  <2>7. queued[cur] = handed[cur] + SendSize(cur) + cleaned[cur]
    BY <1>1, <2>1 DEF SentOnce, InFlight
  <2> HIDE DEF q, room
  <2>8. handed[cur] + k \in 0 .. MaxOut
    <3>1. handed[cur] \in Nat /\ cleaned[cur] \in Nat /\ queued[cur] \in 0 .. MaxOut
      BY <1>1, <2>1
    <3> HIDE DEF TypeOK
    <3>2. QED
      BY <1>1, <2>5, <2>6, <2>7, <3>1
  <2>9. handed' \in [Cons -> 0 .. MaxOut]
    BY <1>1, <2>3, <2>8
  <2>10. outbuf[cur] + k \in 0 .. SndBuf
    <3>1. outbuf[cur] \in 0 .. SndBuf
      BY <1>1, <2>1
    <3> HIDE DEF TypeOK
    <3>2. QED
      BY <1>1, <2>5, <3>1 DEF room
  <2>11. outbuf' \in [Cons -> 0 .. SndBuf]
    BY <1>1, <2>3, <2>10
  <2>12. sent' \in 0 .. SndBuf
    BY <1>1, <2>3, <2>4, <2>5
  <2>13. QED
    BY <1>1, <2>1, <2>9, <2>11, <2>12
<1>7. CASE Resize
  <2> DEFINE q == sendq[cur]
             r == Remaining(q, sent)
  <2>1. /\ pc = "resize" /\ pc' = "response" /\ cur \in Cons /\ sent' = 0
        /\ sendq' = [sendq EXCEPT ![cur] = r]
        /\ armed' = [armed EXCEPT ![cur] = EventsAfterSend(cur, sendq'[cur])]
        /\ UNCHANGED <<run, cur, alloc, named, arrived, backlog, inbuf, outbuf, peer, ghosts>>
    BY <1>7 DEF Resize, LoopInv, Known, Registered
  <2>2. q \in Seq(1 .. MaxOut) /\ q # <<>> /\ sent <= Head(q) /\ sent \in Nat
    BY <1>1, <2>1 DEF LoopInv, HandlerEntry, Pending
  <2> HIDE DEF q
  <2>3. r \in Seq(1 .. MaxOut)
    BY <1>1, <2>2, RemainingBlocks
  <2> HIDE DEF r
  <2>4. sendq' \in [Cons -> Seq(1 .. MaxOut)]
    BY <1>1, <2>1, <2>3
  <2>5. armed' \in [Cons -> {{}, {"in"}, {"in", "out"}}]
    BY <1>1, <2>1 DEF EventsAfterSend
  <2>6. pc' = "response" /\ sent' \in 0 .. SndBuf
    BY <1>1, <2>1
  <2>7. UNCHANGED <<run, cur, alloc, named, arrived, backlog, inbuf, outbuf, peer, ghosts>>
    BY <2>1
  <2>8. QED
    BY <1>1, <2>4, <2>5, <2>6, <2>7
<1>8. CASE Delete
  <2>1. cur \in Cons /\ pc' \in {"head", "dead"} /\ cur' = Null
    BY <1>8 DEF Delete, Closed, LoopInv, Shape, Known
  <2>2. /\ alloc' = alloc \ {cur}
        /\ sendq' = [sendq EXCEPT ![cur] = <<>>]
        /\ UNCHANGED <<run, sent, arrived, backlog, armed, stranded>>
    BY <1>8 DEF Delete, DeleteCon
  <2>3. /\ named' = [named EXCEPT ![cur] = FALSE]
        /\ inbuf' = [inbuf EXCEPT ![cur] = 0] /\ outbuf' = [outbuf EXCEPT ![cur] = 0]
        /\ peer' = [peer EXCEPT ![cur] = "none"]
        /\ heard' = [heard EXCEPT ![cur] = 0] /\ queued' = [queued EXCEPT ![cur] = 0]
        /\ cleaned' = [cleaned EXCEPT ![cur] = 0] /\ handed' = [handed EXCEPT ![cur] = 0]
    BY <1>8 DEF Delete, DeleteCon
  <2>4. alloc' \subseteq Cons
    BY <1>1, <2>1, <2>2
  <2>5. sendq' \in [Cons -> Seq(1 .. MaxOut)]
    BY <1>1, <2>1, <2>2
  <2>6. armed' \in [Cons -> {{}, {"in"}, {"in", "out"}}] /\ stranded' \subseteq Cons
    BY <1>1, <2>2
  <2>7. named' \in [Cons -> BOOLEAN]
    BY <1>1, <2>1, <2>3
  <2>8. peer' \in [Cons -> {"none", "open", "eof", "reset"}]
    BY <1>1, <2>1, <2>3
  <2>9. outbuf' \in [Cons -> 0 .. SndBuf]
    BY <1>1, <2>1, <2>3
  <2>10. inbuf' \in [Cons -> 0 .. MaxIn]
    BY <1>1, <2>1, <2>3
  <2>11. heard' \in [Cons -> 0 .. MaxIn]
    BY <1>1, <2>1, <2>3
  <2>12. \A c \in Cons : inbuf'[c] <= heard'[c]
    BY <1>1, <2>1, <2>3
  <2>13. queued' \in [Cons -> 0 .. MaxOut]
    BY <1>1, <2>1, <2>3
  <2>14. cleaned' \in [Cons -> 0 .. MaxOut]
    BY <1>1, <2>1, <2>3
  <2>15. handed' \in [Cons -> 0 .. MaxOut]
    BY <1>1, <2>1, <2>3
  <2>16. UNCHANGED <<run, sent, arrived, backlog>>
    BY <2>2
  <2>17. QED
    BY <1>1, <2>1, <2>4, <2>5, <2>6, <2>7, <2>8, <2>9, <2>10, <2>11, <2>12, <2>13, <2>14, <2>15, <2>16
<1>9. ASSUME NEW c \in Cons, AppClean(c)
      PROVE  TypeOK' /\ Accounts'
  <2>1. /\ pc \in Hooks
        /\ sendq' = [sendq EXCEPT ![c] = <<>>]
        /\ cleaned' = [cleaned EXCEPT ![c] = cleaned[c] + SendSize(c)]
        /\ armed' \in {armed, [armed EXCEPT ![c] = {"in"}]}
        /\ UNCHANGED <<worker, alloc, named, arrived, backlog, inbuf, outbuf, peer,
                       heard, queued, handed, stranded>>
    BY <1>9 DEF AppClean, SendReady
  <2>2. queued[c] = handed[c] + SendSize(c) + cleaned[c]
    BY <1>1, <2>1, SMTT(30) DEF SentOnce, InFlight
  <2>3. cleaned[c] + SendSize(c) \in 0 .. MaxOut
    <3>1. /\ handed[c] \in Nat /\ cleaned[c] \in Nat /\ queued[c] \in 0 .. MaxOut
          /\ SendSize(c) \in Nat
      BY <1>1, SizeTypes
    <3> HIDE DEF TypeOK
    <3>2. QED
      BY <1>1, <2>2, <3>1
  <2>4. cleaned' \in [Cons -> 0 .. MaxOut]
    BY <1>1, <2>1, <2>3
  <2>5. armed' \in [Cons -> {{}, {"in"}, {"in", "out"}}]
    BY <1>1, <2>1
  <2>6. sendq' \in [Cons -> Seq(1 .. MaxOut)]
    BY <1>1, <2>1
  <2>7. QED
    BY <1>1, <2>1, <2>4, <2>5, <2>6
<1>10. ASSUME NEW c \in Cons, NEW n \in 1 .. MaxOut, AppSend(c, n)
       PROVE  TypeOK' /\ Accounts'
  <2>1. /\ queued[c] + n <= MaxOut
        /\ sendq' = [sendq EXCEPT ![c] = Append(sendq[c], n)]
        /\ queued' = [queued EXCEPT ![c] = queued[c] + n]
        /\ armed' = armed \/ armed' = [armed EXCEPT ![c] = {"in", "out"}]
        /\ UNCHANGED <<worker, alloc, named, arrived, backlog, inbuf, outbuf, peer,
                       heard, cleaned, handed, stranded>>
    BY <1>10 DEF AppSend, SendReady
  <2>2. queued[c] \in Nat
    BY <1>1
  <2>3. queued[c] + n \in 0 .. MaxOut
    <3> HIDE DEF TypeOK, Accounts
    <3>1. QED
      BY <1>1, <2>1, <2>2
  <2>4. queued' \in [Cons -> 0 .. MaxOut]
    BY <1>1, <2>1, <2>3
  <2>5. sendq' \in [Cons -> Seq(1 .. MaxOut)]
    BY <1>1, <2>1
  <2>6. armed' \in [Cons -> {{}, {"in"}, {"in", "out"}}]
    BY <1>1, <2>1
  <2>7. QED
    BY <1>1, <2>1, <2>4, <2>5, <2>6
<1>11. CASE ClientConnect
  <2>1. /\ arrived < MaxClients /\ arrived' = arrived + 1 /\ backlog' = backlog + 1
        /\ UNCHANGED <<worker, conn, armed, inbuf, outbuf, peer, ghosts>>
    BY <1>11 DEF ClientConnect
  <2>2. arrived' \in 0 .. MaxClients /\ backlog' \in 0 .. MaxClients /\ backlog' <= arrived'
    BY <1>1, <2>1
  <2>3. QED
    BY <1>1, <2>1, <2>2
<1>12. ASSUME NEW c \in Cons, PeerSend(c)
       PROVE  TypeOK' /\ Accounts'
  <2>1. /\ heard[c] < MaxIn
        /\ heard' = [heard EXCEPT ![c] = heard[c] + 1]
        /\ inbuf' = [inbuf EXCEPT ![c] = inbuf[c] + 1]
        /\ UNCHANGED <<worker, conn, arrived, backlog, armed, outbuf, peer,
                       queued, cleaned, handed, stranded>>
    BY <1>12 DEF PeerSend
  <2>2. heard[c] + 1 \in 0 .. MaxIn /\ inbuf[c] + 1 \in 0 .. MaxIn /\ inbuf[c] + 1 <= heard[c] + 1
    <3>1. heard[c] \in Nat /\ inbuf[c] \in Nat /\ inbuf[c] <= heard[c]
      BY <1>1
    <3> HIDE DEF TypeOK, Accounts
    <3>2. QED
      BY <1>1, <2>1, <3>1
  <2>3. /\ heard' \in [Cons -> 0 .. MaxIn] /\ inbuf' \in [Cons -> 0 .. MaxIn]
        /\ \A d \in Cons : inbuf'[d] <= heard'[d]
    BY <1>1, <2>1, <2>2
  <2>4. QED
    BY <1>1, <2>1, <2>3
<1>13. ASSUME NEW c \in Cons, PeerRead(c) \/ PeerShut(c) \/ PeerReset(c)
       PROVE  TypeOK' /\ Accounts'
  <2>1. CASE PeerRead(c)
    <3>1. /\ outbuf[c] > 0 /\ outbuf' = [outbuf EXCEPT ![c] = outbuf[c] - 1]
          /\ UNCHANGED <<worker, conn, arrived, backlog, armed, inbuf, peer, ghosts>>
      BY <2>1 DEF PeerRead
    <3>2. outbuf[c] \in 0 .. SndBuf
      BY <1>1
    <3>3. outbuf[c] - 1 \in 0 .. SndBuf
      BY <1>1, <3>1, <3>2, SMTT(30)
    <3>4. outbuf' \in [Cons -> 0 .. SndBuf]
      BY <1>1, <3>1, <3>3
    <3>5. QED
      BY <1>1, <3>1, <3>4
  <2>2. CASE PeerShut(c)
    BY <1>1, <2>2 DEF PeerShut
  <2>3. CASE PeerReset(c)
    <3>1. /\ peer' = [peer EXCEPT ![c] = "reset"]
          /\ inbuf' = [inbuf EXCEPT ![c] = 0] /\ outbuf' = [outbuf EXCEPT ![c] = 0]
          /\ UNCHANGED <<worker, conn, arrived, backlog, armed, ghosts>>
      BY <2>3 DEF PeerReset
    <3>2. inbuf' \in [Cons -> 0 .. MaxIn] /\ \A d \in Cons : inbuf'[d] <= heard[d]
      BY <1>1, <3>1, SMTT(30)
    <3>3. outbuf' \in [Cons -> 0 .. SndBuf]
      BY <1>1, <3>1
    <3>4. QED
      BY <1>1, <3>1, <3>2, <3>3
  <2>4. QED
    BY <1>13, <2>1, <2>2, <2>3
<1>14. CASE CloseCon
  <2>1. cur \in Cons /\ pc' = "disconnect" /\ armed' = [armed EXCEPT ![cur] = {}]
    BY <1>14 DEF CloseCon, Forget, LoopInv, Known, Registered
  <2>2. UNCHANGED <<run, cur, sent, conn, arrived, backlog, inbuf, outbuf, peer, ghosts>>
    BY <1>14 DEF CloseCon
  <2>3. armed' \in [Cons -> {{}, {"in"}, {"in", "out"}}]
    BY <1>1, <2>1
  <2>4. QED
    BY <1>1, <2>1, <2>2, <2>3
<1>15. CASE DisconnectThrows
  <2>1. cur \in Cons
    BY <1>15 DEF DisconnectThrows, LoopInv, Shape, Known
  <2>2. QED
    BY <1>1, <1>15, <2>1 DEF DisconnectThrows, Closed
<1>16. QED
  BY <1>2, <1>3, <1>4, <1>5, <1>6, <1>7, <1>8, <1>9, <1>10, <1>11, <1>12, <1>13, <1>14, <1>15
     DEF Next, Worker, Failures, Application, Clients

(* The counts of bytes are kept over a whole connection, for any number of *)
(* connections and bytes and any kernel. *)
THEOREM CountInvariant == Spec => []CountInv
<1>1. Init => CountInv
  <2> SUFFICES ASSUME Init PROVE CountInv
    OBVIOUS
  <2>1. TypeOK /\ Accounts
    BY SizeAssumption DEF Init, TypeOK, Accounts, Handlers, Hooks
  <2>2. \A c \in Cons : SendSize(c) = 0
    BY SizeOfEmpty DEF Init, SendSize
  <2>3. SentOnce
    BY <2>2 DEF Init, SentOnce, InFlight
  <2>4. QED
    BY <2>1, <2>3 DEF CountInv
<1>2. LoopInv /\ CountInv /\ [Next]_vars => CountInv'
  BY SentOnceStep, TypeStep DEF CountInv
<1>3. QED
  BY <1>1, <1>2, LoopInvariant, PTL DEF Spec

(* Every variable of the loop, the kernel and the peers keeps its type; no *)
(* count exceeds what was sent or queued. *)
COROLLARY TypeCorrect == Spec => []TypeOK
<1>1. CountInv => TypeOK
  BY DEF CountInv
<1>2. QED
  BY <1>1, CountInvariant, PTL

(* The numbers of bytes add up at all times: what was queued is with the   *)
(* kernel, still queued or taken back by cleanSendData, as                 *)
(* WriteEventHandler takes out of the queue what sendto reported, whatever *)
(* part of a block that is and whatever the hooks queue in between.        *)
COROLLARY AlwaysSentOnce == Spec => []SentOnce
<1>1. CountInv => SentOnce
  BY DEF CountInv
<1>2. QED
  BY <1>1, CountInvariant, PTL

(* An event never brings back a pointer to a deleted con, a handler works  *)
(* on a registered one, and no con is left that nothing could close but    *)
(* those whose DisconnectEvent threw. *)
COROLLARY AlwaysRegisteredLive ==
    ASSUME ~PackedEvents
    PROVE  Spec => []RegisteredLive
<1>1. LoopInv => RegisteredLive
  BY DEF LoopInv, Known, HandlerEntry, RegisteredLive
<1>2. QED
  BY <1>1, LoopInvariant, PTL

(* A con with unsent data waits for EPOLLOUT at all times, until it is     *)
(* taken out of epoll to be closed. *)
COROLLARY AlwaysWriteArmed == Spec => []WriteArmed
<1>1. LoopInv => WriteArmed
  BY DEF LoopInv
<1>2. QED
  BY <1>1, LoopInvariant, PTL
=============================================================================
