---------------------------- MODULE MutexProofs ----------------------------
(* Proofs about Mutex, for any set of threads and any set of mutexes.      *)
EXTENDS Mutex, TLAPS

(* Every variable keeps its type: the word and the three shared statics    *)
(* only ever hold 0 or 1, whatever the threads that race on them do.       *)
THEOREM TypeCorrect == Spec => []TypeOK
<1> USE DEF TypeOK, Labels
<1>1. Init => TypeOK
  BY DEF Init
<1>2. TypeOK /\ [Next]_vars => TypeOK'
  <2> SUFFICES ASSUME TypeOK, [Next]_vars
               PROVE  TypeOK'
    OBVIOUS
  <2> USE DEF statics
  <2>1. ASSUME NEW m \in Mutexes, Construct(m)
        PROVE  TypeOK'
    BY <2>1 DEF Construct
  <2>2. ASSUME NEW m \in Mutexes, Destroy(m)
        PROVE  TypeOK'
    BY <2>2 DEF Destroy
  <2>3. ASSUME NEW t \in Threads, NEW m \in Mutexes, LockLoad(t, m)
        PROVE  TypeOK'
    BY <2>3 DEF LockLoad, Enter, Goto
  <2>4. ASSUME NEW t \in Threads, NEW m \in Mutexes, TryLoad(t, m)
        PROVE  TypeOK'
    BY <2>4 DEF TryLoad, Enter, Goto
  <2>5. ASSUME NEW t \in Threads, NEW m \in Mutexes, UnlockEnter(t, m)
        PROVE  TypeOK'
    BY <2>5 DEF UnlockEnter, Goto
  <2>6. ASSUME NEW t \in Threads, LockCas(t)
        PROVE  TypeOK'
    BY <2>6 DEF LockCas, Goto
  <2>7. ASSUME NEW t \in Threads, LockStore(t)
        PROVE  TypeOK'
    BY <2>7 DEF LockStore, Goto, Acquire
  <2>8. ASSUME NEW t \in Threads, LockWaitAgain(t)
        PROVE  TypeOK'
    BY <2>8 DEF LockWaitAgain, Goto, Acquire
  <2>9. ASSUME NEW t \in Threads, LockSleep(t)
        PROVE  TypeOK'
    BY <2>9 DEF LockSleep, SleepAnyway, Goto
  <2>10. ASSUME NEW t \in Threads, TryCas(t)
         PROVE  TypeOK'
    BY <2>10 DEF TryCas, Goto
  <2>11. ASSUME NEW t \in Threads, TryStore(t)
         PROVE  TypeOK'
    BY <2>11 DEF TryStore, Goto, Acquire
  <2>12. ASSUME NEW t \in Threads, NEW m \in Mutexes, NEW l \in Labels,
                NEW W \in SUBSET Threads, WakeOne(t, m, l, W)
         PROVE  /\ waiters' \in [Mutexes -> Seq(Threads)]
                /\ pc' \in [Threads -> Labels]
                /\ held' \in [Threads -> SUBSET Mutexes]
    BY <2>12 DEF WakeOne
  <2>13. ASSUME NEW t \in Threads
         PROVE  Woken(on[t]) \in SUBSET Threads
    BY <2>13 DEF Woken
  <2>14. ASSUME NEW t \in Threads, TryWake(t)
         PROVE  TypeOK'
    BY <2>12, <2>13, <2>14 DEF TryWake
  <2>15. ASSUME NEW t \in Threads, UnlockWake(t)
         PROVE  TypeOK'
    BY <2>12, <2>13, <2>15 DEF UnlockWake
  <2>16. ASSUME NEW t \in Threads, UnlockLoad(t)
         PROVE  TypeOK'
    BY <2>16 DEF UnlockLoad, Goto
  <2>17. ASSUME NEW t \in Threads, UnlockCas(t)
         PROVE  TypeOK'
    BY <2>17 DEF UnlockCas, Released, Goto
  <2>18. ASSUME NEW t \in Threads, UnlockStore(t)
         PROVE  TypeOK'
    BY <2>18 DEF UnlockStore, Goto
  <2>19. CASE UNCHANGED vars
    BY <2>19 DEF vars
  <2>20. QED
    BY <2>1, <2>2, <2>3, <2>4, <2>5, <2>6, <2>7, <2>8, <2>9, <2>10, <2>11,
       <2>14, <2>15, <2>16, <2>17, <2>18, <2>19 DEF Next, Call, InCall
<1>3. QED
  BY <1>1, <1>2, PTL DEF Spec

-----------------------------------------------------------------------------
(* The calls never put every thread to sleep.  NotAllAsleep alone is not   *)
(* inductive: the last thread awake may be about to wait on a word that is *)
(* 0.  AwakeWitness is: every step leaves its own thread as the witness,   *)
(* except going to sleep, which the witness's word of 1 forbids to it.     *)
THEOREM NeverAllAsleep == Spec => []NotAllAsleep
<1>1. Init => AwakeWitness
  BY ThreadsAssumption DEF Init, AwakeWitness
<1>2. TypeOK /\ TypeOK' /\ AwakeWitness /\ [Next]_vars => AwakeWitness'
  <2> SUFFICES ASSUME TypeOK, TypeOK', AwakeWitness, [Next]_vars
               PROVE  AwakeWitness'
    OBVIOUS
  <2> PICK w \in Threads : /\ pc[w] # "asleep"
                           /\ pc[w] = "l_wait" => word[on[w]] = 1
    BY DEF AwakeWitness
  <2> DEFINE Awake(t) == /\ pc[t] # "asleep"
                         /\ pc[t] = "l_wait" => word[on[t]] = 1
  <2>1. SUFFICES \E t \in Threads : Awake(t)'
    BY DEF AwakeWitness
  <2>2. CASE UNCHANGED vars
    BY <2>2 DEF vars
  <2>3. ASSUME NEW m \in Mutexes, Construct(m)
        PROVE  Awake(w)'
    BY <2>3 DEF Construct, TypeOK
  <2>4. ASSUME NEW m \in Mutexes, Destroy(m)
        PROVE  Awake(w)'
    BY <2>4 DEF Destroy
  <2>5. ASSUME NEW t \in Threads, Call(t)
        PROVE  Awake(t)'
    BY <2>5 DEF Call, LockLoad, TryLoad, UnlockEnter, Goto, TypeOK
  <2>6. ASSUME NEW t \in Threads, LockCas(t)
        PROVE  Awake(t)'
    BY <2>6 DEF LockCas, Goto, TypeOK
  <2>7. ASSUME NEW t \in Threads,
               LockStore(t) \/ LockWaitAgain(t) \/ TryStore(t) \/ UnlockStore(t)
        PROVE  Awake(t)'
    BY <2>7 DEF LockStore, LockWaitAgain, TryStore, UnlockStore, Goto, TypeOK
  <2>8. ASSUME NEW t \in Threads, LockSleep(t)
        PROVE  Awake(w)'
    BY <2>8 DEF LockSleep, SleepAnyway, Goto, TypeOK
  <2>9. ASSUME NEW t \in Threads, TryCas(t) \/ UnlockLoad(t) \/ UnlockCas(t)
        PROVE  Awake(t)'
    BY <2>9 DEF TryCas, UnlockLoad, UnlockCas, Released, Goto, TypeOK
  <2>10. ASSUME NEW t \in Threads, TryWake(t) \/ UnlockWake(t)
         PROVE  Awake(t)'
    BY <2>10 DEF TryWake, UnlockWake, WakeOne, TypeOK
  <2>11. QED
    BY <2>2, <2>3, <2>4, <2>5, <2>6, <2>7, <2>8, <2>9, <2>10 DEF Next, InCall
<1>3. AwakeWitness => NotAllAsleep
  BY DEF AwakeWitness, NotAllAsleep
<1>4. QED
  BY <1>1, <1>2, <1>3, TypeCorrect, PTL DEF Spec

(* The only thread of a process never blocks in lock(): the case in which  *)
(* sys::mutex is safe to use, since the library starts one worker.         *)
COROLLARY SoleUserNeverBlocks ==
    ASSUME NEW t0, Threads = {t0}
    PROVE  Spec => [](pc[t0] # "asleep")
<1>1. NotAllAsleep => pc[t0] # "asleep"
  BY DEF NotAllAsleep
<1>2. QED
  BY <1>1, NeverAllAsleep, PTL

-----------------------------------------------------------------------------
(* What a wake-up does to the FIFO of the word it is called on.            *)
LEMMA WakeOneQueue ==
    ASSUME NEW q \in Seq(Threads), q # <<>>,
           \A i, j \in DOMAIN q : q[i] = q[j] => i = j
    PROVE  /\ \A i, j \in DOMAIN Tail(q) : Tail(q)[i] = Tail(q)[j] => i = j
           /\ \A t : (\E i \in DOMAIN Tail(q) : Tail(q)[i] = t)
                     <=> (\E i \in DOMAIN q : q[i] = t) /\ t # Head(q)
<1>1. /\ Len(q) \in Nat \ {0}
      /\ DOMAIN q = 1 .. Len(q)
      /\ Tail(q) \in Seq(Threads)
      /\ Len(Tail(q)) = Len(q) - 1
      /\ DOMAIN Tail(q) = 1 .. (Len(q) - 1)
      /\ \A i \in 1 .. (Len(q) - 1) : Tail(q)[i] = q[i + 1]
      /\ Head(q) = q[1]
  OBVIOUS
<1>2. \A i, j \in DOMAIN Tail(q) : Tail(q)[i] = Tail(q)[j] => i = j
  <2> SUFFICES ASSUME NEW i \in DOMAIN Tail(q), NEW j \in DOMAIN Tail(q),
                      Tail(q)[i] = Tail(q)[j]
               PROVE  i = j
    OBVIOUS
  <2>1. q[i + 1] = q[j + 1] /\ i + 1 \in DOMAIN q /\ j + 1 \in DOMAIN q
    BY <1>1
  <2>2. i + 1 = j + 1
    BY <2>1
  <2>3. QED
    BY <1>1, <2>2
<1>3. ASSUME NEW t, NEW i \in DOMAIN Tail(q), Tail(q)[i] = t
      PROVE  (\E k \in DOMAIN q : q[k] = t) /\ t # Head(q)
  <2>1. i + 1 \in DOMAIN q /\ q[i + 1] = t /\ 1 \in DOMAIN q /\ i + 1 # 1
    BY <1>1, <1>3
  <2>2. QED
    BY <1>1, <2>1
<1>4. ASSUME NEW t, NEW k \in DOMAIN q, q[k] = t, t # Head(q)
      PROVE  \E i \in DOMAIN Tail(q) : Tail(q)[i] = t
  <2>1. k - 1 \in DOMAIN Tail(q) /\ Tail(q)[k - 1] = t
    BY <1>1, <1>4
  <2>2. QED
    BY <2>1
<1>5. QED
  BY <1>2, <1>3, <1>4

(* What appending a thread that is not in the FIFO does to it.             *)
LEMMA AppendQueue ==
    ASSUME NEW q \in Seq(Threads), NEW s \in Threads,
           \A i, j \in DOMAIN q : q[i] = q[j] => i = j,
           \A i \in DOMAIN q : q[i] # s
    PROVE  /\ \A i, j \in DOMAIN Append(q, s) :
                 Append(q, s)[i] = Append(q, s)[j] => i = j
           /\ \A t : (\E i \in DOMAIN Append(q, s) : Append(q, s)[i] = t)
                     <=> (\E i \in DOMAIN q : q[i] = t) \/ t = s
<1>1. /\ Len(q) \in Nat
      /\ DOMAIN q = 1 .. Len(q)
      /\ DOMAIN Append(q, s) = 1 .. (Len(q) + 1)
      /\ \A i \in 1 .. Len(q) : Append(q, s)[i] = q[i]
      /\ Append(q, s)[Len(q) + 1] = s
  OBVIOUS
<1>2. DOMAIN Append(q, s) = DOMAIN q \cup {Len(q) + 1}
  BY <1>1
<1>3. QED
  BY <1>1, <1>2, Zenon

(* The kernel's FIFO and the threads asleep agree: no wake-up is spent on  *)
(* a thread that is not asleep on the word, and none sleeps unqueued.      *)
THEOREM QueuedExactlyWhenAsleep == Spec => []WaitersAreAsleep
<1> DEFINE InQueue(t, m) == \E i \in DOMAIN waiters[m] : waiters[m][i] = t
           Distinct(m) == \A i, j \in DOMAIN waiters[m] :
                              waiters[m][i] = waiters[m][j] => i = j
<1>1. Init => WaitersAreAsleep
  BY DEF Init, WaitersAreAsleep
<1>2. TypeOK /\ WaitersAreAsleep /\ [Next]_vars => WaitersAreAsleep'
  <2> SUFFICES ASSUME TypeOK, WaitersAreAsleep, [Next]_vars
               PROVE  WaitersAreAsleep'
    OBVIOUS
  <2> USE DEF statics
  <2>1. SUFFICES ASSUME NEW n \in Mutexes
                 PROVE  /\ Distinct(n)'
                        /\ \A s \in Threads : InQueue(s, n)'
                                <=> (pc[s] = "asleep" /\ on[s] = n)'
    BY DEF WaitersAreAsleep
  <2>2. /\ Distinct(n)
        /\ \A s \in Threads : InQueue(s, n) <=> pc[s] = "asleep" /\ on[s] = n
    BY DEF WaitersAreAsleep
  <2>3. ASSUME waiters' = waiters,
               \A s \in Threads : (pc[s] = "asleep" /\ on[s] = n)'
                                    <=> pc[s] = "asleep" /\ on[s] = n
        PROVE  /\ Distinct(n)'
               /\ \A s \in Threads : InQueue(s, n)'
                       <=> (pc[s] = "asleep" /\ on[s] = n)'
    BY <2>2, <2>3
  <2>4. CASE UNCHANGED vars
    BY <2>3, <2>4 DEF vars
  <2>5. ASSUME NEW m \in Mutexes, Construct(m) \/ Destroy(m)
        PROVE  waiters' = waiters /\ pc' = pc /\ on' = on
    BY <2>5 DEF Construct, Destroy
  <2>6. ASSUME NEW t \in Threads, Call(t)
        PROVE  /\ waiters' = waiters
               /\ \A s \in Threads : (pc[s] = "asleep" /\ on[s] = n)'
                                    <=> pc[s] = "asleep" /\ on[s] = n
    BY <2>6 DEF Call, LockLoad, TryLoad, UnlockEnter, Enter, Goto, TypeOK
  <2>7. ASSUME NEW t \in Threads,
               \/ LockCas(t) \/ LockStore(t) \/ LockWaitAgain(t)
               \/ TryCas(t) \/ TryStore(t)
               \/ UnlockLoad(t) \/ UnlockCas(t) \/ UnlockStore(t)
        PROVE  /\ waiters' = waiters
               /\ \A s \in Threads : (pc[s] = "asleep" /\ on[s] = n)'
                                    <=> pc[s] = "asleep" /\ on[s] = n
    BY <2>7 DEF LockCas, LockStore, LockWaitAgain, TryCas, TryStore,
                UnlockLoad, UnlockCas, Released, UnlockStore, Goto, TypeOK
  <2>8. ASSUME NEW t \in Threads, LockSleep(t)
        PROVE  /\ Distinct(n)'
               /\ \A s \in Threads : InQueue(s, n)'
                       <=> (pc[s] = "asleep" /\ on[s] = n)'
    <3>1. /\ pc[t] = "l_wait"
          /\ pc' = [pc EXCEPT ![t] = "asleep"]
          /\ on' = on
          /\ waiters' = [waiters EXCEPT ![on[t]] = Append(@, t)]
          /\ on[t] \in Mutexes
      BY <2>8 DEF LockSleep, SleepAnyway, Goto, TypeOK
    <3>2. /\ pc'[t] = "asleep"
          /\ \A s \in Threads \ {t} : pc'[s] = pc[s]
      BY <3>1 DEF TypeOK
    <3>3. CASE n # on[t]
      <4>1. waiters'[n] = waiters[n]
        BY <3>1, <3>3 DEF TypeOK
      <4>2. QED
        BY <2>2, <3>1, <3>2, <3>3, <4>1
    <3>4. CASE n = on[t]
      <4>1. waiters'[n] = Append(waiters[n], t) /\ waiters[n] \in Seq(Threads)
        BY <3>1, <3>4 DEF TypeOK
      <4>2. \A i \in DOMAIN waiters[n] : waiters[n][i] # t
        BY <2>2, <3>1
      <4>3. /\ Distinct(n)'
            /\ \A s \in Threads : InQueue(s, n)' <=> InQueue(s, n) \/ s = t
        <5> DEFINE q == waiters[n]
        <5>1. /\ q \in Seq(Threads)
              /\ \A i, j \in DOMAIN q : q[i] = q[j] => i = j
              /\ \A i \in DOMAIN q : q[i] # t
          BY <2>2, <4>1, <4>2
        <5> HIDE DEF q
        <5>2. /\ \A i, j \in DOMAIN Append(q, t) :
                    Append(q, t)[i] = Append(q, t)[j] => i = j
              /\ \A s : (\E i \in DOMAIN Append(q, t) : Append(q, t)[i] = s)
                        <=> (\E i \in DOMAIN q : q[i] = s) \/ s = t
          BY <5>1, AppendQueue
        <5> USE DEF q
        <5>3. QED
          BY <4>1, <5>2, Zenon
      <4>4. QED
        <5>1. ASSUME NEW s \in Threads
              PROVE  InQueue(s, n) \/ s = t <=> (pc[s] = "asleep" /\ on[s] = n)'
          <6>1. CASE s = t
            BY <3>1, <3>2, <3>4, <6>1
          <6>2. CASE s # t
            BY <2>2, <3>1, <3>2, <6>2
          <6>3. QED
            BY <6>1, <6>2
        <5>2. QED
          BY <4>3, <5>1
    <3>5. QED
      BY <3>3, <3>4
  <2>9. ASSUME NEW t \in Threads, NEW l \in Labels \ {"asleep"},
               NEW W, WakeOne(t, on[t], l, W), pc[t] # "asleep", on' = on
        PROVE  /\ Distinct(n)'
               /\ \A s \in Threads : InQueue(s, n)'
                       <=> (pc[s] = "asleep" /\ on[s] = n)'
    <3> DEFINE m == on[t]
    <3>1. /\ m \in Mutexes
          /\ waiters[m] \in Seq(Threads)
          /\ waiters[n] \in Seq(Threads)
          /\ waiters' = [waiters EXCEPT ![m] = IF @ = <<>> THEN @ ELSE Tail(@)]
          /\ pc' = [s \in Threads |-> IF s \in Woken(m) THEN "idle"
                                      ELSE IF s = t THEN l ELSE pc[s]]
      BY <2>9 DEF WakeOne, TypeOK
    <3>2. CASE waiters[m] = <<>>
      <4>1. waiters' = waiters /\ Woken(m) = {}
        BY <3>1, <3>2 DEF Woken, TypeOK
      <4>2. \A s \in Threads : pc'[s] = "asleep" <=> pc[s] = "asleep"
        BY <2>9, <3>1, <4>1
      <4>3. QED
        BY <2>3, <2>9, <4>1, <4>2
    <3>3. CASE waiters[m] # <<>>
      <4> DEFINE h == Head(waiters[m])
      <4>1. /\ Woken(m) = {h}
            /\ h \in Threads
            /\ \E i \in DOMAIN waiters[m] : waiters[m][i] = h
        BY <3>1, <3>3 DEF Woken
      <4>2. pc[h] = "asleep" /\ on[h] = m
        BY <3>1, <4>1 DEF WaitersAreAsleep
      <4>3. \A s \in Threads : pc'[s] = "asleep" <=> pc[s] = "asleep" /\ s # h
        BY <2>9, <3>1, <4>1
      <4>4. CASE n # m
        <5>1. waiters'[n] = waiters[n]
          BY <3>1, <4>4 DEF TypeOK
        <5>2. QED
          BY <2>2, <2>9, <4>2, <4>3, <4>4, <5>1
      <4>5. CASE n = m
        <5>1. waiters'[n] = Tail(waiters[n])
          BY <3>1, <3>3, <4>5 DEF TypeOK
        <5> DEFINE q == waiters[n]
        <5>2. q \in Seq(Threads) /\ q # <<>> /\ h = Head(q)
          BY <3>1, <3>3, <4>5
        <5>3. \A i, j \in DOMAIN q : q[i] = q[j] => i = j
          BY <2>2
        <5> HIDE DEF q
        <5>4. /\ \A i, j \in DOMAIN Tail(q) : Tail(q)[i] = Tail(q)[j] => i = j
              /\ \A s : (\E i \in DOMAIN Tail(q) : Tail(q)[i] = s)
                        <=> (\E i \in DOMAIN q : q[i] = s) /\ s # h
          BY <5>2, <5>3, WakeOneQueue
        <5> USE DEF q
        <5>5. /\ Distinct(n)'
              /\ \A s \in Threads : InQueue(s, n)' <=> InQueue(s, n) /\ s # h
          BY <5>1, <5>4, Zenon
        <5>6. QED
          BY <2>2, <2>9, <4>3, <4>5, <5>5
      <4>6. QED
        BY <4>4, <4>5
    <3>4. QED
      BY <3>2, <3>3
  <2>10. ASSUME NEW t \in Threads, TryWake(t) \/ UnlockWake(t)
         PROVE  /\ Distinct(n)'
                /\ \A s \in Threads : InQueue(s, n)'
                        <=> (pc[s] = "asleep" /\ on[s] = n)'
    BY <2>9, <2>10 DEF TryWake, UnlockWake, Labels
  <2>11. QED
    BY <2>3, <2>4, <2>5, <2>6, <2>7, <2>8, <2>10 DEF Next, InCall
<1>3. QED
  BY <1>1, <1>2, TypeCorrect, PTL DEF Spec
=============================================================================
