----------------------------- MODULE Induction -----------------------------
(* Induction over the natural numbers and definition by recursion, in the  *)
(* form the provers can use: about sets and functions instead of operators.*)
EXTENDS Naturals, WellFoundedInduction, TLAPS

(* A set of numbers that is not empty has a least element. *)
LEMMA LeastNumber ==
    ASSUME NEW T \in SUBSET Nat, T # {}
    PROVE  \E k \in T : \A j \in T : k <= j
<1> DEFINE R == OpToRel(<, Nat)
<1>1. IsWellFoundedOn(R, Nat)
  BY NatLessThanWellFounded
<1>2. R = {ss \in Nat \X Nat : ss[1] < ss[2]}
  BY DEF OpToRel
<1> HIDE DEF R
<1>3. \A j, k \in Nat : j < k => <<j, k>> \in R
  BY <1>2
<1>4. PICK k \in T : \A j \in T : ~(<<j, k>> \in R)
  BY <1>1, WFMin
<1>5. \A j \in T : j \in Nat /\ k \in Nat /\ ~(j < k)
  BY <1>3, <1>4
<1>6. QED
  BY <1>5

(* Induction: a set with 0 and with the successor of each of its numbers   *)
(* up to n has the numbers up to n. *)
LEMMA InductionUpTo ==
    ASSUME NEW S, NEW n \in Nat, 0 \in S, \A i \in 1 .. n : i - 1 \in S => i \in S
    PROVE  0 .. n \subseteq S
<1> DEFINE T == {i \in 0 .. n : i \notin S}
<1> SUFFICES ASSUME T # {} PROVE FALSE
  OBVIOUS
<1> T \in SUBSET Nat
  OBVIOUS
<1>1. \E k \in T : \A j \in T : k <= j
  <2> HIDE DEF T
  <2>1. QED
    BY LeastNumber
<1> PICK k \in T : \A j \in T : k <= j
  BY <1>1
<1>2. k \in 1 .. n /\ k - 1 \in 0 .. n /\ ~(k <= k - 1)
  OBVIOUS
<1>3. QED
  BY <1>2

(* Recursion: h takes the value before i to the one at i, and f starts     *)
(* with v and goes on by h. *)
StepsOf(V, v, n, h) == n \in Nat /\ v \in V /\ h \in [1 .. n -> [V -> V]]

Follows(f, V, v, n, h) ==
    /\ f \in [0 .. n -> V]
    /\ f[0] = v
    /\ \A i \in 1 .. n : f[i] = h[i][f[i - 1]]

(* There is a function that follows any such steps. *)
LEMMA RecursiveFunction ==
    ASSUME NEW V, NEW v, NEW n, NEW h, StepsOf(V, v, n, h)
    PROVE  \E f : Follows(f, V, v, n, h)
<1> DEFINE S == {m \in 0 .. n : \E f : Follows(f, V, v, m, h)}
<1> USE DEF StepsOf
<1>1. 0 \in S
  <2> DEFINE e == [i \in 0 .. 0 |-> v]
  <2>1. Follows(e, V, v, 0, h)
    BY DEF Follows
  <2>2. QED
    BY <2>1
<1>2. ASSUME NEW m \in 1 .. n, m - 1 \in S
      PROVE  m \in S
  <2>1. PICK f : Follows(f, V, v, m - 1, h)
    BY <1>2
  <2> DEFINE g == [i \in 0 .. m |-> IF i = m THEN h[m][f[m - 1]] ELSE f[i]]
  <2>2. /\ f \in [0 .. m - 1 -> V] /\ f[0] = v
        /\ \A i \in 1 .. m - 1 : f[i] = h[i][f[i - 1]]
    BY <2>1 DEF Follows
  <2>3. f[m - 1] \in V /\ h[m] \in [V -> V]
    BY <2>2
  <2>4. g \in [0 .. m -> V] /\ g[0] = v
    BY <2>2, <2>3
  <2>5. ASSUME NEW i \in 1 .. m
        PROVE  g[i] = h[i][g[i - 1]]
    <3>1. g[i - 1] = f[i - 1]
      OBVIOUS
    <3>2. CASE i = m
      <4>1. g[m] = h[m][f[m - 1]]
        OBVIOUS
      <4>2. g[m - 1] = f[m - 1]
        BY <3>1, <3>2
      <4> HIDE DEF g
      <4>3. QED
        BY <3>2, <4>1, <4>2
    <3>3. CASE i # m
      <4>1. i \in 1 .. m - 1 /\ g[i] = f[i]
        BY <3>3
      <4>2. QED
        BY <2>2, <3>1, <4>1
    <3>4. QED
      BY <3>2, <3>3
  <2>6. Follows(g, V, v, m, h)
    <3> HIDE DEF g
    <3>1. QED
      BY <2>4, <2>5 DEF Follows
  <2>7. m \in 0 .. n
    OBVIOUS
  <2>8. QED
    BY <2>6, <2>7
<1>3. n \in Nat /\ n \in 0 .. n
  OBVIOUS
<1> HIDE DEF S
<1>4. 0 .. n \subseteq S
  BY <1>1, <1>2, <1>3, InductionUpTo
<1>5. QED
  BY <1>3, <1>4 DEF S
(* The function that follows the same steps for ever. *)
FollowsOn(f, V, v, h) ==
    /\ f \in [Nat -> V]
    /\ f[0] = v
    /\ \A i \in Nat \ {0} : f[i] = h[i][f[i - 1]]

LEMMA FollowersAgree ==
    ASSUME NEW V, NEW v, NEW n \in Nat, NEW m \in Nat, NEW h, NEW f, NEW g,
           Follows(f, V, v, n, h), Follows(g, V, v, m, h), n <= m
    PROVE  f[n] = g[n]
<1> DEFINE S == {i \in 0 .. n : f[i] = g[i]}
<1>1. 0 \in S
  BY DEF Follows
<1>2. ASSUME NEW i \in 1 .. n, i - 1 \in S
      PROVE  i \in S
  <2>1. f[i] = h[i][f[i - 1]] /\ i \in 1 .. m
    BY DEF Follows
  <2>2. g[i] = h[i][g[i - 1]]
    BY <2>1 DEF Follows
  <2>3. QED
    BY <1>2, <2>1, <2>2
<1> HIDE DEF S
<1>3. 0 .. n \subseteq S
  BY <1>1, <1>2, InductionUpTo
<1>4. n \in 0 .. n
  OBVIOUS
<1>5. QED
  BY <1>3, <1>4 DEF S

LEMMA RecursionOnNat ==
    ASSUME NEW V, NEW v \in V, NEW h \in [Nat \ {0} -> [V -> V]]
    PROVE  \E f : FollowsOn(f, V, v, h)
<1> DEFINE upTo(n) == [i \in 1 .. n |-> h[i]]
           G(n) == CHOOSE f : Follows(f, V, v, n, h)
           F == [n \in Nat |-> G(n)[n]]
<1>1. ASSUME NEW n \in Nat
      PROVE  Follows(G(n), V, v, n, h)
  <2>1. upTo(n) \in [1 .. n -> [V -> V]]
    OBVIOUS
  <2>2. StepsOf(V, v, n, upTo(n))
    BY <2>1 DEF StepsOf
  <2>3. PICK f : Follows(f, V, v, n, upTo(n))
    BY <2>2, RecursiveFunction
  <2>4. Follows(f, V, v, n, h)
    BY <2>3 DEF Follows
  <2>5. QED
    BY <2>4
<1>2. \A n \in Nat : F[n] = G(n)[n]
  OBVIOUS
<1> HIDE DEF G
<1>3. F \in [Nat -> V]
  BY <1>1 DEF Follows
<1>4. F[0] = v
  BY <1>1, <1>2 DEF Follows
<1> HIDE DEF F
<1>5. ASSUME NEW i \in Nat \ {0}
      PROVE  F[i] = h[i][F[i - 1]]
  <2>1. i - 1 \in Nat /\ i \in 1 .. i /\ i - 1 <= i
    OBVIOUS
  <2>2. G(i - 1)[i - 1] = G(i)[i - 1]
    BY <1>1, <2>1, FollowersAgree
  <2>3. G(i)[i] = h[i][G(i)[i - 1]]
    BY <1>1, <2>1 DEF Follows
  <2>4. QED
    BY <1>2, <2>1, <2>2, <2>3
<1>6. FollowsOn(F, V, v, h)
  BY <1>3, <1>4, <1>5 DEF FollowsOn
<1>7. QED
  BY <1>6

(* Recursion to any lower number: d says from which value h goes on. *)
Descends(d) == d \in [Nat \ {0} -> Nat] /\ \A i \in Nat \ {0} : d[i] < i

FollowsDown(f, V, v, h, d) ==
    f \in [Nat -> V] /\ f[0] = v /\ \A i \in Nat \ {0} : f[i] = h[i][f[d[i]]]

LEMMA RecursionToLess ==
    ASSUME NEW V, NEW v \in V, NEW h \in [Nat \ {0} -> [V -> V]], NEW d, Descends(d)
    PROVE  \E f : FollowsDown(f, V, v, h, d)
<1> USE DEF Descends
<1> DEFINE W == [Nat -> V]
           u == [n \in Nat |-> v]
           H == [i \in Nat \ {0} |-> [g \in W |-> [n \in Nat |-> IF n = i THEN h[i][g[d[i]]] ELSE g[n]]]]
<1>1. u \in W
  OBVIOUS
<1>2. H \in [Nat \ {0} -> [W -> W]]
  <2>1. ASSUME NEW i \in Nat \ {0}, NEW g \in W
        PROVE  [n \in Nat |-> IF n = i THEN h[i][g[d[i]]] ELSE g[n]] \in W
    <3>1. h[i][g[d[i]]] \in V
      OBVIOUS
    <3>2. QED
      BY <3>1
  <2> HIDE DEF W
  <2>2. QED
    BY <2>1
<1>3. ASSUME NEW i \in Nat \ {0}, NEW g \in W, NEW n \in Nat
      PROVE  H[i][g][n] = IF n = i THEN h[i][g[d[i]]] ELSE g[n]
  <2> HIDE DEF W
  <2>1. H[i][g] = [m \in Nat |-> IF m = i THEN h[i][g[d[i]]] ELSE g[m]]
    BY Zenon
  <2>2. QED
    BY <2>1, Zenon
<1> HIDE DEF H, W
<1>4. PICK F : FollowsOn(F, W, u, H)
  BY <1>1, <1>2, RecursionOnNat
<1>5. /\ F \in [Nat -> W] /\ F[0] = u
      /\ \A i \in Nat \ {0} : F[i] = H[i][F[i - 1]]
  BY <1>4 DEF FollowsOn
<1>6. ASSUME NEW i \in Nat \ {0}, NEW n \in Nat
      PROVE  F[i][n] = IF n = i THEN h[i][F[i - 1][d[i]]] ELSE F[i - 1][n]
  <2>1. i - 1 \in Nat /\ F[i - 1] \in W /\ F[i] = H[i][F[i - 1]]
    BY <1>5
  <2>2. QED
    BY <1>3, <2>1
<1> DEFINE f == [n \in Nat |-> F[n][n]]
<1>7. ASSUME NEW n \in Nat, NEW m \in Nat, n <= m
      PROVE  F[m][n] = f[n]
  <2> DEFINE S == {k \in 0 .. m - n : F[n + k][n] = F[n][n]}
  <2>1. 0 \in S
    <3>1. 0 \in 0 .. m - n /\ n + 0 = n
      BY <1>7
    <3>2. QED
      BY <3>1
  <2>2. ASSUME NEW k \in 1 .. m - n, k - 1 \in S PROVE k \in S
    <3>1. n + k \in Nat \ {0} /\ (n + k) - 1 = n + (k - 1) /\ n # n + k /\ k \in 0 .. m - n
      OBVIOUS
    <3>2. F[n + k][n] = F[(n + k) - 1][n]
      BY <1>6, <3>1
    <3>3. QED
      BY <2>2, <3>1, <3>2
  <2>3. m - n \in Nat /\ m - n \in 0 .. m - n /\ n + (m - n) = m
    BY <1>7
  <2> HIDE DEF S
  <2>4. 0 .. m - n \subseteq S
    BY <2>1, <2>2, <2>3, InductionUpTo
  <2>5. F[n + (m - n)][n] = F[n][n]
    BY <2>3, <2>4 DEF S
  <2>6. QED
    BY <2>3, <2>5
<1>8. f \in [Nat -> V] /\ f[0] = v
  BY <1>1, <1>5 DEF W
<1>9. ASSUME NEW i \in Nat \ {0} PROVE f[i] = h[i][f[d[i]]]
  <2>1. i - 1 \in Nat /\ d[i] \in Nat /\ d[i] <= i - 1
    OBVIOUS
  <2>2. F[i - 1][d[i]] = f[d[i]]
    BY <1>7, <2>1
  <2>3. F[i][i] = h[i][F[i - 1][d[i]]]
    BY <1>6
  <2>4. QED
    BY <2>2, <2>3
<1> HIDE DEF f
<1>10. FollowsDown(f, V, v, h, d)
  BY <1>8, <1>9 DEF FollowsDown
<1>11. QED
  BY <1>10

(* A loop: next leads from state to state until Stop holds, and m says how *)
(* often at most. *)
LoopOf(S, Stop, next, result, m) ==
    /\ Stop \in [S -> BOOLEAN] /\ m \in [S -> Nat] /\ DOMAIN result = S
    /\ \A s \in S : ~Stop[s] => next[s] \in S /\ m[next[s]] < m[s]

Loops(f, S, Stop, next, result) ==
    f = [s \in S |-> IF Stop[s] THEN result[s] ELSE f[next[s]]]

LEMMA LoopEnds ==
    ASSUME NEW S, NEW Stop, NEW next, NEW result, NEW m, LoopOf(S, Stop, next, result, m)
    PROVE  \E f : Loops(f, S, Stop, next, result)
<1> DEFINE R == {result[s] : s \in S}
           V == [S -> R]
           some == [s \in S |-> result[s]]
           onward(g) == [s \in S |-> IF Stop[s] THEN result[s]
                                      ELSE IF next[s] \in S THEN g[next[s]] ELSE result[s]]
           h == [i \in Nat \ {0} |-> [g \in V |-> onward(g)]]
<1>1. some \in V
  OBVIOUS
<1>2. ASSUME NEW g \in V PROVE onward(g) \in V
  <2>1. ASSUME NEW s \in S
        PROVE  (IF Stop[s] THEN result[s] ELSE IF next[s] \in S THEN g[next[s]] ELSE result[s]) \in R
    OBVIOUS
  <2> HIDE DEF R
  <2>2. QED
    BY <2>1
<1> HIDE DEF V
<1>3. h \in [Nat \ {0} -> [V -> V]]
  <2> HIDE DEF onward
  <2>1. QED
    BY <1>2
<1>4. PICK F : FollowsOn(F, V, some, h)
  <2> HIDE DEF h, some
  <2>1. QED
    BY <1>1, <1>3, RecursionOnNat
<1>5. F \in [Nat -> V] /\ \A i \in Nat \ {0} : F[i] = h[i][F[i - 1]]
  BY <1>4 DEF FollowsOn
<1>6. ASSUME NEW i \in Nat \ {0}
      PROVE  F[i] = onward(F[i - 1])
  <2>1. i - 1 \in Nat /\ F[i - 1] \in V
    BY <1>5
  <2> HIDE DEF onward
  <2>2. h[i][F[i - 1]] = onward(F[i - 1])
    BY <2>1
  <2>3. QED
    BY <1>5, <2>2
<1>7. /\ m \in [S -> Nat]
      /\ \A s \in S : ~Stop[s] => next[s] \in S /\ m[next[s]] < m[s]
  BY DEF LoopOf
<1>8. ASSUME NEW s \in S, NEW i \in Nat \ {0}
      PROVE  F[i][s] = IF Stop[s] THEN result[s] ELSE F[i - 1][next[s]]
  <2> DEFINE g == F[i - 1]
  <2>1. F[i] = onward(g)
    BY <1>6
  <2> HIDE DEF g, h
  <2>2. onward(g)[s] = IF Stop[s] THEN result[s] ELSE IF next[s] \in S THEN g[next[s]] ELSE result[s]
    OBVIOUS
  <2> HIDE DEF onward
  <2>3. QED
    BY <1>7, <2>1, <2>2 DEF g
<1>9. ASSUME NEW s \in S, Stop[s], NEW i \in Nat PROVE F[i][s] = result[s]
  <2>1. CASE i = 0
    BY <1>4, <2>1 DEF FollowsOn
  <2>2. CASE i # 0
    BY <1>8, <1>9, <2>2
  <2>3. QED
    BY <2>1, <2>2
<1> HIDE DEF h, onward, some
<1> DEFINE G == {k \in Nat : \A s \in S : m[s] <= k =>
                     \A j \in Nat : j >= m[s] => F[j][s] = F[m[s]][s]}
<1>10. ASSUME NEW s \in S, Stop[s], NEW j \in Nat PROVE F[j][s] = F[m[s]][s]
  BY <1>7, <1>9, <1>10
<1>11. ASSUME NEW N \in Nat PROVE N \in G
  <2>1. 0 \in G
    <3>1. ASSUME NEW s \in S, m[s] <= 0 PROVE Stop[s]
      <4> SUFFICES ASSUME ~Stop[s] PROVE FALSE
        OBVIOUS
      <4>1. m[next[s]] < m[s] /\ next[s] \in S
        BY <1>7
      <4>2. m[next[s]] \in Nat /\ m[s] \in Nat
        BY <1>7, <4>1
      <4>3. QED
        BY <3>1, <4>1, <4>2
    <3>2. QED
      BY <1>10, <3>1
  <2>2. ASSUME NEW k \in 1 .. N, k - 1 \in G PROVE k \in G
    <3> SUFFICES ASSUME NEW s \in S, m[s] <= k, NEW j \in Nat, j >= m[s]
                 PROVE  F[j][s] = F[m[s]][s]
      OBVIOUS
    <3>1. CASE Stop[s]
      BY <1>10, <3>1
    <3>2. CASE ~Stop[s]
      <4> DEFINE t == next[s]
      <4>1. t \in S /\ m[t] < m[s] /\ m[t] \in Nat /\ m[s] \in Nat
        BY <1>7, <3>2
      <4> HIDE DEF t
      <4> DEFINE M == m[s]
                 a == j - 1
                 b == M - 1
      <4>2. M \in Nat \ {0} /\ j \in Nat \ {0} /\ m[t] <= k - 1 /\ a >= m[t] /\ b >= m[t]
            /\ a \in Nat /\ b \in Nat
        BY <4>1
      <4> HIDE DEF M, a, b
      <4>3. F[j][s] = F[a][t] /\ F[M][s] = F[b][t]
        BY <1>8, <3>2, <4>2 DEF t, a, b
      <4>4. F[a][t] = F[m[t]][t] /\ F[b][t] = F[m[t]][t]
        BY <2>2, <4>1, <4>2
      <4>5. QED
        BY <4>3, <4>4 DEF M
    <3>3. QED
      BY <3>1, <3>2
  <2> HIDE DEF G
  <2>3. 0 .. N \subseteq G
    BY <2>1, <2>2, InductionUpTo
  <2>4. QED
    BY <2>3
<1> DEFINE f == [s \in S |-> F[m[s]][s]]
<1>12. ASSUME NEW s \in S PROVE F[m[s]][s] = IF Stop[s] THEN result[s] ELSE f[next[s]]
  <2>1. CASE Stop[s]
    BY <1>7, <1>9, <2>1
  <2>2. CASE ~Stop[s]
    <3> DEFINE t == next[s]
               M == m[s]
               b == M - 1
    <3>1. t \in S /\ m[t] < M /\ m[t] \in Nat /\ M \in Nat
      BY <1>7, <2>2
    <3>2. f[t] = F[m[t]][t]
      BY <3>1
    <3> HIDE DEF t, M, f, G
    <3>3. M \in Nat \ {0} /\ b \in Nat /\ b >= m[t] /\ m[t] <= b
      BY <3>1
    <3>4. F[M][s] = F[b][t]
      BY <1>8, <2>2, <3>3 DEF t
    <3>5. F[b][t] = F[m[t]][t]
      <4>1. b \in G
        BY <1>11, <3>3
      <4> HIDE DEF b
      <4>2. QED
        BY <3>1, <3>3, <4>1 DEF G
    <3>6. QED
      BY <2>2, <3>2, <3>4, <3>5 DEF t, M
  <2>3. QED
    BY <2>1, <2>2
<1>13. Loops(f, S, Stop, next, result)
  <2>1. f = [s \in S |-> IF Stop[s] THEN result[s] ELSE f[next[s]]]
    BY <1>12, Zenon
  <2> HIDE DEF f
  <2>2. QED
    BY <2>1, Zenon DEF Loops
<1>14. QED
  BY <1>13

(* What every step keeps holds of the state the loop stops in. *)
LEMMA LoopKeeps ==
    ASSUME NEW S, NEW Stop, NEW next, NEW result, NEW m, LoopOf(S, Stop, next, result, m),
           NEW f, Loops(f, S, Stop, next, result),
           NEW I \in SUBSET S, \A s \in I : ~Stop[s] => next[s] \in I,
           NEW s0 \in I
    PROVE  \E s \in I : Stop[s] /\ f[s0] = result[s]
<1> DEFINE Ends(r) == \E s \in I : Stop[s] /\ f[r] = result[s]
           T == {m[r] : r \in {r \in I : ~Ends(r)}}
<1>1. m \in [S -> Nat] /\ \A s \in S : ~Stop[s] => next[s] \in S /\ m[next[s]] < m[s]
  BY DEF LoopOf
<1>2. ASSUME NEW s \in S PROVE f[s] = IF Stop[s] THEN result[s] ELSE f[next[s]]
  BY Zenon DEF Loops
<1>3. ASSUME NEW r \in I, ~Ends(r) PROVE ~Stop[r] /\ ~Ends(next[r])
  <2>1. r \in S /\ ~Stop[r]
    BY <1>2, <1>3
  <2>2. f[r] = f[next[r]]
    BY <1>2, <2>1
  <2>3. QED
    BY <1>3, <2>1, <2>2
<1> SUFFICES ASSUME ~Ends(s0) PROVE FALSE
  OBVIOUS
<1> HIDE DEF Ends
<1>4. T \in SUBSET Nat /\ T # {}
  BY <1>1
<1>5. PICK k \in T : \A j \in T : k <= j
  <2> HIDE DEF T
  <2>1. QED
    BY <1>4, LeastNumber
<1>6. PICK r \in I : ~Ends(r) /\ k = m[r]
  BY <1>5
<1>7. ~Stop[r] /\ ~Ends(next[r]) /\ next[r] \in I
  BY <1>3, <1>6
<1>8. m[next[r]] \in T /\ m[next[r]] < m[r]
  BY <1>1, <1>7
<1>9. m[next[r]] \in Nat /\ m[r] \in Nat
  BY <1>1, <1>7
<1>10. QED
  BY <1>5, <1>6, <1>8, <1>9
=============================================================================
