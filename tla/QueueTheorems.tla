---------------------------- MODULE QueueTheorems ----------------------------
(***************************************************************************)
(* What the queue operators compute, for every queue: a cleared queue is   *)
(* the old one with some messages left out, in the old order. Induction is *)
(* by the least counterexample, which needs no operator parameter.         *)
(***************************************************************************)
EXTENDS MessageQueues, Integers, WellFoundedInduction, TLAPS

\* Every non-empty set of natural numbers has a least element.
LEMMA LeastElement ==
  ASSUME NEW T, T \subseteq Nat, T # {}
  PROVE  \E x \in T : \A y \in T : x <= y
<1>1. IsWellFoundedOn(OpToRel(<, Nat), Nat)
  BY NatLessThanWellFounded
<1>2. PICK x \in T : \A y \in T : ~(<<y, x>> \in OpToRel(<, Nat))
  BY <1>1, WFMin
<1>3. \A y \in T : ~(y < x)
  BY <1>2 DEF OpToRel
<1> QED BY <1>3, x \in Nat

\* Induction over 0..N, for a set instead of a predicate.
LEMMA SetInduction ==
  ASSUME NEW N \in Nat, NEW T, 0 \in T,
         \A n \in 1..N : n - 1 \in T => n \in T
  PROVE  \A n \in 0..N : n \in T
<1> DEFINE C == {n \in 0..N : n \notin T}
<1> SUFFICES ASSUME C # {} PROVE FALSE
  OBVIOUS
<1>1. C \subseteq Nat
  OBVIOUS
<1> HIDE DEF C
<1>2. PICK n \in C : \A m \in C : n <= m
  BY <1>1, LeastElement
<1> USE DEF C
<1>3. n \in 0..N /\ n \notin T /\ n # 0
  OBVIOUS
<1>4. n - 1 \in 0..N /\ n - 1 \notin C
  <2> HIDE DEF C
  <2> QED BY <1>2, <1>3
<1> QED BY <1>3, <1>4

\* t keeps the messages of s, up to the n-th, that are not in S: h says where
\* each of them was.
Picks(t, s, n, S, h) ==
  /\ h \in [1..Len(t) -> 1..n]
  /\ \A i \in 1..Len(t) : t[i] = s[h[i]] /\ s[h[i]] \notin S
  /\ \A i, j \in 1..Len(t) : i < j => h[i] < h[j]
  /\ \A i \in 1..n : s[i] \notin S => \E j \in 1..Len(t) : h[j] = i

\* The recursive equation of Kept, for the first N messages.
KeptEquation(k, s, S, N) ==
  k = [n \in 0..N |-> IF n = 0 THEN <<>>
                      ELSE IF s[n] \in S THEN k[n - 1] ELSE Append(k[n - 1], s[n])]

\* The recursive equation of Kept has a solution.
LEMMA KeptExists ==
  ASSUME NEW s, NEW S, NEW N \in Nat
  PROVE  \E k : KeptEquation(k, s, S, N)
<1> USE DEF KeptEquation
<1> DEFINE Def(k, M) == KeptEquation(k, s, S, M)
           T == {M \in Nat : \E k : Def(k, M)}
<1>1. 0 \in T
  <2>1. Def([n \in 0..0 |-> <<>>], 0)
    OBVIOUS
  <2> QED BY <2>1
<1>2. ASSUME NEW M \in 1..N, M - 1 \in T PROVE M \in T
  <2>1. PICK k : Def(k, M - 1)
    BY <1>2
  <2> DEFINE k2 == [n \in 0..M |->
               IF n = M THEN (IF s[M] \in S THEN k[M - 1] ELSE Append(k[M - 1], s[M]))
               ELSE k[n]]
  <2>2. ASSUME NEW n \in 0..M
        PROVE  k2[n] = IF n = 0 THEN <<>>
                       ELSE IF s[n] \in S THEN k2[n - 1] ELSE Append(k2[n - 1], s[n])
    <3>1. CASE n = M
      BY <3>1
    <3>2. CASE n # M
      <4>1. n \in 0..(M - 1) /\ (n # 0 => n - 1 \in 0..(M - 1))
        BY <3>2
      <4>2. k[n] = IF n = 0 THEN <<>>
                   ELSE IF s[n] \in S THEN k[n - 1] ELSE Append(k[n - 1], s[n])
        BY <2>1, <4>1
      <4>3. k2[n] = k[n] /\ (n # 0 => k2[n - 1] = k[n - 1])
        BY <4>1, <3>2
      <4> QED BY <4>1, <4>2, <4>3
    <3> QED BY <3>1, <3>2
  <2>3. k2 = [n \in 0..M |-> k2[n]]
    OBVIOUS
  <2> HIDE DEF k2
  <2>4. Def(k2, M)
    BY <2>2, <2>3
  <2> QED BY SMTT(30), <2>4
<1> HIDE DEF T
<1>3. N \in T
  BY <1>1, <1>2, SetInduction
<1> QED BY <1>3 DEF T

\* Kept satisfies its recursive equation.
LEMMA KeptDef ==
  ASSUME NEW s, NEW S, Len(s) \in Nat
  PROVE  \A n \in 0..Len(s) : Kept(s, S)[n] =
            IF n = 0 THEN <<>>
            ELSE IF s[n] \in S THEN Kept(s, S)[n - 1]
            ELSE Append(Kept(s, S)[n - 1], s[n])
<1> DEFINE Def(k) == KeptEquation(k, s, S, Len(s))
<1>1. \E k : Def(k)
  BY KeptExists
<1>2. Kept(s, S) = CHOOSE k : Def(k)
  BY DEF Kept, KeptEquation
<1>3. Def(CHOOSE k : Def(k))
  <2> HIDE DEF Def
  <2> QED BY <1>1
<1>4. Def(Kept(s, S))
  BY <1>2, <1>3
<1> QED BY <1>4 DEF KeptEquation

\* One more message of s.
LEMMA PicksStep ==
  ASSUME NEW M, NEW s \in Seq(M), NEW S, NEW n \in 1..Len(s),
         NEW t \in Seq(M), NEW h, Picks(t, s, n - 1, S, h)
  PROVE  IF s[n] \in S THEN Picks(t, s, n, S, h)
         ELSE \E g : Picks(Append(t, s[n]), s, n, S, g)
<1>0. Len(t) \in Nat /\ s[n] \in M
  OBVIOUS
<1>1. CASE s[n] \in S
  BY <1>1, <1>0 DEF Picks
<1>2. CASE s[n] \notin S
  <2> DEFINE u == Append(t, s[n])
             L == Len(t)
             g == [i \in 1..(L + 1) |-> IF i = L + 1 THEN n ELSE h[i]]
  <2>1. u \in Seq(M) /\ Len(u) = L + 1 /\ L \in Nat /\ u[L + 1] = s[n]
    BY <1>0
  <2>2. \A i \in 1..L : u[i] = t[i]
    BY <1>0
  <2>3. \A i \in 1..L : h[i] \in 1..(n - 1) /\ i \in 1..(L + 1) /\ i # L + 1
    BY <2>1 DEF Picks
  <2>4. \A i \in 1..L : g[i] = h[i]
    BY <2>3
  <2>5. g[L + 1] = n
    BY <2>1
  <2>6. \A i \in 1..(L + 1) : i = L + 1 \/ i \in 1..L
    BY <2>1
  <2>7. g \in [1..(L + 1) -> 1..n]
    <3>1. ASSUME NEW i \in 1..(L + 1) PROVE g[i] \in 1..n
      BY <2>3, <2>4, <2>5, <2>6
    <3> QED BY <3>1
  <2> HIDE DEF g, u, L
  <2>8. \A i \in 1..(L + 1) : u[i] = s[g[i]] /\ s[g[i]] \notin S
    <3> TAKE i \in 1..(L + 1)
    <3>1. CASE i = L + 1
      BY <3>1, <2>1, <2>5, <1>2
    <3>2. CASE i \in 1..L
      BY <3>2, <2>2, <2>4 DEF Picks, L
    <3> QED BY <3>1, <3>2, <2>6
  <2>9. \A i, j \in 1..(L + 1) : i < j => g[i] < g[j]
    <3> SUFFICES ASSUME NEW i \in 1..(L + 1), NEW j \in 1..(L + 1), i < j
                 PROVE  g[i] < g[j]
      OBVIOUS
    <3>0. i \in 1..L
      BY <2>1
    <3>1. CASE j = L + 1
      BY <3>0, <3>1, <2>3, <2>4, <2>5
    <3>2. CASE j \in 1..L
      <4>1. h[i] < h[j]
        BY <3>0, <3>2 DEF Picks, L
      <4> QED BY <3>0, <3>2, <2>4, <4>1
    <3> QED BY <3>1, <3>2, <2>6
  <2>10. \A i \in 1..n : s[i] \notin S => \E j \in 1..(L + 1) : g[j] = i
    <3> SUFFICES ASSUME NEW i \in 1..n, s[i] \notin S
                 PROVE  \E j \in 1..(L + 1) : g[j] = i
      OBVIOUS
    <3>1. CASE i = n
      BY <3>1, <2>5, <2>1
    <3>2. CASE i # n
      <4>1. i \in 1..(n - 1)
        BY <3>2
      <4>2. PICK j \in 1..L : h[j] = i
        BY <4>1 DEF Picks, L
      <4>3. j \in 1..(L + 1) /\ g[j] = i
        BY <4>2, <2>3, <2>4
      <4> QED BY <4>3
    <3> QED BY <3>1, <3>2
  <2>11. Picks(u, s, n, S, g)
    BY <2>1, <2>7, <2>8, <2>9, <2>10 DEF Picks
  <2> QED BY <2>11, <1>2 DEF u
<1> QED BY <1>1, <1>2

\* MessageQueue::Clear: what is left is a queue of the same messages, none of
\* them in S, in the order they had, and no other message is lost.
THEOREM WithoutPicks ==
  ASSUME NEW M, NEW s \in Seq(M), NEW S
  PROVE  /\ Without(s, S) \in Seq(M)
         /\ \E h : Picks(Without(s, S), s, Len(s), S, h)
<1> DEFINE K == Kept(s, S)
           T == {n \in 0..Len(s) : K[n] \in Seq(M) /\ \E h : Picks(K[n], s, n, S, h)}
<1>0. Len(s) \in Nat
  OBVIOUS
<1>1. \A n \in 0..Len(s) : K[n] =
         IF n = 0 THEN <<>> ELSE IF s[n] \in S THEN K[n - 1] ELSE Append(K[n - 1], s[n])
  BY KeptDef, <1>0
<1> HIDE DEF K
<1>2. 0 \in T
  <2>1. K[0] = <<>>
    BY <1>1, <1>0
  <2>2. Picks(K[0], s, 0, S, [i \in 1..0 |-> 0])
    BY <2>1 DEF Picks
  <2>3. K[0] \in Seq(M)
    BY <2>1
  <2> QED BY <2>2, <2>3, <1>0
<1>3. ASSUME NEW n \in 1..Len(s), n - 1 \in T PROVE n \in T
  <2>1. K[n - 1] \in Seq(M) /\ n \in 0..Len(s) /\ s[n] \in M
    BY <1>3
  <2>2. PICK h : Picks(K[n - 1], s, n - 1, S, h)
    BY <1>3
  <2>3. K[n] = IF s[n] \in S THEN K[n - 1] ELSE Append(K[n - 1], s[n])
    BY <1>1, <2>1
  <2>4. \E g : Picks(K[n], s, n, S, g)
    BY <2>1, <2>2, <2>3, PicksStep
  <2>5. K[n] \in Seq(M)
    BY <2>1, <2>3
  <2> QED BY <2>1, <2>4, <2>5
<1> HIDE DEF T
<1>4. Len(s) \in T
  <2>1. PICK N \in Nat : N = Len(s)
    BY <1>0
  <2>2. \A n \in 1..N : n - 1 \in T => n \in T
    BY <1>3, <2>1
  <2>3. \A n \in 0..N : n \in T
    BY <1>2, <2>2, SetInduction
  <2> QED BY <2>1, <2>3
<1> QED BY <1>4 DEF T, K, Without
-----------------------------------------------------------------------------
\* The messages of a queue, that a message is queued at most once, and that
\* every m is queued behind a message of A.
Held(s) == {s[i] : i \in 1..Len(s)}
Once(s, m) == \A i, j \in 1..Len(s) : s[i] = m /\ s[j] = m => i = j
Before(s, A, m) == \A j \in 1..Len(s) : s[j] = m => \E i \in 1..(j - 1) : s[i] \in A

\* Queues of no and of one message.
LEMMA ShortQueues ==
  /\ Held(<<>>) = {} /\ \A x : Once(<<>>, x)
  /\ \A m : Held(<<m>>) = {m} /\ \A x : Once(<<m>>, x)
  /\ \A m, n : Held(<<m, n>>) = {m, n} /\ \A x : m # n => Once(<<m, n>>, x)
BY DEF Held, Once

\* One queue behind another.
LEMMA ConcatQueues ==
  ASSUME NEW M, NEW s \in Seq(M), NEW t \in Seq(M)
  PROVE  /\ s \o t \in Seq(M)
         /\ Held(s \o t) = Held(s) \cup Held(t)
         /\ \A x : Once(s, x) /\ Once(t, x) /\ ~(x \in Held(s) /\ x \in Held(t))
                     => Once(s \o t, x)
         /\ \A A, x : /\ Before(s, A, x)
                      /\ x \in Held(t) => Held(s) \cap A # {}
                      => Before(s \o t, A, x)
<1> DEFINE c == s \o t
           n == Len(s)
           k == Len(t)
<1>1. /\ c \in Seq(M) /\ Len(c) = n + k /\ n \in Nat /\ k \in Nat
      /\ \A i \in 1..n : c[i] = s[i]
      /\ \A i \in 1..k : n + i \in 1..(n + k) /\ c[n + i] = t[i]
      /\ \A i \in 1..(n + k) : i \in 1..n \/ (i - n \in 1..k /\ i = n + (i - n))
      /\ \A i \in 1..n : i \in 1..(n + k)
  OBVIOUS
<1> HIDE DEF c
<1>2. \A i \in 1..(n + k) : i \notin 1..n => i - n \in 1..k /\ c[i] = t[i - n]
  BY <1>1
<1> HIDE DEF n, k
<1>3. Held(c) = Held(s) \cup Held(t)
  <2>1. Held(c) \subseteq Held(s) \cup Held(t)
    BY <1>1, <1>2 DEF Held, n, k
  <2>2. Held(s) \subseteq Held(c)
    BY <1>1 DEF Held, n, k
  <2>3. Held(t) \subseteq Held(c)
    BY <1>1 DEF Held, n, k
  <2> QED BY <2>1, <2>2, <2>3
<1>4. ASSUME NEW x, Once(s, x), Once(t, x), ~(x \in Held(s) /\ x \in Held(t))
      PROVE  Once(c, x)
  <2> SUFFICES ASSUME NEW i \in 1..(n + k), NEW j \in 1..(n + k), c[i] = x, c[j] = x
               PROVE  i = j
    BY <1>1 DEF Once
  <2>1. CASE i \in 1..n /\ j \in 1..n
    BY <2>1, <1>4, <1>1 DEF Once, n
  <2>2. CASE i \notin 1..n /\ j \notin 1..n
    <3>1. i - n = j - n
      BY <2>2, <1>4, <1>2 DEF Once, k
    <3> QED BY <3>1, <1>1
  <2>3. CASE i \in 1..n /\ j \notin 1..n
    BY <2>3, <1>4, <1>1, <1>2 DEF Held, n, k
  <2>4. CASE i \notin 1..n /\ j \in 1..n
    BY <2>4, <1>4, <1>1, <1>2 DEF Held, n, k
  <2> QED BY <2>1, <2>2, <2>3, <2>4
<1>5. ASSUME NEW A, NEW x, Before(s, A, x), x \in Held(t) => Held(s) \cap A # {}
      PROVE  Before(c, A, x)
  <2> SUFFICES ASSUME NEW j \in 1..(n + k), c[j] = x
               PROVE  \E i \in 1..(j - 1) : c[i] \in A
    BY <1>1 DEF Before
  <2>1. CASE j \in 1..n
    <3>1. PICK i \in 1..(j - 1) : s[i] \in A
      BY <2>1, <1>5, <1>1 DEF Before, n
    <3>2. i \in 1..n
      BY <2>1, <1>1
    <3> QED BY <3>1, <3>2, <1>1
  <2>2. CASE j \notin 1..n
    <3>1. x \in Held(t)
      BY <2>2, <1>2 DEF Held, k
    <3>2. PICK i \in 1..n : s[i] \in A
      BY <3>1, <1>5 DEF Held, n
    <3>3. i \in 1..(j - 1)
      BY <2>2, <1>1
    <3> QED BY <3>2, <3>3, <1>1
  <2> QED BY <2>1, <2>2
<1> QED BY <1>1, <1>3, <1>4, <1>5 DEF c

\* A message is posted.
LEMMA AppendQueue ==
  ASSUME NEW M, NEW s \in Seq(M), NEW m \in M
  PROVE  /\ Append(s, m) \in Seq(M)
         /\ Held(Append(s, m)) = Held(s) \cup {m}
         /\ \A x : Once(s, x) /\ ~(x = m /\ m \in Held(s)) => Once(Append(s, m), x)
         /\ \A A, x : Before(s, A, x) /\ (x = m => Held(s) \cap A # {})
                        => Before(Append(s, m), A, x)
<1> DEFINE t == <<m>>
<1>1. Append(s, m) = s \o t /\ t \in Seq(M)
  OBVIOUS
<1>2. Held(t) = {m} /\ \A x : Once(t, x)
  BY ShortQueues
<1> HIDE DEF t
<1>3. Held(s \o t) = Held(s) \cup Held(t)
  BY <1>1, ConcatQueues
<1>4. ASSUME NEW x, Once(s, x), ~(x = m /\ m \in Held(s)) PROVE Once(s \o t, x)
  BY <1>1, <1>2, <1>4, ConcatQueues
<1>5. ASSUME NEW A, NEW x, Before(s, A, x), x = m => Held(s) \cap A # {}
      PROVE  Before(s \o t, A, x)
  BY <1>1, <1>2, <1>5, ConcatQueues
<1> QED BY <1>1, <1>2, <1>3, <1>4, <1>5

\* The first message is taken.
LEMMA TailQueue ==
  ASSUME NEW M, NEW s \in Seq(M), s # <<>>
  PROVE  /\ Tail(s) \in Seq(M) /\ Head(s) \in M
         /\ Held(s) = {Head(s)} \cup Held(Tail(s))
         /\ \A x : Once(s, x) => Once(Tail(s), x) /\ (x = Head(s) => x \notin Held(Tail(s)))
         /\ \A A, x : Before(s, A, x) => x # Head(s)
                        /\ (Head(s) \notin A => Before(Tail(s), A, x))
<1> DEFINE t == Tail(s)
           n == Len(s)
<1>1. /\ t \in Seq(M) /\ n \in Nat \ {0} /\ Len(t) = n - 1 /\ Head(s) = s[1] /\ s[1] \in M
      /\ \A i \in 1..(n - 1) : t[i] = s[i + 1] /\ i + 1 \in 1..n
      /\ \A i \in 1..n : i = 1 \/ i - 1 \in 1..(n - 1)
  OBVIOUS
<1> HIDE DEF t
<1>2. \A i \in 1..n : i # 1 => i - 1 \in 1..(n - 1) /\ s[i] = t[i - 1]
  BY <1>1
<1> HIDE DEF n
<1>3. Held(s) = {s[1]} \cup Held(t)
  <2>1. Held(s) \subseteq {s[1]} \cup Held(t)
    BY <1>1, <1>2 DEF Held, n
  <2>2. s[1] \in Held(s)
    BY <1>1 DEF Held, n
  <2>3. Held(t) \subseteq Held(s)
    BY <1>1 DEF Held, n
  <2> QED BY <2>1, <2>2, <2>3
<1>4. ASSUME NEW x, Once(s, x)
      PROVE  Once(t, x) /\ (x = s[1] => x \notin Held(t))
  <2>1. Once(t, x)
    <3> SUFFICES ASSUME NEW i \in 1..(n - 1), NEW j \in 1..(n - 1), t[i] = x, t[j] = x
                 PROVE  i = j
      BY <1>1 DEF Once
    <3>1. i + 1 = j + 1
      BY <1>1, <1>4 DEF Once, n
    <3> QED BY <3>1
  <2>2. ASSUME x = s[1], x \in Held(t) PROVE FALSE
    <3>1. PICK i \in 1..(n - 1) : t[i] = x
      BY <2>2, <1>1 DEF Held
    <3>2. i + 1 = 1
      BY <3>1, <2>2, <1>1, <1>4 DEF Once, n
    <3> QED BY <3>2, <1>1
  <2> QED BY <2>1, <2>2
<1>5. ASSUME NEW A, NEW x, Before(s, A, x)
      PROVE  x # s[1] /\ (s[1] \notin A => Before(t, A, x))
  <2>1. x # s[1]
    BY <1>5, <1>1 DEF Before, n
  <2>2. ASSUME s[1] \notin A, NEW j \in 1..(n - 1), t[j] = x
        PROVE  \E i \in 1..(j - 1) : t[i] \in A
    <3>1. PICK i \in 1..j : s[i] \in A
      <4>1. PICK i \in 1..((j + 1) - 1) : s[i] \in A
        BY <1>5, <2>2, <1>1 DEF Before, n
      <4> QED BY <4>1
    <3>2. i # 1
      BY <3>1, <2>2
    <3>3. i - 1 \in 1..(j - 1) /\ t[i - 1] = s[i]
      BY <3>1, <3>2, <1>1, <1>2
    <3> QED BY <3>1, <3>3
  <2> QED BY <2>1, <2>2, <1>1 DEF Before
<1> QED BY <1>1, <1>3, <1>4, <1>5 DEF t

\* Messages are cleared.
LEMMA WithoutQueue ==
  ASSUME NEW M, NEW s \in Seq(M), NEW S
  PROVE  /\ Without(s, S) \in Seq(M)
         /\ Held(Without(s, S)) = Held(s) \ S
         /\ \A x : Once(s, x) => Once(Without(s, S), x)
         /\ \A A, x : Before(s, A, x) /\ A \cap S = {} => Before(Without(s, S), A, x)
<1> DEFINE t == Without(s, S)
           n == Len(s)
           k == Len(t)
<1>1. t \in Seq(M)
  BY WithoutPicks
<1>2. PICK h : Picks(t, s, n, S, h)
  BY WithoutPicks
<1>3. n \in Nat /\ k \in Nat
  BY <1>1
<1> HIDE DEF t
<1>4. /\ \A i \in 1..k : h[i] \in 1..n /\ t[i] = s[h[i]] /\ s[h[i]] \notin S
      /\ \A i, j \in 1..k : i < j => h[i] < h[j]
      /\ \A i \in 1..n : s[i] \notin S => \E j \in 1..k : h[j] = i
  BY <1>2 DEF Picks
<1> HIDE DEF n, k
<1>5. Held(t) = Held(s) \ S
  <2>1. Held(t) \subseteq Held(s) \ S
    BY <1>4 DEF Held, n, k
  <2>2. Held(s) \ S \subseteq Held(t)
    <3> SUFFICES ASSUME NEW i \in 1..n, s[i] \notin S PROVE s[i] \in Held(t)
      BY DEF Held, n
    <3>1. PICK j \in 1..k : h[j] = i
      BY <1>4
    <3> QED BY <3>1, <1>4 DEF Held, k
  <2> QED BY <2>1, <2>2
<1>6. ASSUME NEW x, Once(s, x) PROVE Once(t, x)
  <2> SUFFICES ASSUME NEW i \in 1..k, NEW j \in 1..k, t[i] = x, t[j] = x PROVE i = j
    BY DEF Once, k
  <2>1. h[i] = h[j]
    BY <1>4, <1>6 DEF Once, n
  <2>2. ~(h[i] < h[j]) /\ ~(h[j] < h[i])
    BY <2>1, <1>4, <1>3
  <2> QED BY <2>2, <1>4, <1>3
<1>7. ASSUME NEW A, NEW x, Before(s, A, x), A \cap S = {} PROVE Before(t, A, x)
  <2> SUFFICES ASSUME NEW j \in 1..k, t[j] = x PROVE \E i \in 1..(j - 1) : t[i] \in A
    BY DEF Before, k
  <2>1. h[j] \in 1..n /\ s[h[j]] = x
    BY <1>4
  <2>2. PICK a \in 1..(h[j] - 1) : s[a] \in A
    BY <2>1, <1>7 DEF Before, n
  <2>3. a \in 1..n /\ s[a] \notin S
    BY <2>1, <2>2, <1>3, <1>7
  <2>4. PICK i \in 1..k : h[i] = a
    BY <2>3, <1>4
  <2>5. h[i] < h[j] /\ t[i] \in A
    BY <2>4, <2>2, <2>1, <1>3, <1>4
  <2>6. ~(j < i) /\ i # j
    BY <2>5, <1>4, <1>3, <2>1, <2>3, <2>4
  <2>7. i \in 1..(j - 1)
    BY <2>6, <1>3
  <2> QED BY <2>5, <2>7
<1> QED BY <1>1, <1>5, <1>6, <1>7 DEF t

\* Three queues, one behind the other.
LEMMA ThreeQueues ==
  ASSUME NEW M, NEW s \in Seq(M), NEW t \in Seq(M), NEW u \in Seq(M)
  PROVE  /\ s \o t \o u \in Seq(M)
         /\ Held(s \o t \o u) = Held(s) \cup Held(t) \cup Held(u)
         /\ \A x : /\ Once(s, x) /\ Once(t, x) /\ Once(u, x)
                   /\ x \in Held(s) => x \notin Held(t) /\ x \notin Held(u)
                   /\ x \in Held(t) => x \notin Held(u)
                   => Once(s \o t \o u, x)
         /\ \A A, x : /\ Before(s, A, x)
                      /\ x \in Held(t) \cup Held(u) => Held(s) \cap A # {}
                      => Before(s \o t \o u, A, x)
<1> DEFINE c == s \o t
<1>1. /\ c \in Seq(M) /\ Held(c) = Held(s) \cup Held(t)
      /\ \A x : Once(s, x) /\ Once(t, x) /\ ~(x \in Held(s) /\ x \in Held(t)) => Once(c, x)
      /\ \A A, x : /\ Before(s, A, x)
                   /\ x \in Held(t) => Held(s) \cap A # {}
                   => Before(c, A, x)
  BY ConcatQueues
<1> HIDE DEF c
<1>2. /\ c \o u \in Seq(M) /\ Held(c \o u) = Held(c) \cup Held(u)
      /\ \A x : Once(c, x) /\ Once(u, x) /\ ~(x \in Held(c) /\ x \in Held(u)) => Once(c \o u, x)
      /\ \A A, x : /\ Before(c, A, x)
                   /\ x \in Held(u) => Held(c) \cap A # {}
                   => Before(c \o u, A, x)
  BY <1>1, ConcatQueues
<1>3. Held(c \o u) = Held(s) \cup Held(t) \cup Held(u)
  BY <1>1, <1>2
<1>4. ASSUME NEW x, Once(s, x), Once(t, x), Once(u, x),
             x \in Held(s) => x \notin Held(t) /\ x \notin Held(u),
             x \in Held(t) => x \notin Held(u)
      PROVE  Once(c \o u, x)
  <2>1. Once(c, x)
    BY <1>1, <1>4
  <2>2. ~(x \in Held(c) /\ x \in Held(u))
    BY <1>1, <1>4
  <2> QED BY <1>2, <1>4, <2>1, <2>2
<1>5. ASSUME NEW A, NEW x, Before(s, A, x), x \in Held(t) \cup Held(u) => Held(s) \cap A # {}
      PROVE  Before(c \o u, A, x)
  <2>1. Before(c, A, x)
    BY <1>1, <1>5
  <2>2. x \in Held(u) => Held(c) \cap A # {}
    BY <1>1, <1>5
  <2> QED BY <1>2, <2>1, <2>2
<1> QED BY <1>2, <1>3, <1>4, <1>5 DEF c
=============================================================================
