--------------------------- MODULE TaskQueueProofs ---------------------------
(***************************************************************************)
(* What a check of the task queue keeps and what it ends, for queues of    *)
(* any length.  Induction is stated with sets of numbers, as the provers   *)
(* instantiate no predicates: a set that contains 0 and with each number   *)
(* the next one is Nat.  By it a function defined by recursion on 0..n     *)
(* exists, and so satisfies its definition.                                *)
(***************************************************************************)
EXTENDS TaskQueue, TLAPS, WellFoundedInduction, SequenceTheorems

-----------------------------------------------------------------------------
(* Induction and recursion *)

LEMMA LessThan ==
  \E R : IsWellFoundedOn(R, Nat) /\ \A m, n \in Nat : <<m, n>> \in R <=> m < n
<1>1. IsWellFoundedOn(OpToRel(<, Nat), Nat)
  BY NatLessThanWellFounded
<1>2. \A m, n \in Nat : <<m, n>> \in OpToRel(<, Nat) <=> m < n
  BY DEF OpToRel
<1>3. QED
  BY <1>1, <1>2, Zenon

LEMMA Least == \A T \in SUBSET Nat : T # {} => \E n \in T : \A m \in T : n <= m
<1> SUFFICES ASSUME NEW T \in SUBSET Nat, T # {}
             PROVE  \E n \in T : \A m \in T : n <= m
  OBVIOUS
<1>1. PICK R : IsWellFoundedOn(R, Nat) /\ \A m, n \in Nat : <<m, n>> \in R <=> m < n
  BY LessThan, Zenon
<1>2. T \subseteq Nat /\ T # {} /\ IsWellFoundedOn(R, Nat)
  BY <1>1
<1>3. \E n \in T : \A m \in T : ~(<<m, n>> \in R)
  <2> HIDE <1>1
  <2> QED
    BY <1>2, WFMin, ZenonT(60)
<1>4. PICK n \in T : \A m \in T : ~(<<m, n>> \in R)
  BY <1>3
<1>5. \A m \in T : ~(m < n)
  BY <1>1, <1>4
<1>6. QED
  BY <1>5

\* Induction up to n.
LEMMA UpTo ==
  \A n \in Nat : \A T : 0 \in T /\ (\A i \in 1..n : i - 1 \in T => i \in T) => \A i \in 0..n : i \in T
<1> SUFFICES ASSUME NEW n \in Nat, NEW T, 0 \in T, \A i \in 1..n : i - 1 \in T => i \in T,
                    NEW j \in 0..n, j \notin T
             PROVE  FALSE
  OBVIOUS
<1> DEFINE U == {i \in 0..n : i \notin T}
<1>1. U \in SUBSET Nat /\ j \in U
  OBVIOUS
<1>2. PICK k \in U : \A m \in U : k <= m
  BY <1>1, Least
<1>3. k \in 0..n /\ k \notin T /\ k # 0
  BY <1>2
<1>4. k - 1 \in 0..n /\ ~(k <= k - 1) /\ k \in 1..n
  BY <1>3
<1>5. k - 1 \in T
  BY <1>2, <1>4
<1>6. QED
  BY <1>3, <1>4, <1>5

\* The functions on 0..n that begin with x and go on by H.
Recursive(n, S, x, H) ==
  {f \in [0..n -> S] : f[0] = x /\ \A i \in 1..n : f[i] = H[<<f[i - 1], i>>]}

\* Recursion on 0..n: there is such a function.
LEMMA Recursion ==
  \A n \in Nat : \A S : \A x \in S : \A H \in [S \X (1..n) -> S] : Recursive(n, S, x, H) # {}
<1> SUFFICES ASSUME NEW n \in Nat, NEW S, NEW x \in S, NEW H \in [S \X (1..n) -> S]
             PROVE  Recursive(n, S, x, H) # {}
  OBVIOUS
<1> DEFINE Solves(f, m) == \A i \in 0..m : f[i] = IF i = 0 THEN x ELSE H[<<f[i - 1], i>>]
           T == {m \in 0..n : \E f \in [0..m -> S] : Solves(f, m)}
<1>1. 0 \in T
  <2> DEFINE g == [i \in 0..0 |-> x]
  <2>1. g \in [0..0 -> S] /\ Solves(g, 0) /\ 0 \in 0..n
    OBVIOUS
  <2> HIDE DEF g, Solves
  <2>2. QED
    BY <2>1
<1>2. ASSUME NEW m \in 1..n, m - 1 \in T PROVE m \in T
  <2>1. PICK f \in [0..m - 1 -> S] : Solves(f, m - 1)
    BY <1>2
  <2>2. m \in Nat /\ m - 1 \in 0..m - 1 /\ m # 0 /\ m \in 0..n
    OBVIOUS
  <2>3. f[m - 1] \in S /\ H[<<f[m - 1], m>>] \in S
    BY <2>2
  <2> DEFINE g == [i \in 0..m |-> IF i = m THEN H[<<f[m - 1], m>>] ELSE f[i]]
  <2>4. \A i \in 0..m : i # m => i \in 0..m - 1
    BY <2>2
  <2>5. g \in [0..m -> S]
    BY <2>3, <2>4
  <2>6. ASSUME NEW i \in 0..m PROVE g[i] = IF i = 0 THEN x ELSE H[<<g[i - 1], i>>]
    <3>1. CASE i = m
      <4>1. i - 1 \in 0..m /\ i - 1 # m
        BY <2>2, <3>1
      <4>2. g[i - 1] = f[m - 1]
        BY <3>1, <4>1
      <4>3. QED
        BY <2>2, <3>1, <4>2
    <3>2. CASE i # m
      <4>1. i \in 0..m - 1 /\ g[i] = f[i]
        BY <2>4, <3>2
      <4>2. i # 0 => i - 1 \in 0..m /\ i - 1 # m
        BY <2>2
      <4>3. i # 0 => g[i - 1] = f[i - 1]
        BY <4>2
      <4>4. QED
        BY <2>1, <4>1, <4>3
    <3>3. QED
      BY <3>1, <3>2
  <2>7. Solves(g, m)
    BY <2>6
  <2> HIDE DEF g
  <2>8. QED
    BY <2>2, <2>5, <2>7
<1>3. n \in T
  <2> HIDE DEF T
  <2>1. n \in 0..n
    OBVIOUS
  <2>2. QED
    BY <1>1, <1>2, <2>1, UpTo
<1>4. PICK f \in [0..n -> S] : Solves(f, n)
  BY <1>3
<1>5. 0 \in 0..n /\ \A i \in 1..n : i \in 0..n /\ i # 0
  OBVIOUS
<1>6. f[0] = x /\ \A i \in 1..n : f[i] = H[<<f[i - 1], i>>]
  <2>1. \A i \in 0..n : f[i] = IF i = 0 THEN x ELSE H[<<f[i - 1], i>>]
    BY <1>4
  <2>2. f[0] = x
    BY <1>5, <2>1
  <2>3. ASSUME NEW i \in 1..n PROVE f[i] = H[<<f[i - 1], i>>]
    <3>1. i \in 0..n /\ i # 0
      BY <1>5
    <3> QED
      BY <2>1, <3>1, Zenon
  <2> QED
    BY <2>2, <2>3
<1>7. QED
  BY <1>6 DEF Recursive

-----------------------------------------------------------------------------
(* The queue *)

Elements(q) == {q[i] : i \in DOMAIN q}

LEMMA OneMore == \A n \in Nat : \A k \in 1..n + 1 : k \in 1..n \/ k = n + 1
OBVIOUS

LEMMA ElementsTyped == \A S : \A q \in Seq(S) : \A t \in Elements(q) : t \in S
BY ElementOfSeq, LenProperties DEF Elements

LEMMA ElementsEmpty == Elements(<<>>) = {}
BY EmptySeq DEF Elements

LEMMA ElementsAppend ==
  \A S : \A q \in Seq(S) : \A t \in S :
    Append(q, t) \in Seq(S) /\ Elements(Append(q, t)) = Elements(q) \cup {t}
<1> SUFFICES ASSUME NEW S, NEW q \in Seq(S), NEW t \in S
             PROVE  Append(q, t) \in Seq(S) /\ Elements(Append(q, t)) = Elements(q) \cup {t}
  OBVIOUS
<1>1. /\ Len(q) \in Nat /\ DOMAIN q = 1..Len(q)
      /\ Append(q, t) \in Seq(S) /\ DOMAIN Append(q, t) = 1..Len(q) + 1
      /\ \A k \in 1..Len(q) : Append(q, t)[k] = q[k]
      /\ Append(q, t)[Len(q) + 1] = t
  BY AppendProperties, LenProperties
<1>2. \A k \in 1..Len(q) + 1 : k \in 1..Len(q) \/ k = Len(q) + 1
  BY <1>1, OneMore, Zenon
<1>3. \A k \in 1..Len(q) : k \in 1..Len(q) + 1
  BY <1>1
<1>4. Len(q) + 1 \in 1..Len(q) + 1
  BY <1>1
<1>5. Elements(Append(q, t)) = Elements(q) \cup {t}
  BY <1>1, <1>2, <1>3, <1>4, Zenon DEF Elements
<1>6. QED
  BY <1>1, <1>5

LEMMA ElementsConcat ==
  \A S : \A p, q \in Seq(S) :
    p \o q \in Seq(S) /\ Elements(p \o q) = Elements(p) \cup Elements(q)
<1> SUFFICES ASSUME NEW S, NEW p \in Seq(S), NEW q \in Seq(S)
             PROVE  p \o q \in Seq(S) /\ Elements(p \o q) = Elements(p) \cup Elements(q)
  OBVIOUS
<1> DEFINE m == Len(p)
           n == Len(q)
<1>1. /\ m \in Nat /\ DOMAIN p = 1..m /\ n \in Nat /\ DOMAIN q = 1..n
      /\ p \o q \in Seq(S) /\ Len(p \o q) = m + n
      /\ \A k \in 1..m + n : (p \o q)[k] = IF k <= m THEN p[k] ELSE q[k - m]
  BY ConcatProperties, LenProperties
<1>2. DOMAIN (p \o q) = 1..m + n
  BY <1>1, LenProperties
<1> HIDE DEF m, n
<1>3. ASSUME NEW k \in 1..m + n PROVE (p \o q)[k] \in Elements(p) \cup Elements(q)
  <2>1. CASE k <= m
    <3>1. k \in 1..m /\ (p \o q)[k] = p[k]
      BY <1>1, <2>1
    <3>2. QED
      BY <1>1, <3>1 DEF Elements
  <2>2. CASE ~(k <= m)
    <3>1. k - m \in 1..n /\ (p \o q)[k] = q[k - m]
      BY <1>1, <2>2
    <3>2. QED
      BY <1>1, <3>1 DEF Elements
  <2>3. QED
    BY <2>1, <2>2
<1>4. ASSUME NEW k \in 1..m PROVE p[k] \in Elements(p \o q)
  <2>1. k \in 1..m + n /\ (p \o q)[k] = p[k]
    BY <1>1
  <2>2. QED
    BY <1>2, <2>1 DEF Elements
<1>5. ASSUME NEW k \in 1..n PROVE q[k] \in Elements(p \o q)
  <2>1. k + m \in 1..m + n /\ ~(k + m <= m) /\ (k + m) - m = k
    BY <1>1
  <2>2. (p \o q)[k + m] = q[k]
    BY <1>1, <2>1
  <2>3. QED
    BY <1>2, <2>1, <2>2 DEF Elements
<1>6. Elements(p \o q) \subseteq Elements(p) \cup Elements(q)
  BY <1>2, <1>3 DEF Elements
<1>7. Elements(p) \subseteq Elements(p \o q) /\ Elements(q) \subseteq Elements(p \o q)
  BY <1>1, <1>4, <1>5 DEF Elements
<1>8. QED
  BY <1>1, <1>6, <1>7

\* A check keeps the tasks that have not ended and cleans up the others: none is
\* forgotten and none is kept that has ended.
THEOREM PartIs ==
  ASSUME NEW S, NEW queue \in Seq(S), NEW ended \in BOOLEAN
  PROVE  /\ Part(queue, ended) \in Seq(S)
         /\ Elements(Part(queue, ended)) = {t \in Elements(queue) : Ended(t) <=> ended}
<1> DEFINE n == Len(queue)
           Next1(p, i) == IF Ended(queue[i]) <=> ended THEN Append(p, queue[i]) ELSE p
           H == [a \in Seq(S) \X (1..n) |-> Next1(a[1], a[2])]
           Is(f) == f = [i \in 0..n |->
                           IF i = 0 THEN <<>>
                           ELSE IF Ended(queue[i]) <=> ended THEN Append(f[i - 1], queue[i])
                           ELSE f[i - 1]]
<1>1. n \in Nat /\ DOMAIN queue = 1..n /\ \A i \in 1..n : queue[i] \in S
  BY LenProperties, ElementOfSeq
<1>2. \A p \in Seq(S), i \in 1..n : Next1(p, i) \in Seq(S)
  BY <1>1, AppendProperties
<1>3. H \in [Seq(S) \X (1..n) -> Seq(S)]
  BY <1>2
<1>4. <<>> \in Seq(S)
  BY EmptySeq
<1>5. \E f : Is(f)
  <2> HIDE DEF H, n
  <2>0. Recursive(n, Seq(S), <<>>, H) # {}
    <3>1. n \in Nat
      BY <1>1
    <3>2. QED
      BY <1>3, <1>4, <3>1, Recursion, Zenon
  <2>1. PICK f \in [0..n -> Seq(S)] :
          f[0] = <<>> /\ \A i \in 1..n : f[i] = H[<<f[i - 1], i>>]
    BY <2>0 DEF Recursive
  <2>2. ASSUME NEW i \in 0..n, i # 0 PROVE f[i] = Next1(f[i - 1], i)
    <3>1. i \in 1..n /\ f[i - 1] \in Seq(S)
      BY <1>1, <2>2
    <3>2. QED
      BY <2>1, <3>1 DEF H
  <2>3. Is(f)
    BY <2>1, <2>2
  <2>4. QED
    BY <2>3
<1> DEFINE part == CHOOSE f : Is(f)
<1>6. Is(part)
  BY <1>5
<1>7. Part(queue, ended) = part[n]
  BY DEF Part
<1> HIDE DEF part
<1> DEFINE Upto(i) == {queue[j] : j \in 1..i}
           Good == {i \in 0..n : part[i] \in Seq(S)
                                  /\ Elements(part[i]) = {t \in Upto(i) : Ended(t) <=> ended}}
<1>8. 0 \in Good
  BY <1>1, <1>4, <1>6, ElementsEmpty
<1>9. ASSUME NEW i \in 1..n, i - 1 \in Good PROVE i \in Good
  <2>1. i \in 0..n /\ i # 0 /\ i - 1 \in 0..n
    BY <1>1
  <2>2. part[i] = Next1(part[i - 1], i)
    BY <1>6, <2>1
  <2>3. Upto(i) = Upto(i - 1) \cup {queue[i]}
    <3>1. \A j \in 1..i : j \in 1..i - 1 \/ j = i
      BY <1>1
    <3>2. i \in 1..i /\ \A j \in 1..i - 1 : j \in 1..i
      BY <1>1
    <3>3. QED
      BY <3>1, <3>2, Zenon
  <2> HIDE DEF Upto
  <2>4. queue[i] \in S
    BY <1>1
  <2>5. part[i - 1] \in Seq(S) /\ Elements(part[i - 1]) = {t \in Upto(i - 1) : Ended(t) <=> ended}
    BY <1>9
  <2>6. CASE Ended(queue[i]) <=> ended
    <3>1. part[i] = Append(part[i - 1], queue[i])
      BY <2>2, <2>6
    <3>2. part[i] \in Seq(S) /\ Elements(part[i]) = Elements(part[i - 1]) \cup {queue[i]}
      <4>1. \A p \in Seq(S) : \A t \in S :
              Append(p, t) \in Seq(S) /\ Elements(Append(p, t)) = Elements(p) \cup {t}
        BY ElementsAppend
      <4>2. part[i - 1] \in Seq(S)
        BY <2>5
      <4>3. QED
        BY <2>4, <3>1, <4>1, <4>2, Zenon
    <3>3. Elements(part[i]) = {t \in Upto(i) : Ended(t) <=> ended}
      BY <2>3, <2>5, <2>6, <3>2
    <3>4. QED
      BY <2>1, <3>2, <3>3
  <2>7. CASE ~(Ended(queue[i]) <=> ended)
    <3>1. part[i] = part[i - 1]
      BY <2>2, <2>7
    <3>2. Elements(part[i]) = {t \in Upto(i) : Ended(t) <=> ended}
      BY <2>3, <2>5, <2>7, <3>1
    <3>3. QED
      BY <2>1, <2>5, <3>1, <3>2
  <2>8. QED
    BY <2>6, <2>7
<1>10. n \in Good
  <2> HIDE DEF Good
  <2>1. n \in 0..n
    BY <1>1
  <2>2. QED
    BY <1>1, <1>8, <1>9, <2>1, UpTo
<1>11. Upto(n) = Elements(queue)
  BY <1>1 DEF Elements
<1>12. QED
  BY <1>7, <1>10, <1>11
=============================================================================
