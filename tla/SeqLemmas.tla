----------------------------- MODULE SeqLemmas -----------------------------
(***************************************************************************)
(* What the queue operations of the modules (push, shift, and splice of    *)
(* the index indexOf finds) do to the elements of a queue without          *)
(* repetitions.                                                            *)
(***************************************************************************)
EXTENDS Naturals, Sequences, SequencesExt, SequenceTheorems, WellFoundedInduction, TLAPS

\* A set of natural numbers has a least element: with it, induction over a queue.
LEMMA LeastLemma ==
  ASSUME NEW T \in SUBSET Nat, T # {}
  PROVE  \E n \in T : \A m \in T : n <= m
<1>1. PICK n \in T : \A m \in T : <<m, n>> \notin OpToRel(<, Nat)
  BY NatLessThanWellFounded, WFMin
<1>2. \A m \in T : ~(m < n)
  BY <1>1 DEF OpToRel
<1> QED BY <1>2

\* The empty queue has no element.
LEMMA NoneLemma ==
  ASSUME NEW S
  PROVE  <<>> \in Seq(S) /\ ToSet(<<>>) = {} /\ IsInjective(<<>>)
<1>1. <<>> \in Seq(S) /\ Len(<<>>) = 0
  BY EmptySeq
<1>2. DOMAIN <<>> = {}
  BY <1>1, LenProperties
<1> QED BY <1>1, <1>2 DEF ToSet, IsInjective

\* The elements of a queue are of its set.
LEMMA MembersLemma ==
  ASSUME NEW S, NEW q \in Seq(S)
  PROVE  ToSet(q) \subseteq S
<1>1. DOMAIN q = 1..Len(q) /\ \A i \in 1..Len(q) : q[i] \in S
  BY LenProperties, ElementOfSeq
<1> QED BY <1>1 DEF ToSet

\* A queue that is pushed to gains that element only, and stays repetition-free
\* when the element is new to it.
LEMMA PushLemma ==
  ASSUME NEW S, NEW q \in Seq(S), NEW x \in S
  PROVE  /\ Append(q, x) \in Seq(S)
         /\ ToSet(Append(q, x)) = ToSet(q) \cup {x}
         /\ IsInjective(q) /\ x \notin ToSet(q) => IsInjective(Append(q, x))
<1>1. /\ Append(q, x) \in Seq(S) /\ Len(Append(q, x)) = Len(q) + 1
      /\ \A i \in 1..Len(q) : Append(q, x)[i] = q[i]
      /\ Append(q, x)[Len(q) + 1] = x
  BY AppendProperties
<1>2. /\ DOMAIN q = 1..Len(q) /\ Len(q) \in Nat
      /\ DOMAIN Append(q, x) = 1..(Len(q) + 1)
  BY <1>1, LenProperties
<1>3. ToSet(Append(q, x)) = ToSet(q) \cup {x}
  BY <1>1, <1>2 DEF ToSet
<1>4. IsInjective(q) /\ x \notin ToSet(q) => IsInjective(Append(q, x))
  BY <1>1, <1>2 DEF ToSet, IsInjective
<1> QED BY <1>1, <1>3, <1>4

\* What was pushed was new to a queue that has no repetitions afterwards.
LEMMA UnpushLemma ==
  ASSUME NEW S, NEW q \in Seq(S), NEW x \in S, IsInjective(Append(q, x))
  PROVE  IsInjective(q) /\ x \notin ToSet(q)
<1> DEFINE t == Append(q, x)
           n == Len(q)
<1>1. /\ t \in Seq(S) /\ Len(t) = n + 1 /\ \A i \in 1..n : t[i] = q[i]
      /\ t[n + 1] = x /\ IsInjective(t)
  BY AppendProperties
<1>2. DOMAIN q = 1..n /\ n \in Nat /\ DOMAIN t = 1..(n + 1)
  BY <1>1, LenProperties
<1> HIDE DEF t, n
<1>3. \A i, j \in 1..(n + 1) : t[i] = t[j] => i = j
  BY <1>1, <1>2 DEF IsInjective
<1>4. IsInjective(q)
  BY <1>1, <1>2, <1>3 DEF IsInjective
<1>5. x \notin ToSet(q)
  <2>1. \A i \in 1..n : i \in 1..(n + 1) /\ n + 1 \in 1..(n + 1) /\ i # n + 1
    BY <1>2
  <2> QED BY <1>1, <1>2, <1>3, <2>1 DEF ToSet
<1> QED BY <1>4, <1>5

\* Induction over a list: a set of lists that has the empty one and is closed
\* under pushing has them all.
LEMMA ListInduction ==
  ASSUME NEW S, NEW Good, <<>> \in Good,
         \A q \in Seq(S), x \in S : q \in Good => Append(q, x) \in Good
  PROVE  \A q \in Seq(S) : q \in Good
<1> DEFINE Bad == {n \in Nat : \E q \in Seq(S) : q \notin Good /\ Len(q) = n}
<1>1. SUFFICES ASSUME NEW r \in Seq(S), r \notin Good PROVE FALSE
  OBVIOUS
<1>2. Bad \in SUBSET Nat /\ Len(r) \in Bad
  BY <1>1, LenProperties
<1>3. PICK n \in Bad : \A m \in Bad : n <= m
  BY <1>2, LeastLemma
<1>4. PICK q \in Seq(S) : q \notin Good /\ Len(q) = n
  BY <1>3
<1>5. PICK t \in Seq(S), x \in S : q = Append(t, x)
  BY <1>4, SequenceEmptyOrAppend
<1>6. t \notin Good /\ Len(q) = Len(t) + 1 /\ Len(t) \in Nat
  BY <1>4, <1>5, AppendProperties, LenProperties
<1>7. Len(t) \in Bad
  BY <1>6
<1> QED BY <1>3, <1>4, <1>6, <1>7

\* A non-empty queue that is shifted loses its head and nothing else.
LEMMA ShiftLemma ==
  ASSUME NEW S, NEW q \in Seq(S), q # <<>>, IsInjective(q)
  PROVE  /\ Head(q) \in S /\ Tail(q) \in Seq(S)
         /\ Head(q) \in ToSet(q)
         /\ ToSet(Tail(q)) = ToSet(q) \ {Head(q)}
         /\ IsInjective(Tail(q))
<1>1. /\ Head(q) \in S /\ Tail(q) \in Seq(S) /\ Len(Tail(q)) = Len(q) - 1
      /\ \A i \in 1..Len(Tail(q)) : Tail(q)[i] = q[i + 1]
  BY HeadTailProperties
<1>2. /\ Head(q) = q[1] /\ Len(q) \in Nat /\ Len(q) > 0
      /\ DOMAIN q = 1..Len(q) /\ DOMAIN Tail(q) = 1..(Len(q) - 1)
  BY <1>1, LenProperties, EmptySeq
<1>3. \A i \in 2..Len(q) : i - 1 \in 1..(Len(q) - 1) /\ Tail(q)[i - 1] = q[i]
  BY <1>1, <1>2
<1>4. ToSet(Tail(q)) = ToSet(q) \ {Head(q)}
  <2>1. ASSUME NEW y \in ToSet(Tail(q)) PROVE y \in ToSet(q) \ {Head(q)}
    BY <1>1, <1>2 DEF ToSet, IsInjective
  <2>2. ASSUME NEW y \in ToSet(q), y # Head(q) PROVE y \in ToSet(Tail(q))
    <3>1. PICK i \in 1..Len(q) : q[i] = y
      BY <1>2 DEF ToSet
    <3>2. i \in 2..Len(q)
      BY <3>1, <2>2, <1>2
    <3> QED BY <3>1, <3>2, <1>3, <1>2 DEF ToSet
  <2> QED BY <2>1, <2>2
<1>5. IsInjective(Tail(q))
  BY <1>1, <1>2 DEF IsInjective
<1>6. Head(q) \in ToSet(q)
  BY <1>2 DEF ToSet
<1> QED BY <1>1, <1>4, <1>5, <1>6

\* A queue of which the first n are served keeps the others.
LEMMA DropLemma ==
  ASSUME NEW S, NEW q \in Seq(S), IsInjective(q), NEW n \in 0..Len(q)
  PROVE  LET r == SubSeq(q, n + 1, Len(q))
         IN /\ r \in Seq(S) /\ Len(r) <= Len(q) /\ IsInjective(r)
            /\ ToSet(r) = ToSet(q) \ {q[i] : i \in 1..n}
<1> DEFINE l == Len(q)
           r == SubSeq(q, n + 1, l)
<1>1. l \in Nat /\ DOMAIN q = 1..l /\ \A i \in 1..l : q[i] \in S
  BY LenProperties, ElementOfSeq
<1>2. n \in Nat /\ n <= l /\ \A i \in (n + 1)..l : i \in 1..l
  BY <1>1
<1>3. /\ r \in Seq(S) /\ Len(r) = IF n + 1 <= l THEN l - (n + 1) + 1 ELSE 0
      /\ \A i \in 1..(l - (n + 1) + 1) : r[i] = q[(n + 1) + i - 1]
  BY <1>1, <1>2, SubSeqProperties
<1> HIDE DEF l, r
<1>4. Len(r) = l - n
  BY <1>1, <1>2, <1>3
<1>5. ASSUME NEW i \in 1..(l - n) PROVE r[i] = q[n + i] /\ n + i \in 1..l
  <2>1. i \in 1..(l - (n + 1) + 1) /\ (n + 1) + i - 1 = n + i /\ n + i \in 1..l
    BY <1>1, <1>2
  <2> QED BY <1>3, <2>1
<1>6. DOMAIN r = 1..(l - n)
  BY <1>3, <1>4, LenProperties
<1>7. \A i, j \in 1..l : q[i] = q[j] => i = j
  BY <1>1 DEF IsInjective
<1>8. IsInjective(r)
  <2>1. SUFFICES ASSUME NEW i \in 1..(l - n), NEW j \in 1..(l - n), r[i] = r[j] PROVE i = j
    BY <1>6 DEF IsInjective
  <2>2. n + i = n + j
    BY <1>5, <1>7, <2>1
  <2> QED BY <1>1, <1>2, <2>2
<1>9. ToSet(r) = ToSet(q) \ {q[i] : i \in 1..n}
  <2>1. ASSUME NEW y \in ToSet(r) PROVE y \in ToSet(q) \ {q[i] : i \in 1..n}
    <3>1. PICK i \in 1..(l - n) : r[i] = y
      BY <1>6 DEF ToSet
    <3>2. y = q[n + i] /\ n + i \in 1..l
      BY <1>5, <3>1
    <3>3. ASSUME NEW j \in 1..n PROVE q[j] # y
      <4>1. j \in 1..l /\ j # n + i
        BY <1>1, <1>2
      <4> QED BY <1>7, <3>2, <4>1
    <3> QED BY <1>1, <3>2, <3>3 DEF ToSet
  <2>2. ASSUME NEW y \in ToSet(q), y \notin {q[i] : i \in 1..n} PROVE y \in ToSet(r)
    <3>1. PICK i \in 1..l : q[i] = y
      BY <1>1 DEF ToSet
    <3>2. i \notin 1..n
      BY <2>2, <3>1
    <3>3. i - n \in 1..(l - n) /\ n + (i - n) = i
      BY <1>1, <1>2, <3>2
    <3>4. r[i - n] = y
      BY <1>5, <3>1, <3>3
    <3> QED BY <1>6, <3>3, <3>4 DEF ToSet
  <2> QED BY <2>1, <2>2
<1>10. Len(r) <= l
  BY <1>1, <1>2, <1>4
<1>11. r = SubSeq(q, n + 1, Len(q)) /\ l = Len(q)
  BY DEF l, r
<1> QED BY ONLY <1>3, <1>8, <1>9, <1>10, <1>11

\* splice(indexOf(x), 1): x leaves the queue, and nothing else does.
LEMMA SpliceLemma ==
  ASSUME NEW S, NEW q \in Seq(S), NEW x, IsInjective(q)
  PROVE  /\ RemoveFirst(q, x) \in Seq(S)
         /\ ToSet(RemoveFirst(q, x)) = ToSet(q) \ {x}
         /\ IsInjective(RemoveFirst(q, x))
         /\ x \in ToSet(q) =>
              \E k \in 1..Len(q) : q[k] = x /\ RemoveFirst(q, x) = RemoveAt(q, k)
         /\ Len(RemoveFirst(q, x)) = IF x \in ToSet(q) THEN Len(q) - 1 ELSE Len(q)
<1>0. DOMAIN q = 1..Len(q) /\ Len(q) \in Nat
  BY LenProperties
<1>1. CASE x \notin ToSet(q)
  BY <1>0, <1>1 DEF RemoveFirst, ToSet
<1>2. CASE x \in ToSet(q)
  <2>1. PICK k \in 1..Len(q) : q[k] = x
    BY <1>2, <1>0 DEF ToSet
  <2>2. RemoveFirst(q, x) = RemoveAt(q, k)
    <3>1. \A j \in 1..Len(q) : q[j] = x => j = k
      BY <2>1, <1>0 DEF IsInjective
    <3>2. {j \in 1..Len(q) : q[j] = x} = {k}
      BY <2>1, <3>1
    <3>3. Min({k}) = k
      BY <2>1, <1>0 DEF Min
    <3>4. SelectInSeq(q, LAMBDA v : v = x) = k
      BY <3>2, <3>3 DEF SelectInSeq
    <3> QED BY <3>4, <2>1 DEF RemoveFirst
  <2> DEFINE n == Len(q)
             a == SubSeq(q, 1, k - 1)
             b == SubSeq(q, k + 1, n)
             r == RemoveAt(q, k)
  <2>3. /\ a \in Seq(S) /\ Len(a) = k - 1 /\ \A i \in 1..(k - 1) : a[i] = q[i]
        /\ b \in Seq(S) /\ Len(b) = n - k /\ \A i \in 1..(n - k) : b[i] = q[k + i]
    <3>1. \A i \in 1..(k - 1) : i \in 1..n
      BY <1>0, <2>1
    <3>2. \A i \in (k + 1)..n : i \in 1..n
      BY <1>0, <2>1
    <3>3. \A i \in 1..n : q[i] \in S
      BY <1>0, ElementOfSeq
    <3>4. a \in Seq(S) /\ Len(a) = k - 1 /\ \A i \in 1..(k - 1) : a[i] = q[i]
      BY <1>0, <2>1, <3>1, <3>3, SubSeqProperties
    <3>5. b \in Seq(S) /\ Len(b) = n - k /\ \A i \in 1..(n - k) : b[i] = q[k + i]
      <4>1. /\ b \in Seq(S)
            /\ Len(b) = IF k + 1 <= n THEN n - (k + 1) + 1 ELSE 0
            /\ \A i \in 1..(n - (k + 1) + 1) : b[i] = q[(k + 1) + i - 1]
        BY <1>0, <2>1, <3>2, SubSeqProperties
      <4>2. Len(b) = n - k
        <5> HIDE DEF b
        <5>1. n \in Nat /\ k \in 1..n
          BY <1>0, <2>1
        <5> HIDE DEF n
        <5>2. CASE k + 1 <= n
          BY <4>1, <5>1, <5>2
        <5>3. CASE ~(k + 1 <= n)
          BY <4>1, <5>1, <5>3
        <5> QED BY <5>2, <5>3
      <4>3. ASSUME NEW i \in 1..(n - k) PROVE b[i] = q[k + i]
        <5>1. i \in 1..(n - (k + 1) + 1) /\ (k + 1) + i - 1 = k + i
          BY <1>0, <2>1
        <5> QED BY <5>1, <4>1
      <4> QED BY <4>1, <4>2, <4>3
    <3> QED BY <3>4, <3>5
  <2>4. /\ r \in Seq(S) /\ Len(r) = n - 1
        /\ \A i \in 1..(n - 1) : r[i] = IF i < k THEN q[i] ELSE q[i + 1]
    <3>1. r = a \o b
      BY DEF RemoveAt
    <3>2. /\ a \o b \in Seq(S) /\ Len(a \o b) = Len(a) + Len(b)
          /\ \A i \in 1..(Len(a) + Len(b)) :
               (a \o b)[i] = IF i <= Len(a) THEN a[i] ELSE b[i - Len(a)]
      BY <2>3, ConcatProperties
    <3>3. \A i \in 1..(n - 1) : i >= k => i - (k - 1) \in 1..(n - k)
      BY <1>0, <2>1
    <3> HIDE DEF a, b, r
    <3>4. Len(a) + Len(b) = n - 1
      BY <2>3, <1>0, <2>1
    <3>5. ASSUME NEW i \in 1..(n - 1), i < k PROVE r[i] = q[i]
      <4>1. i \in 1..(Len(a) + Len(b)) /\ i <= Len(a) /\ i \in 1..(k - 1)
        BY <3>5, <3>4, <2>3, <1>0, <2>1
      <4> QED BY <4>1, <3>1, <3>2, <2>3
    <3>6. ASSUME NEW i \in 1..(n - 1), ~(i < k) PROVE r[i] = q[i + 1]
      <4>1. i \in 1..(Len(a) + Len(b)) /\ ~(i <= Len(a))
        BY <3>6, <3>4, <2>3, <1>0, <2>1
      <4>2. r[i] = b[i - (k - 1)]
        BY <4>1, <3>1, <3>2, <2>3
      <4>3. b[i - (k - 1)] = q[k + (i - (k - 1))]
        BY <3>3, <3>6, <2>3, <1>0, <2>1
      <4>4. k + (i - (k - 1)) = i + 1
        BY <1>0, <2>1
      <4> QED BY <4>2, <4>3, <4>4
    <3> QED BY <3>1, <3>2, <3>4, <3>5, <3>6
  <2> HIDE DEF r
  <2>5. DOMAIN r = 1..(n - 1)
    BY <2>4, LenProperties
  <2>6. ToSet(r) = ToSet(q) \ {x}
    <3>1. ASSUME NEW y \in ToSet(r) PROVE y \in ToSet(q) \ {x}
      <4>1. PICK i \in 1..(n - 1) : r[i] = y
        BY <2>5 DEF ToSet
      <4>2. PICK j \in 1..n : q[j] = y /\ j # k
        BY <4>1, <2>4, <1>0, <2>1
      <4> QED BY <4>2, <1>0, <2>1 DEF ToSet, IsInjective
    <3>2. ASSUME NEW y \in ToSet(q), y # x PROVE y \in ToSet(r)
      <4>1. PICK j \in 1..n : q[j] = y
        BY <1>0 DEF ToSet
      <4>2. CASE j < k
        BY <4>1, <4>2, <2>4, <2>5, <1>0, <2>1 DEF ToSet
      <4>3. CASE j > k
        <5>1. j - 1 \in 1..(n - 1) /\ ~(j - 1 < k) /\ (j - 1) + 1 = j
          BY <4>1, <4>3, <1>0, <2>1
        <5>2. r[j - 1] = q[j]
          BY <5>1, <2>4
        <5> QED BY <4>1, <5>1, <5>2, <2>5 DEF ToSet
      <4>4. j # k
        BY <4>1, <3>2, <2>1
      <4> QED BY <4>2, <4>3, <4>4, <1>0, <2>1
    <3> QED BY <3>1, <3>2
  <2>7. IsInjective(r)
    <3>1. SUFFICES ASSUME NEW i \in 1..(n - 1), NEW j \in 1..(n - 1), r[i] = r[j]
                   PROVE  i = j
      BY <2>5 DEF IsInjective
    <3> DEFINE f(m) == IF m < k THEN m ELSE m + 1
    <3>2. \A m \in 1..(n - 1) : f(m) \in 1..n /\ r[m] = q[f(m)]
      BY <2>4, <1>0, <2>1
    <3>3. f(i) = f(j)
      BY <3>1, <3>2, <1>0 DEF IsInjective
    <3> QED BY <3>3, <1>0, <2>1
  <2>8. r = RemoveFirst(q, x) /\ Len(r) = Len(q) - 1
    BY <2>2, <2>4 DEF r
  <2> QED BY ONLY <1>2, <2>1, <2>2, <2>4, <2>6, <2>7, <2>8
<1> QED BY <1>1, <1>2
=============================================================================
