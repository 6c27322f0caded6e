--------------------------- MODULE TracingProofs ---------------------------
(***************************************************************************)
(* Tracing and its exporters for any traces, spans, exporters and calls:   *)
(* what flush() covers, how often initialize() runs, and what the eviction *)
(* of the oldest traces leaves behind.                                     *)
(***************************************************************************)
EXTENDS Tracing, SeqLemmas, FiniteSetTheorems

-----------------------------------------------------------------------------
(***************************************************************************)
(* Filter on lists of any length: the recursive function it is read off    *)
(* exists, so it obeys its two equations, and what follows from them.      *)
(***************************************************************************)
One(kept, x, A) == IF x \in A THEN Append(kept, x) ELSE kept
Kept(f, n, s, A) ==
  f = [i \in 0..n |-> IF i = 0 THEN <<>>
                      ELSE IF s[i] \in A THEN Append(f[i - 1], s[i]) ELSE f[i - 1]]

\* A function that filters the first n elements step by step exists, for every n.
LEMMA KeptExists ==
  ASSUME NEW s, NEW A, NEW n \in Nat
  PROVE  \E f : Kept(f, n, s, A)
<1> DEFINE Bad == {m \in Nat : ~\E f : Kept(f, m, s, A)}
<1>1. SUFFICES ASSUME Bad # {} PROVE FALSE
  OBVIOUS
<1>2. PICK m \in Bad : \A k \in Bad : m <= k
  BY <1>1, LeastLemma
<1>3. m \in Nat /\ ~\E f : Kept(f, m, s, A)
  BY <1>2
<1>4. CASE m = 0
  <2>1. Kept([i \in 0..0 |-> <<>>], 0, s, A)
    BY DEF Kept
  <2> QED BY <1>3, <1>4, <2>1
<1>5. CASE m # 0
  <2>1. m - 1 \in Nat /\ m - 1 \notin Bad
    BY <1>2, <1>3, <1>5
  <2>2. PICK f : Kept(f, m - 1, s, A)
    BY <2>1
  <2> DEFINE g == [i \in 0..m |-> IF i < m THEN f[i] ELSE One(f[m - 1], s[m], A)]
             h == [i \in 0..m |-> IF i = 0 THEN <<>> ELSE One(g[i - 1], s[i], A)]
  <2>3. ASSUME NEW i \in 0..m PROVE g[i] = h[i]
    <3>1. CASE i = 0
      <4>1. f[0] = <<>>
        BY <2>1, <2>2 DEF Kept
      <4> QED BY <1>3, <1>5, <3>1, <4>1
    <3>2. CASE i # 0 /\ i < m
      <4>1. f[i] = One(f[i - 1], s[i], A)
        <5>1. i \in 0..(m - 1)
          BY <1>3, <3>2
        <5> QED BY <5>1, <3>2, <2>2 DEF Kept, One
      <4>2. g[i - 1] = f[i - 1] /\ g[i] = f[i]
        BY <1>3, <3>2
      <4> QED BY <3>2, <4>1, <4>2
    <3>3. CASE i # 0 /\ ~(i < m)
      <4>1. i = m /\ m - 1 \in 0..m /\ m - 1 < m
        BY <1>3, <3>3
      <4>2. g[m - 1] = f[m - 1] /\ g[m] = One(f[m - 1], s[m], A)
        BY <1>3, <4>1
      <4> QED BY <3>3, <4>1, <4>2
    <3> QED BY <3>1, <3>2, <3>3
  <2>4. g = h
    BY <2>3
  <2>5. h = [i \in 0..m |-> IF i = 0 THEN <<>>
                            ELSE IF s[i] \in A THEN Append(g[i - 1], s[i]) ELSE g[i - 1]]
    BY DEF One
  <2> HIDE DEF g, h
  <2>6. Kept(g, m, s, A)
    BY <2>4, <2>5 DEF Kept
  <2> QED BY <1>3, <2>6
<1> QED BY <1>4, <1>5

\* Two such functions agree as far as their lists do.
LEMMA KeptAgree ==
  ASSUME NEW s, NEW t, NEW A, NEW m \in Nat, NEW n \in Nat, m <= n,
         NEW f, NEW g, Kept(f, m, s, A), Kept(g, n, t, A),
         \A i \in 1..m : s[i] = t[i]
  PROVE  \A i \in 0..m : f[i] = g[i]
<1> DEFINE Bad == {i \in 0..m : f[i] # g[i]}
<1>1. SUFFICES ASSUME Bad # {} PROVE FALSE
  OBVIOUS
<1>2. PICK i \in Bad : \A k \in Bad : i <= k
  <2>1. Bad \in SUBSET Nat
    OBVIOUS
  <2> QED BY <1>1, <2>1, LeastLemma
<1>3. i \in 0..m /\ i \in 0..n /\ f[i] # g[i]
  BY <1>2
<1>4. i # 0
  BY <1>3 DEF Kept
<1>5. i - 1 \in 0..m /\ i \in 1..m
  BY <1>3, <1>4
<1>6. f[i - 1] = g[i - 1]
  BY <1>2, <1>5
<1>7. /\ f[i] = IF s[i] \in A THEN Append(f[i - 1], s[i]) ELSE f[i - 1]
      /\ g[i] = IF t[i] \in A THEN Append(g[i - 1], t[i]) ELSE g[i - 1]
  BY <1>3, <1>4 DEF Kept
<1> QED BY <1>3, <1>5, <1>6, <1>7

\* Filter is read off such a function.
LEMMA FilterKept ==
  ASSUME NEW S, NEW s \in Seq(S), NEW A
  PROVE  \E f : Kept(f, Len(s), s, A) /\ Filter(s, A) = f[Len(s)]
<1>1. Len(s) \in Nat
  BY LenProperties
<1>2. \E f : Kept(f, Len(s), s, A)
  BY <1>1, KeptExists
<1> DEFINE f == CHOOSE f : Kept(f, Len(s), s, A)
<1>3. Kept(f, Len(s), s, A)
  BY <1>2
<1>4. Filter(s, A) = f[Len(s)]
  BY DEF Filter, Kept
<1> QED BY <1>3, <1>4

\* Nothing is kept of the empty list.
LEMMA FilterEmpty ==
  ASSUME NEW A
  PROVE  Filter(<<>>, A) = <<>>
<1>1. <<>> \in Seq({}) /\ Len(<<>>) = 0
  BY EmptySeq
<1>2. PICK f : Kept(f, 0, <<>>, A) /\ Filter(<<>>, A) = f[0]
  BY <1>1, FilterKept
<1> QED BY <1>2 DEF Kept

\* The element a list ends with is kept when it is one of A.
LEMMA FilterAppend ==
  ASSUME NEW S, NEW s \in Seq(S), NEW x \in S, NEW A
  PROVE  Filter(Append(s, x), A) = One(Filter(s, A), x, A)
<1> DEFINE t == Append(s, x)
           n == Len(s)
           m == n + 1
<1>1. /\ t \in Seq(S) /\ Len(t) = m /\ n \in Nat
      /\ \A i \in 1..n : s[i] = t[i]
      /\ t[m] = x
  BY AppendProperties, LenProperties
<1>2. m \in Nat /\ n <= m /\ n \in 0..n /\ m \in 0..m /\ m # 0 /\ m - 1 = n
  BY <1>1
<1>3. PICK f : Kept(f, n, s, A) /\ Filter(s, A) = f[n]
  BY FilterKept
<1>4. PICK g : Kept(g, m, t, A) /\ Filter(t, A) = g[m]
  BY <1>1, FilterKept
<1> HIDE DEF t, n, m
<1>5. \A i \in 0..n : f[i] = g[i]
  <2>1. n \in Nat /\ m \in Nat /\ n <= m
    BY <1>1, <1>2
  <2>2. Kept(f, n, s, A)
    BY <1>3
  <2>3. Kept(g, m, t, A)
    BY <1>4
  <2>4. \A i \in 1..n : s[i] = t[i]
    BY <1>1
  <2> QED BY ONLY <2>1, <2>2, <2>3, <2>4, KeptAgree
<1>6. g[m] = IF t[m] \in A THEN Append(g[n], t[m]) ELSE g[n]
  BY <1>2, <1>4 DEF Kept
<1>7. Filter(t, A) = One(Filter(s, A), x, A)
  BY <1>1, <1>2, <1>3, <1>4, <1>5, <1>6 DEF One
<1> QED BY <1>7 DEF t

\* Filter keeps the elements of A, each where it was in the order of the others;
\* the list gets shorter unless all are kept.
LEMMA FilterLemma ==
  ASSUME NEW S, NEW A, NEW s \in Seq(S)
  PROVE  /\ Filter(s, A) \in Seq(S)
         /\ ToSet(Filter(s, A)) = ToSet(s) \cap A
         /\ IsInjective(s) => IsInjective(Filter(s, A))
         /\ IF ToSet(s) \subseteq A THEN Filter(s, A) = s ELSE Len(Filter(s, A)) < Len(s)
<1> DEFINE P(q) == /\ Filter(q, A) \in Seq(S)
                   /\ ToSet(Filter(q, A)) = ToSet(q) \cap A
                   /\ IsInjective(q) => IsInjective(Filter(q, A))
                   /\ IF ToSet(q) \subseteq A THEN Filter(q, A) = q
                                            ELSE Len(Filter(q, A)) < Len(q)
           Good == {q \in Seq(S) : P(q)}
<1>1. <<>> \in Good
  BY FilterEmpty, NoneLemma
<1>2. ASSUME NEW q \in Seq(S), NEW x \in S, P(q) PROVE P(Append(q, x))
  <2> DEFINE t == Append(q, x)
             F == Filter(q, A)
  <2>1. /\ t \in Seq(S) /\ Len(t) = Len(q) + 1
        /\ ToSet(t) = ToSet(q) \cup {x}
        /\ IsInjective(t) => IsInjective(q) /\ x \notin ToSet(q)
    BY AppendProperties, PushLemma, UnpushLemma
  <2>2. Len(q) \in Nat /\ Len(F) \in Nat
    BY <1>2, LenProperties
  <2>3. CASE x \in A
    <3>1. Filter(t, A) = Append(F, x)
      BY <2>3, FilterAppend DEF One
    <3>2. /\ Append(F, x) \in Seq(S) /\ Len(Append(F, x)) = Len(F) + 1
          /\ ToSet(Append(F, x)) = ToSet(F) \cup {x}
          /\ IsInjective(F) /\ x \notin ToSet(F) => IsInjective(Append(F, x))
      BY <1>2, AppendProperties, PushLemma
    <3> HIDE DEF t, F
    <3>3. IF ToSet(t) \subseteq A THEN Append(F, x) = t ELSE Len(Append(F, x)) < Len(t)
      <4>1. CASE ToSet(q) \subseteq A
        BY <1>2, <2>1, <2>3, <4>1 DEF F, t
      <4>2. CASE ~(ToSet(q) \subseteq A)
        <5>1. Len(F) < Len(q)
          BY <1>2, <4>2 DEF F
        <5> QED BY <2>1, <2>2, <3>2, <4>2, <5>1
      <4> QED BY <4>1, <4>2
    <3>4. ToSet(F) = ToSet(q) \cap A /\ (IsInjective(q) => IsInjective(F))
      BY <1>2 DEF F
    <3>5. P(t)
      BY <2>1, <2>3, <3>1, <3>2, <3>3, <3>4
    <3> QED BY <3>5 DEF t
  <2>4. CASE x \notin A
    <3>1. Filter(t, A) = F
      BY <2>4, FilterAppend DEF One
    <3>2. Len(F) <= Len(q)
      BY <1>2, <2>2
    <3>3. /\ F \in Seq(S) /\ ToSet(F) = ToSet(q) \cap A
          /\ IsInjective(q) => IsInjective(F)
      BY <1>2
    <3> HIDE DEF t, F
    <3>4. Len(F) < Len(t)
      BY <2>1, <2>2, <3>2
    <3>5. P(t)
      BY <2>1, <2>4, <3>1, <3>3, <3>4
    <3> QED BY <3>5 DEF t
  <2> QED BY <2>3, <2>4
<1>3. \A q \in Seq(S), x \in S : q \in Good => Append(q, x) \in Good
  BY <1>2, AppendProperties
<1> HIDE DEF Good
<1>4. s \in Good
  BY <1>1, <1>3, ListInduction
<1> QED BY <1>4 DEF Good

\* Filtering twice is filtering once, by what both keep.
LEMMA FilterTwice ==
  ASSUME NEW S, NEW A, NEW B, NEW s \in Seq(S)
  PROVE  Filter(Filter(s, A), B) = Filter(s, A \cap B)
<1> DEFINE Good == {q \in Seq(S) : Filter(Filter(q, A), B) = Filter(q, A \cap B)}
<1>1. <<>> \in Good
  BY FilterEmpty, EmptySeq
<1>2. ASSUME NEW q \in Seq(S), NEW x \in S, q \in Good PROVE Append(q, x) \in Good
  <2>1. Filter(q, A) \in Seq(S) /\ Append(q, x) \in Seq(S)
    BY FilterLemma, AppendProperties
  <2>2. /\ Filter(Append(q, x), A) = One(Filter(q, A), x, A)
        /\ Filter(Append(q, x), A \cap B) = One(Filter(q, A \cap B), x, A \cap B)
    BY FilterAppend
  <2>3. Filter(Append(Filter(q, A), x), B) = One(Filter(Filter(q, A), B), x, B)
    BY <2>1, FilterAppend
  <2>4. Filter(Filter(q, A), B) = Filter(q, A \cap B)
    BY <1>2
  <2>5. Filter(Filter(Append(q, x), A), B) = Filter(Append(q, x), A \cap B)
    <3>1. CASE x \in A
      <4>1. Filter(Append(q, x), A) = Append(Filter(q, A), x)
        BY <2>2, <3>1 DEF One
      <4>2. x \in B <=> x \in A \cap B
        BY <3>1
      <4> QED BY <2>2, <2>3, <2>4, <4>1, <4>2 DEF One
    <3>2. CASE x \notin A
      <4>1. x \notin A \cap B /\ Filter(Append(q, x), A) = Filter(q, A)
        BY <2>2, <3>2 DEF One
      <4> QED BY <2>2, <2>4, <4>1 DEF One
    <3> QED BY <3>1, <3>2
  <2> QED BY <2>1, <2>5
<1> HIDE DEF Good
<1>3. s \in Good
  BY <1>1, <1>2, ListInduction
<1> QED BY <1>3 DEF Good

-----------------------------------------------------------------------------
(***************************************************************************)
(* The exporters.                                                          *)
(***************************************************************************)

\* The runs of initialize() of e that are not behind its lazy value: each was
\* cut off from it by a dispose(). No run has the number of a later one.
OldRuns(e) == {k \in 1..MaxInits : <<e, k>> \in running /\ k # lazy[e]}
InitInv == \A e \in All : /\ lazy[e] <= inits[e]
                          /\ \A k \in 1..MaxInits : <<e, k>> \in running => k <= inits[e]
                          /\ Cardinality(OldRuns(e)) <= resets

\* What a flush() or a dispose() owes is pending, and once it flushes in time it
\* owes nothing.
OwedInv == /\ pending = Unsettled
           /\ \A d \in Drains : owed[d] \subseteq Unsettled
           /\ FlushCovers

ExportersInv == ExportersTypeOK /\ InitInv /\ OwedInv

\* There are finitely many exporters.
LEMMA AllFinite == IsFiniteSet(All)
<1> DEFINE n == Len(Exporters)
<1>1. n \in Nat /\ Exporters \in [1..n -> All] /\ IsFiniteSet(1..n)
  BY ExportersAssumption, LenProperties, FS_Interval
<1>2. Exporters \in Surjection(1..n, All)
  BY <1>1 DEF Surjection, All
<1> QED BY <1>1, <1>2, FS_Surjection

\* SetToSeq lists the elements of a finite set.
LEMMA ListedLemma ==
  ASSUME NEW S, IsFiniteSet(S)
  PROVE  Cardinality(S) \in Nat /\ SetToSeq(S) \in [1..Cardinality(S) -> S]
<1> DEFINE n == Cardinality(S)
<1>1. n \in Nat /\ ExistsBijection(1..n, S)
  BY FS_CardinalityType
<1>2. PICK f : f \in Bijection(1..n, S)
  BY <1>1 DEF ExistsBijection
<1>3. f \in [1..n -> S] /\ IsInjective(f)
  <2>1. f \in [1..n -> S] /\ \A a, b \in 1..n : f[a] = f[b] => a = b
    BY <1>2 DEF Bijection, Injection, IsInjective
  <2> QED BY <2>1 DEF IsInjective
<1>4. \E g \in [1..n -> S] : IsInjective(g)
  BY <1>3
<1> QED BY <1>1, <1>4 DEF SetToSeq

\* New promises are waiting, and each is for one of the exporters of S.
LEMMA NewJobsLemma ==
  ASSUME NEW S \in SUBSET All, NEW export \in BOOLEAN, lazy' \in [All -> 0..MaxInits]
  PROVE  /\ Cardinality(S) \in Nat
         /\ NewJobs(S, export) \in Seq(Promises)
         /\ Len(NewJobs(S, export)) = Cardinality(S)
         /\ \A i \in 1..Cardinality(S) : NewJobs(S, export)[i].at = "waiting"
<1> DEFINE n == Cardinality(S)
           e(i) == [to |-> SetToSeq(S)[i], export |-> export, at |-> "waiting",
                    init |-> lazy'[SetToSeq(S)[i]]]
<1>1. IsFiniteSet(S)
  BY AllFinite, FS_Subset
<1>2. n \in Nat /\ \A i \in 1..n : SetToSeq(S)[i] \in S
  BY <1>1, ListedLemma
<1>3. \A i \in 1..n : e(i) \in Promises
  BY <1>2 DEF Promises
<1>4. NewJobs(S, export) = [i \in 1..n |-> e(i)]
  BY DEF NewJobs
<1> HIDE DEF n
<1>5. NewJobs(S, export) \in [1..n -> Promises]
  BY <1>3, <1>4
<1>6. \A i \in 1..n : NewJobs(S, export)[i].at = "waiting"
  BY <1>4
<1>7. /\ NewJobs(S, export) \in Seq(Promises) /\ Len(NewJobs(S, export)) = n
  <2>1. NewJobs(S, export) \in Seq(Promises)
    BY <1>2, <1>5, SeqDef
  <2> QED BY <1>2, <1>5, <2>1, LenProperties
<1> QED BY <1>2, <1>6, <1>7 DEF n

\* Tracked promises are pending and unsettled; the earlier ones are as they were.
LEMMA TrackLemma ==
  ASSUME ExportersTypeOK, pending = Unsettled,
         NEW S \in SUBSET All, NEW export \in BOOLEAN, lazy' \in [All -> 0..MaxInits],
         Track(S, export)
  PROVE  /\ begun' \in 0..MaxJobs /\ begun <= begun' /\ pending' \subseteq 1..begun'
         /\ job' \in Seq(Promises) /\ Len(job') = begun'
         /\ pending' = Unsettled' /\ Unsettled \subseteq Unsettled'
<1> DEFINE n == Cardinality(S)
           new == NewJobs(S, export)
<1>1. /\ n \in Nat /\ new \in Seq(Promises) /\ Len(new) = n
      /\ \A i \in 1..n : new[i].at = "waiting"
  BY NewJobsLemma
<1>2. /\ begun + n <= MaxJobs /\ job' = job \o new /\ begun' = begun + n
      /\ pending' = pending \cup (begun + 1)..(begun + n)
  BY DEF Track
<1>3. /\ begun \in 0..MaxJobs /\ MaxJobs \in Nat
      /\ job \in Seq(Promises) /\ Len(job) = begun
  BY ExportersAssumption DEF ExportersTypeOK
<1> HIDE DEF n, new
<1>4. /\ begun' \in 0..MaxJobs /\ begun <= begun'
  BY <1>1, <1>2, <1>3
<1>5. /\ job' \in Seq(Promises) /\ Len(job') = begun + n
      /\ \A i \in 1..(begun + n) :
           job'[i] = IF i <= begun THEN job[i] ELSE new[i - begun]
  BY <1>1, <1>2, <1>3, ConcatProperties
<1>6. \A i \in 1..begun : i \in 1..(begun + n) /\ i <= begun
  BY <1>1, <1>3
<1>7. \A i \in (begun + 1)..(begun + n) : /\ i \in 1..(begun + n) /\ ~(i <= begun)
                                          /\ i - begun \in 1..n
  BY <1>1, <1>3
<1>8. \A i \in 1..(begun + n) : i \in 1..begun \/ i \in (begun + 1)..(begun + n)
  BY <1>1, <1>3
<1>9. Unsettled' = Unsettled \cup (begun + 1)..(begun + n)
  <2>1. \A i \in 1..begun : job'[i] = job[i]
    BY <1>5, <1>6
  <2>2. \A i \in (begun + 1)..(begun + n) : job'[i].at = "waiting"
    BY <1>1, <1>5, <1>7
  <2>3. Unsettled' = {i \in 1..(begun + n) : job'[i].at # "settled"}
    BY <1>2 DEF Unsettled
  <2> QED BY <1>6, <1>7, <1>8, <2>1, <2>2, <2>3 DEF Unsettled
<1>10. pending' \subseteq 1..begun'
  BY <1>2, <1>6, <1>7 DEF Unsettled
<1> QED BY <1>2, <1>4, <1>5, <1>9, <1>10

\* ensureInitialized(): whoever finds no cached promise begins the next run and
\* caches it.
LEMMA EnsureLemma ==
  ASSUME ExportersTypeOK, InitInv, NEW S \in SUBSET All, Ensure(S), resets' = resets
  PROVE  /\ lazy' \in [All -> 0..MaxInits] /\ inits' \in [All -> 0..MaxInits]
         /\ running' \subseteq (All \X (1..MaxInits))
         /\ InitInv'
<1>1. /\ lazy \in [All -> 0..MaxInits] /\ inits \in [All -> 0..MaxInits]
      /\ running \subseteq (All \X (1..MaxInits)) /\ MaxInits \in Nat
      /\ Fresh(S) \subseteq All
  BY ExportersAssumption DEF ExportersTypeOK, Fresh
<1>2. ASSUME NEW e \in All, e \in Fresh(S)
      PROVE  /\ inits[e] + 1 \in 1..MaxInits /\ lazy[e] = 0
             /\ inits'[e] = inits[e] + 1 /\ lazy'[e] = inits[e] + 1
  <2>1. inits[e] \in 0..MaxInits /\ inits[e] < MaxInits
    BY <1>1, <1>2 DEF Ensure
  <2> QED BY <1>1, <1>2, <2>1 DEF Ensure, Fresh
<1>3. ASSUME NEW e \in All, e \notin Fresh(S)
      PROVE  inits'[e] = inits[e] /\ lazy'[e] = lazy[e]
  <2>1. inits[e] \in 0..MaxInits
    BY <1>1
  <2> QED BY <1>1, <1>3, <2>1 DEF Ensure
<1>4. inits' \in [All -> 0..MaxInits]
  <2>1. \A e \in All : inits'[e] \in 0..MaxInits
    BY <1>1, <1>2, <1>3
  <2> QED BY <2>1 DEF Ensure
<1>5. lazy' \in [All -> 0..MaxInits]
  <2>1. \A e \in All : lazy'[e] \in 0..MaxInits
    BY <1>1, <1>2, <1>3
  <2> QED BY <2>1 DEF Ensure
<1>6. running' = running \cup {<<e, inits[e] + 1>> : e \in Fresh(S)}
  BY DEF Ensure
<1>7. running' \subseteq (All \X (1..MaxInits))
  BY <1>1, <1>2, <1>6
<1>8. ASSUME NEW e \in All
      PROVE  /\ lazy'[e] <= inits'[e]
             /\ \A k \in 1..MaxInits : <<e, k>> \in running' => k <= inits'[e]
             /\ Cardinality(OldRuns(e)') <= resets'
  <2>1. /\ lazy[e] <= inits[e] /\ Cardinality(OldRuns(e)) <= resets
        /\ inits[e] \in 0..MaxInits /\ lazy[e] \in 0..MaxInits
        /\ \A k \in 1..MaxInits : <<e, k>> \in running => k <= inits[e]
    BY <1>1 DEF InitInv
  <2>2. CASE e \in Fresh(S)
    <3>1. \A k : <<e, k>> \in running' <=> <<e, k>> \in running \/ k = inits[e] + 1
      BY <1>6, <2>2
    <3>2. OldRuns(e)' = OldRuns(e)
      <4>1. OldRuns(e)' = {k \in 1..MaxInits : <<e, k>> \in running' /\ k # inits[e] + 1}
        BY <1>2, <2>2 DEF OldRuns
      <4>2. \A k \in 1..MaxInits : <<e, k>> \in running => k # inits[e] + 1 /\ k # lazy[e]
        BY <1>2, <2>1, <2>2
      <4> QED BY <3>1, <4>1, <4>2 DEF OldRuns
    <3>3. \A k \in 1..MaxInits : <<e, k>> \in running' => k <= inits'[e]
      BY <1>2, <2>1, <2>2, <3>1
    <3> QED BY <1>2, <2>1, <2>2, <3>2, <3>3
  <2>3. CASE e \notin Fresh(S)
    <3>1. \A k : <<e, k>> \in running' <=> <<e, k>> \in running
      BY <1>6, <2>3
    <3>2. OldRuns(e)' = OldRuns(e)
      BY <1>3, <2>3, <3>1 DEF OldRuns
    <3> QED BY <1>3, <2>1, <2>3, <3>1, <3>2
  <2> QED BY <2>2, <2>3
<1>9. InitInv'
  BY <1>8 DEF InitInv
<1> QED BY <1>4, <1>5, <1>7, <1>9

\* New exports and new promises to initialize owe nobody anything yet.
LEMMA BeginLemma ==
  ASSUME ExportersInv, NEW S \in SUBSET All, NEW export \in BOOLEAN,
         Ensure(S), Track(S, export), UNCHANGED <<resets, drain, owed>>
  PROVE  ExportersInv'
<1>1. /\ lazy' \in [All -> 0..MaxInits] /\ inits' \in [All -> 0..MaxInits]
      /\ running' \subseteq (All \X (1..MaxInits)) /\ InitInv'
  BY EnsureLemma DEF ExportersInv
<1>2. /\ begun' \in 0..MaxJobs /\ pending' \subseteq 1..begun'
      /\ job' \in Seq(Promises) /\ Len(job') = begun'
      /\ pending' = Unsettled' /\ Unsettled \subseteq Unsettled'
  BY <1>1, TrackLemma DEF ExportersInv, OwedInv
<1>3. ExportersTypeOK'
  BY <1>1, <1>2 DEF ExportersInv, ExportersTypeOK
<1>4. OwedInv'
  BY <1>2 DEF ExportersInv, OwedInv, FlushCovers
<1> QED BY <1>1, <1>3, <1>4 DEF ExportersInv

LEMMA ExportLemma == ExportersInv /\ (Export \/ InitializeAll) => ExportersInv'
<1> SUFFICES ASSUME ExportersInv, Export \/ InitializeAll PROVE ExportersInv'
  OBVIOUS
<1>1. PICK S \in SUBSET All, export \in BOOLEAN :
        Ensure(S) /\ Track(S, export) /\ UNCHANGED <<resets, drain, owed>>
  BY DEF Export, InitializeAll
<1> QED BY <1>1, BeginLemma

\* A run of initialize() ends: if it failed, the next caller starts another.
LEMMA InitializedLemma ==
  ASSUME ExportersInv, NEW e \in All, NEW k \in 1..MaxInits, NEW ok \in BOOLEAN,
         Initialized(e, k, ok)
  PROVE  ExportersInv'
<1>1. /\ lazy \in [All -> 0..MaxInits] /\ running \subseteq (All \X (1..MaxInits))
      /\ <<e, k>> \in running /\ running' = running \ {<<e, k>>}
      /\ \A x \in All : lazy[x] \in 0..MaxInits
  BY DEF ExportersInv, ExportersTypeOK, Initialized
<1>2. /\ lazy' \in [All -> 0..MaxInits] /\ running' \subseteq (All \X (1..MaxInits))
      /\ \A x \in All : lazy'[x] = lazy[x] \/ (x = e /\ lazy[x] = k /\ lazy'[x] = 0)
  BY <1>1, ExportersAssumption DEF Initialized
<1>3. ExportersTypeOK'
  BY <1>2 DEF ExportersInv, ExportersTypeOK, Initialized
<1>4. ASSUME NEW x \in All
      PROVE  /\ lazy'[x] <= inits'[x]
             /\ \A j \in 1..MaxInits : <<x, j>> \in running' => j <= inits'[x]
             /\ Cardinality(OldRuns(x)') <= resets'
  <2>1. /\ lazy[x] <= inits[x] /\ Cardinality(OldRuns(x)) <= resets
        /\ lazy[x] \in 0..MaxInits /\ inits[x] \in 0..MaxInits /\ resets \in Nat
        /\ \A j \in 1..MaxInits : <<x, j>> \in running => j <= inits[x]
    BY DEF ExportersInv, ExportersTypeOK, InitInv
  <2>2. inits' = inits /\ resets' = resets
    BY DEF Initialized
  <2>3. IsFiniteSet(OldRuns(x))
    <3>1. IsFiniteSet(1..MaxInits) /\ OldRuns(x) \subseteq 1..MaxInits
      BY FS_Interval, ExportersAssumption DEF OldRuns
    <3> QED BY <3>1, FS_Subset
  <2>4. OldRuns(x)' \subseteq OldRuns(x)
    <3>1. OldRuns(x)' = {j \in 1..MaxInits : <<x, j>> \in running' /\ j # lazy'[x]}
      BY DEF OldRuns
    <3>2. \A j \in 1..MaxInits : <<x, j>> \in running' /\ j # lazy'[x] => j # lazy[x]
      BY <1>1, <1>2
    <3> QED BY <1>1, <3>1, <3>2 DEF OldRuns
  <2>5. Cardinality(OldRuns(x)') \in Nat /\ Cardinality(OldRuns(x)) \in Nat
        /\ Cardinality(OldRuns(x)') <= Cardinality(OldRuns(x))
    BY <2>3, <2>4, FS_Subset, FS_CardinalityType
  <2> QED BY <1>1, <1>2, <2>1, <2>2, <2>5
<1>5. InitInv'
  BY <1>4 DEF InitInv
<1>6. OwedInv'
  BY DEF ExportersInv, OwedInv, FlushCovers, Unsettled, Initialized
<1> QED BY <1>3, <1>5, <1>6 DEF ExportersInv

\* A promise that moves on: the exporter is called, or it settles and is no longer
\* pending, nor owed to anyone.
LEMMA JobLemma ==
  ASSUME ExportersInv, NEW n \in Jobs, CallExporter(n) \/ SettleJob(n)
  PROVE  ExportersInv'
<1>1. /\ n \in 1..begun /\ n \in 1..Len(job) /\ job \in Seq(Promises) /\ Len(job) = begun
      /\ begun \in 0..MaxJobs /\ MaxJobs \in Nat /\ MaxInits \in Nat
  BY ExportersAssumption DEF ExportersInv, ExportersTypeOK, CallExporter, SettleJob
<1>2. job[n] \in Promises
  BY <1>1, ElementOfSeq
<1>3. InitInv'
  BY DEF ExportersInv, InitInv, OldRuns, CallExporter, SettleJob
<1>4. CASE CallExporter(n)
  <2> DEFINE p == [job[n] EXCEPT !.at = "out"]
  <2>1. p \in Promises /\ job' = [job EXCEPT ![n] = p] /\ p.at = "out"
    BY <1>2, <1>4 DEF CallExporter, Promises
  <2>2. /\ job' \in Seq(Promises) /\ Len(job') = begun
        /\ \A i \in 1..begun : job'[i] = IF i = n THEN p ELSE job[i]
    BY <1>1, <2>1, ExceptSeq
  <2>3. Unsettled' = Unsettled
    BY <1>1, <1>4, <2>1, <2>2 DEF Unsettled, CallExporter
  <2>4. ExportersTypeOK'
    BY <1>4, <2>2 DEF ExportersInv, ExportersTypeOK, CallExporter
  <2>5. OwedInv'
    BY <1>4, <2>3 DEF ExportersInv, OwedInv, FlushCovers, CallExporter
  <2> QED BY <1>3, <2>4, <2>5 DEF ExportersInv
<1>5. CASE SettleJob(n)
  <2> DEFINE p == [job[n] EXCEPT !.at = "settled", !.init = 0]
  <2>1. p \in Promises /\ job' = [job EXCEPT ![n] = p] /\ p.at = "settled"
    <3>1. p \in Promises /\ p.at = "settled"
      <4>1. 0 \in 0..MaxInits
        BY <1>1
      <4> HIDE <1>1
      <4> QED BY <1>2, <4>1 DEF Promises
    <3>2. job' = [job EXCEPT ![n] = p]
      BY <1>5 DEF SettleJob
    <3> QED BY <3>1, <3>2
  <2>2. /\ job' \in Seq(Promises) /\ Len(job') = begun
        /\ \A i \in 1..begun : job'[i] = IF i = n THEN p ELSE job[i]
    BY <1>1, <2>1, ExceptSeq
  <2>3. Unsettled' = Unsettled \ {n}
    BY <1>1, <1>5, <2>1, <2>2 DEF Unsettled, SettleJob
  <2>4. owed' = [d \in Drains |-> owed[d] \ {n}] /\ pending' = pending \ {n}
    BY <1>5 DEF SettleJob
  <2>5. ExportersTypeOK'
    BY <1>5, <2>2, <2>4 DEF ExportersInv, ExportersTypeOK, SettleJob
  <2>6. OwedInv'
    BY <1>5, <2>3, <2>4 DEF ExportersInv, OwedInv, FlushCovers, SettleJob
  <2> QED BY <1>3, <2>5, <2>6 DEF ExportersInv
<1> QED BY <1>4, <1>5

\* flush() and dispose() begin: what is unsettled now is owed.
LEMMA BeginDrainLemma ==
  ASSUME ExportersInv, NEW d \in Drains, BeginDrain(d)
  PROVE  ExportersInv'
<1>1. /\ drain' = [drain EXCEPT ![d].at = "waiting"]
      /\ owed' = [owed EXCEPT ![d] = Unsettled] /\ resets' = resets
  BY DEF BeginDrain
<1>2. drain' \in [Drains -> [at : {"idle", "waiting", "flushing", "closing", "done"},
                             left : SUBSET (1..Len(Exporters)), late : BOOLEAN]]
  BY <1>1 DEF ExportersInv, ExportersTypeOK
<1>3. Unsettled \subseteq Jobs /\ owed' \in [Drains -> SUBSET Jobs]
  <2>1. Unsettled \subseteq Jobs
    BY ExportersAssumption DEF ExportersInv, ExportersTypeOK, Unsettled, Jobs
  <2> QED BY <1>1, <2>1 DEF ExportersInv, ExportersTypeOK
<1>4. /\ drain'[d].at = "waiting" /\ owed'[d] = Unsettled
      /\ \A x \in Drains \ {d} : drain'[x] = drain[x] /\ owed'[x] = owed[x]
  BY <1>1 DEF ExportersInv, ExportersTypeOK
<1>5. FlushCovers'
  BY <1>4 DEF ExportersInv, OwedInv, FlushCovers
<1>6. CASE d \in Disposes
  <2>1. UNCHANGED <<lazy, inits, running, begun, job, pending>>
    BY <1>6 DEF BeginDrain
  <2>2. ExportersTypeOK'
    BY <1>1, <1>2, <1>3, <2>1 DEF ExportersInv, ExportersTypeOK
  <2>3. InitInv'
    BY <1>1, <2>1 DEF ExportersInv, InitInv, OldRuns
  <2>4. OwedInv'
    BY <1>4, <1>5, <2>1 DEF ExportersInv, OwedInv, Unsettled
  <2> QED BY <2>2, <2>3, <2>4 DEF ExportersInv
<1>7. CASE d \notin Disposes
  <2>1. Ensure(Lazy) /\ Track(Lazy, FALSE) /\ Lazy \in SUBSET All
    BY <1>7, ExportersAssumption DEF BeginDrain
  <2>2. /\ lazy' \in [All -> 0..MaxInits] /\ inits' \in [All -> 0..MaxInits]
        /\ running' \subseteq (All \X (1..MaxInits)) /\ InitInv'
    BY <1>1, <2>1, EnsureLemma DEF ExportersInv
  <2>3. /\ begun' \in 0..MaxJobs /\ pending' \subseteq 1..begun'
        /\ job' \in Seq(Promises) /\ Len(job') = begun'
        /\ pending' = Unsettled' /\ Unsettled \subseteq Unsettled'
    BY <2>1, <2>2, TrackLemma DEF ExportersInv, OwedInv
  <2>4. ExportersTypeOK'
    BY <1>1, <1>2, <1>3, <2>2, <2>3 DEF ExportersInv, ExportersTypeOK
  <2>5. OwedInv'
    BY <1>4, <1>5, <2>3 DEF ExportersInv, OwedInv
  <2> QED BY <2>2, <2>4, <2>5 DEF ExportersInv
<1> QED BY <1>6, <1>7

\* The other steps of flush() and dispose(): the wait ends because nothing is
\* pending, or late; the flush() calls return; the exporters are shut down.
LEMMA DrainLemma ==
  ASSUME ExportersInv, NEW d \in Drains,
         \/ Waited(d) \/ Deadline(d) \/ ShutDown(d)
         \/ \E i \in 1..Len(Exporters) : Flushed(d, i) \/ FlushTimeout(d, i)
  PROVE  ExportersInv'
<1>1. UNCHANGED <<lazy, inits, running, resets, begun, job, pending, owed>>
  BY DEF Waited, Deadline, Flushed, FlushTimeout, ShutDown
<1>2. InitInv' /\ Unsettled' = Unsettled
  BY <1>1 DEF ExportersInv, InitInv, OldRuns, Unsettled
<1> DEFINE R == [at : {"idle", "waiting", "flushing", "closing", "done"},
                 left : SUBSET (1..Len(Exporters)), late : BOOLEAN]
<1>3. drain \in [Drains -> R] /\ drain[d] \in R
  BY DEF ExportersInv, ExportersTypeOK
<1>4. \E r \in R : /\ drain' = [drain EXCEPT ![d] = r]
                   /\ r.at \in {"flushing", "closing"} /\ ~r.late => owed[d] = {}
  <2>1. CASE Waited(d)
    <3>1. owed[d] = {}
      BY <2>1 DEF Waited, ExportersInv, OwedInv
    <3> DEFINE r == [at |-> "flushing", left |-> 1..Len(Exporters), late |-> FALSE]
    <3>2. r \in R /\ drain' = [drain EXCEPT ![d] = r]
      BY <2>1 DEF Waited, FlushAll
    <3> QED BY <3>1, <3>2
  <2>2. CASE Deadline(d)
    <3> DEFINE r == [at |-> "flushing", left |-> 1..Len(Exporters), late |-> TRUE]
    <3>1. r \in R /\ drain' = [drain EXCEPT ![d] = r] /\ r.late
      BY <2>2 DEF Deadline, FlushAll
    <3> QED BY <3>1
  <2>3. CASE \E i \in 1..Len(Exporters) : Flushed(d, i) \/ FlushTimeout(d, i)
    <3>1. PICK i \in 1..Len(Exporters) : Flushed(d, i)
      BY <2>3 DEF FlushTimeout
    <3> DEFINE left == drain[d].left \ {i}
               r == [drain[d] EXCEPT
                      !.left = IF left = {} /\ d \in Disposes THEN 1..Len(Exporters)
                                                              ELSE left,
                      !.at = IF left # {} THEN "flushing"
                             ELSE IF d \in Disposes THEN "closing" ELSE "done"]
    <3>2. drain' = [drain EXCEPT ![d] = r]
      BY <3>1 DEF Flushed
    <3>3. r \in R /\ r.late = drain[d].late
      BY <1>3
    <3>4. drain[d].at = "flushing" /\ (~drain[d].late => owed[d] = {})
      BY <3>1 DEF Flushed, ExportersInv, OwedInv, FlushCovers
    <3> QED BY <3>2, <3>3, <3>4
  <2>4. CASE ShutDown(d)
    <3> DEFINE i == CHOOSE j \in drain[d].left : \A k \in drain[d].left : j <= k
               r == [drain[d] EXCEPT !.left = drain[d].left \ {i}]
    <3>1. drain' = [drain EXCEPT ![d] = r]
      BY <2>4 DEF ShutDown
    <3>2. r \in R /\ r.late = drain[d].late
      BY <1>3
    <3>3. drain[d].at = "closing" /\ (~drain[d].late => owed[d] = {})
      BY <2>4 DEF ShutDown, ExportersInv, OwedInv, FlushCovers
    <3> QED BY <3>1, <3>2, <3>3
  <2> QED BY <2>1, <2>2, <2>3, <2>4
<1>5. PICK r \in R : /\ drain' = [drain EXCEPT ![d] = r]
                     /\ r.at \in {"flushing", "closing"} /\ ~r.late => owed[d] = {}
  BY <1>4
<1>6. drain' \in [Drains -> R]
  BY <1>3, <1>5
<1>7. ExportersTypeOK'
  BY <1>1, <1>6 DEF ExportersInv, ExportersTypeOK
<1>8. \A x \in Drains : drain'[x] = IF x = d THEN r ELSE drain[x]
  BY <1>3, <1>5
<1>9. FlushCovers'
  BY <1>1, <1>5, <1>8 DEF ExportersInv, OwedInv, FlushCovers
<1>10. OwedInv'
  BY <1>1, <1>2, <1>9 DEF ExportersInv, OwedInv
<1> QED BY <1>2, <1>7, <1>10 DEF ExportersInv

\* dispose() drops the lazy values: a run that is cut off is one more old run of
\* its exporter, and one more reset allows for it.
LEMMA ResetLemma ==
  ASSUME ExportersInv, NEW d \in Drains, Reset(d)
  PROVE  ExportersInv'
<1>1. /\ drain' = [drain EXCEPT ![d].at = "done"]
      /\ lazy' = [e \in All |-> 0] /\ resets' = resets + 1
      /\ UNCHANGED <<inits, running, begun, job, pending, owed>>
  BY DEF Reset
<1>2. drain' \in [Drains -> [at : {"idle", "waiting", "flushing", "closing", "done"},
                             left : SUBSET (1..Len(Exporters)), late : BOOLEAN]]
  BY <1>1 DEF ExportersInv, ExportersTypeOK
<1>3. ExportersTypeOK'
  <2>1. lazy' \in [All -> 0..MaxInits]
    BY <1>1, ExportersAssumption
  <2>2. resets' \in Nat
    BY <1>1 DEF ExportersInv, ExportersTypeOK
  <2> QED BY <1>1, <1>2, <2>1, <2>2 DEF ExportersInv, ExportersTypeOK
<1>4. ASSUME NEW e \in All
      PROVE  /\ lazy'[e] <= inits'[e]
             /\ \A k \in 1..MaxInits : <<e, k>> \in running' => k <= inits'[e]
             /\ Cardinality(OldRuns(e)') <= resets'
  <2>1. /\ Cardinality(OldRuns(e)) <= resets /\ resets \in Nat
        /\ inits[e] \in 0..MaxInits
        /\ \A k \in 1..MaxInits : <<e, k>> \in running => k <= inits[e]
    BY DEF ExportersInv, ExportersTypeOK, InitInv
  <2>2. IsFiniteSet(OldRuns(e))
    <3>1. IsFiniteSet(1..MaxInits) /\ OldRuns(e) \subseteq 1..MaxInits
      BY FS_Interval, ExportersAssumption DEF OldRuns
    <3> QED BY <3>1, FS_Subset
  <2>3. /\ IsFiniteSet(OldRuns(e) \cup {lazy[e]})
        /\ Cardinality(OldRuns(e) \cup {lazy[e]}) <= Cardinality(OldRuns(e)) + 1
        /\ Cardinality(OldRuns(e)) \in Nat
    BY <2>2, FS_AddElement, FS_CardinalityType
  <2>4. OldRuns(e)' \subseteq OldRuns(e) \cup {lazy[e]}
    BY <1>1 DEF OldRuns
  <2>5. /\ Cardinality(OldRuns(e)') <= Cardinality(OldRuns(e) \cup {lazy[e]})
        /\ Cardinality(OldRuns(e)') \in Nat
        /\ Cardinality(OldRuns(e) \cup {lazy[e]}) \in Nat
    BY <2>3, <2>4, FS_Subset, FS_CardinalityType
  <2> QED BY <1>1, <2>1, <2>3, <2>5
<1>5. InitInv'
  BY <1>4 DEF InitInv
<1>6. \A x \in Drains : x # d => drain'[x] = drain[x]
  BY <1>1 DEF ExportersInv, ExportersTypeOK
<1>7. drain'[d].at = "done"
  BY <1>1 DEF ExportersInv, ExportersTypeOK
<1>8. OwedInv'
  BY <1>1, <1>6, <1>7 DEF ExportersInv, OwedInv, FlushCovers, Unsettled
<1> QED BY <1>3, <1>5, <1>8 DEF ExportersInv

-----------------------------------------------------------------------------
(***************************************************************************)
(* Traces and spans.                                                       *)
(***************************************************************************)

\* A trace is in the map once, and each was started.
TraceInv == /\ IsInjective(traces)
            /\ \A t \in ToSet(traces) : t <= started

\* A span belongs to one trace, which is in the map; ids are not used again.
SpanInv == \A t \in Traces :
             /\ spanIds[t] \subseteq 1..made
             /\ t \notin ToSet(traces) => spanIds[t] = {}
             /\ \A u \in Traces \ {t} : spanIds[t] \cap spanIds[u] = {}

TracingInv == ExportersInv /\ LruIsRunning /\ TraceInv /\ SpanInv /\ NoOrphans

\* A new trace manager satisfies the invariant.
LEMMA TracingInit == Init => TracingInv
<1> SUFFICES ASSUME Init PROVE TracingInv
  OBVIOUS
<1>1. /\ ExportersInit /\ started = 0 /\ made = 0
      /\ traces = <<>> /\ ended = {} /\ lru = <<>>
      /\ spanIds = [t \in Traces |-> {}]
      /\ spans = {} /\ retrying = {} /\ retries = NoRetries
  BY DEF Init
<1>2. /\ <<>> \in Seq(Traces) /\ <<>> \in Seq(Promises) /\ Len(<<>>) = 0
      /\ ToSet(<<>>) = {} /\ IsInjective(<<>>)
  BY NoneLemma, EmptySeq
<1>3. N \in Nat /\ M \in Nat /\ MaxTraces \in Nat \ {0} /\ MaxJobs \in Nat /\ MaxInits \in Nat
  BY TracingAssumption, ExportersAssumption
<1>4. /\ begun = 0 /\ job = <<>> /\ pending = {} /\ running = {} /\ resets = 0
      /\ lazy = [e \in All |-> 0] /\ inits = [e \in All |-> 0]
      /\ drain = [d \in Drains |-> [at |-> "idle", left |-> {}, late |-> FALSE]]
      /\ owed = [d \in Drains |-> {}]
  BY <1>1 DEF ExportersInit
<1>5. ExportersTypeOK
  <2>1. lazy \in [All -> 0..MaxInits] /\ inits \in [All -> 0..MaxInits]
    BY <1>3, <1>4
  <2>2. drain \in [Drains -> [at : {"idle", "waiting", "flushing", "closing", "done"},
                              left : SUBSET (1..Len(Exporters)), late : BOOLEAN]]
    BY <1>4
  <2>3. begun \in 0..MaxJobs /\ pending \subseteq 1..begun /\ owed \in [Drains -> SUBSET Jobs]
    BY <1>3, <1>4
  <2> QED BY <1>2, <1>4, <2>1, <2>2, <2>3 DEF ExportersTypeOK
<1>6. InitInv
  <2>1. ASSUME NEW e \in All PROVE OldRuns(e) = {} /\ lazy[e] = 0 /\ inits[e] = 0
    BY <1>4 DEF OldRuns
  <2> QED BY <1>4, <2>1, FS_EmptySet DEF InitInv
<1>7. OwedInv
  BY <1>4 DEF OwedInv, FlushCovers, Unsettled
<1>8. TypeOK
  <2>1. started \in 0..N /\ made \in 0..M /\ retries \in [total : Nat, good : Nat, bad : Nat]
    BY <1>1, <1>3 DEF NoRetries
  <2> QED BY <1>1, <1>2, <1>5, <2>1 DEF TypeOK
<1>9. LruIsRunning
  BY <1>1, <1>2, <1>3, <1>8, FilterEmpty DEF LruIsRunning
<1>10. TraceInv /\ SpanInv
  BY <1>1, <1>2 DEF TraceInv, SpanInv
<1>11. NoOrphans
  BY <1>1, <1>2, FS_EmptySet DEF NoOrphans, NoRetries
<1> QED BY <1>5, <1>6, <1>7, <1>9, <1>10, <1>11 DEF TracingInv, ExportersInv

\* Retried spans are finitely many, and with fewer of them the counts still fit.
LEMMA FewerRetries ==
  ASSUME TypeOK, NoOrphans, NEW R, R \subseteq retrying
  PROVE  /\ Cardinality(R) \in Nat
         /\ retries.good + retries.bad + Cardinality(R) <= retries.total
<1>1. IsFiniteSet(1..M) /\ retrying \subseteq 1..M
  <2>1. 1 \in Int /\ M \in Int
    BY TracingAssumption
  <2>2. IsFiniteSet(1..M)
    BY <2>1, FS_Interval
  <2> QED BY <2>2 DEF TypeOK
<1>2. IsFiniteSet(retrying)
  BY <1>1, FS_Subset
<1>3. /\ Cardinality(R) \in Nat /\ Cardinality(retrying) \in Nat
      /\ Cardinality(R) <= Cardinality(retrying)
  BY <1>2, FS_Subset, FS_CardinalityType
<1>4. retries.good \in Nat /\ retries.bad \in Nat /\ retries.total \in Nat
  BY DEF TypeOK
<1> QED BY <1>3, <1>4 DEF NoOrphans

\* startTrace() puts the trace last in the map and in the list, and evicts one when
\* there is one too many: the list stays what the map says is running.
LEMMA StartTraceLemma ==
  ASSUME TracingInv, StartTrace
  PROVE  TracingInv'
<1> DEFINE x == started + 1
           all == Append(traces, x)
           list == Append(lru, x)
           over == IF Len(all) > MaxTraces THEN Len(all) - MaxTraces ELSE 0
           line == Filter(all, ended) \o list
           out == {line[i] : i \in 1..over}
<1>1. /\ TypeOK /\ lru = Filter(traces, Traces \ ended) /\ Len(traces) <= MaxTraces
      /\ TraceInv /\ SpanInv /\ NoOrphans /\ ExportersInv
  BY DEF TracingInv, LruIsRunning
<1>2. /\ traces \in Seq(Traces) /\ lru \in Seq(Traces) /\ ended \subseteq ToSet(traces)
      /\ started \in 0..N /\ N \in Nat /\ MaxTraces \in Nat \ {0} /\ started < N
  BY <1>1, TracingAssumption DEF TypeOK, StartTrace
<1>3. x \in Traces /\ x \in 0..N /\ x \notin ToSet(traces) /\ started < x
  <2>1. x \in Traces /\ x \in 0..N /\ started < x
    BY <1>2 DEF Traces
  <2>2. x \notin ToSet(traces)
    <3>1. x \in ToSet(traces) => x <= started
      BY <1>1 DEF TraceInv
    <3> QED BY <1>2, <3>1
  <2> QED BY <2>1, <2>2
<1>4. /\ started' = x /\ traces' = Filter(all, Traces \ out)
      /\ lru' = Filter(list, Traces \ out) /\ ended' = ended \ out
      /\ spanIds' = [t \in Traces |-> IF t \in out THEN {} ELSE spanIds[t]]
      /\ spans' = spans \ UNION {spanIds[t] : t \in out}
      /\ retrying' = retrying \ UNION {spanIds[t] : t \in out}
      /\ UNCHANGED <<made, retries>> /\ UNCHANGED xvars
  BY DEF StartTrace, Evict, Discard
<1>5. /\ all \in Seq(Traces) /\ Len(all) = Len(traces) + 1
      /\ ToSet(all) = ToSet(traces) \cup {x} /\ IsInjective(all)
      /\ list \in Seq(Traces) /\ Len(list) = Len(lru) + 1
      /\ ToSet(list) = ToSet(lru) \cup {x}
  <2>1. /\ all \in Seq(Traces) /\ Len(all) = Len(traces) + 1
        /\ ToSet(all) = ToSet(traces) \cup {x}
        /\ IsInjective(traces) /\ x \notin ToSet(traces) => IsInjective(all)
    BY <1>2, <1>3, AppendProperties, PushLemma
  <2>2. /\ list \in Seq(Traces) /\ Len(list) = Len(lru) + 1
        /\ ToSet(list) = ToSet(lru) \cup {x}
    BY <1>2, <1>3, AppendProperties, PushLemma
  <2> HIDE DEF all, list, x
  <2> QED BY <1>1, <1>3, <2>1, <2>2 DEF TraceInv
<1>6. list = Filter(all, Traces \ ended)
  <2>1. x \in Traces \ ended
    BY <1>2, <1>3
  <2>2. Filter(all, Traces \ ended) = One(Filter(traces, Traces \ ended), x, Traces \ ended)
    BY <1>2, <1>3, FilterAppend
  <2> QED BY <1>1, <1>2, <1>3, <2>1, <2>2 DEF One
<1>7. /\ Filter(all, ended) \in Seq(Traces) /\ ToSet(Filter(all, ended)) \subseteq ToSet(all)
      /\ ToSet(list) \subseteq ToSet(all)
      /\ Len(traces) \in Nat /\ Len(lru) \in Nat /\ Len(Filter(all, ended)) \in Nat
  <2> HIDE DEF all, list, x
  <2>1. /\ Filter(all, ended) \in Seq(Traces)
        /\ ToSet(Filter(all, ended)) = ToSet(all) \cap ended
    BY <1>5, FilterLemma
  <2>2. ToSet(list) = ToSet(all) \cap (Traces \ ended)
    BY <1>5, <1>6, FilterLemma
  <2> QED BY <1>2, <2>1, <2>2, LenProperties
<1>8. /\ line \in Seq(Traces) /\ Len(line) = Len(Filter(all, ended)) + Len(list)
      /\ \A i \in 1..Len(line) : line[i] \in ToSet(all)
  <2> DEFINE gone == Filter(all, ended)
  <2>1. /\ DOMAIN gone = 1..Len(gone) /\ DOMAIN list = 1..Len(list)
        /\ Len(gone) \in Nat /\ Len(list) \in Nat
    BY <1>5, <1>7, LenProperties
  <2>2. /\ line \in Seq(Traces) /\ Len(line) = Len(gone) + Len(list)
        /\ \A i \in 1..(Len(gone) + Len(list)) :
             line[i] = IF i <= Len(gone) THEN gone[i] ELSE list[i - Len(gone)]
    BY <1>5, <1>7, ConcatProperties
  <2>3. /\ \A i \in 1..Len(gone) : gone[i] \in ToSet(all)
        /\ \A i \in 1..Len(list) : list[i] \in ToSet(all)
    BY <1>7, <2>1 DEF ToSet
  <2> HIDE DEF gone, line, list, all
  <2>4. ASSUME NEW i \in 1..Len(line) PROVE line[i] \in ToSet(all)
    <3>1. CASE i <= Len(gone)
      BY <2>1, <2>2, <2>3, <3>1
    <3>2. CASE ~(i <= Len(gone))
      <4>1. i - Len(gone) \in 1..Len(list)
        BY <2>1, <2>2, <3>2
      <4> QED BY <2>2, <2>3, <3>2, <4>1
    <3> QED BY <3>1, <3>2
  <2> QED BY <2>2, <2>4 DEF gone
<1>9. over \in 0..1 /\ over <= Len(line) /\ (over = 0 => Len(all) <= MaxTraces)
                    /\ (over = 1 => Len(all) = MaxTraces + 1)
  <2> HIDE DEF all, list, line
  <2> QED BY <1>1, <1>2, <1>5, <1>7, <1>8
<1>10. out \subseteq ToSet(all) /\ (over = 1 => out # {})
  <2> HIDE DEF over, line, all
  <2>1. \A i \in 1..over : i \in 1..Len(line)
    <3>1. Len(line) \in Nat
      BY <1>8, LenProperties
    <3> QED BY <1>9, <3>1
  <2> QED BY <1>8, <1>9, <2>1
<1>11. /\ traces' \in Seq(Traces) /\ ToSet(traces') = ToSet(all) \ out /\ IsInjective(traces')
       /\ lru' \in Seq(Traces)
       /\ Len(traces') <= MaxTraces
  <2>1. ToSet(all) \subseteq Traces
    BY <1>2, <1>3, <1>5, MembersLemma
  <2> HIDE DEF all, list, out
  <2>2. /\ Filter(all, Traces \ out) \in Seq(Traces)
        /\ ToSet(Filter(all, Traces \ out)) = ToSet(all) \cap (Traces \ out)
        /\ IsInjective(Filter(all, Traces \ out))
        /\ IF ToSet(all) \subseteq Traces \ out THEN Filter(all, Traces \ out) = all
           ELSE Len(Filter(all, Traces \ out)) < Len(all)
        /\ Filter(list, Traces \ out) \in Seq(Traces)
    BY <1>5, FilterLemma
  <2>3. Len(traces') <= MaxTraces
    <3>1. CASE over = 0
      <4>1. Len(traces') <= Len(all) /\ Len(all) \in Nat /\ Len(traces') \in Nat
        BY <1>4, <1>5, <1>7, <2>2, LenProperties
      <4> QED BY <1>2, <1>9, <3>1, <4>1
    <3>2. CASE over = 1
      <4>1. ~(ToSet(all) \subseteq Traces \ out)
        BY <1>10, <3>2
      <4>2. Len(traces') < Len(all) /\ Len(all) = MaxTraces + 1 /\ Len(traces') \in Nat
        BY <1>4, <1>9, <2>2, <3>2, <4>1, LenProperties
      <4> QED BY <1>2, <4>2
    <3> QED BY <1>9, <3>1, <3>2
  <2> QED BY <1>4, <2>1, <2>2, <2>3
<1>12. lru' = Filter(traces', Traces \ ended')
  <2>1. /\ Filter(list, Traces \ out) = Filter(all, (Traces \ ended) \cap (Traces \ out))
        /\ Filter(traces', Traces \ ended') =
             Filter(all, (Traces \ out) \cap (Traces \ ended'))
    <3> HIDE DEF all, list, out
    <3>1. Filter(Filter(all, Traces \ ended), Traces \ out) =
            Filter(all, (Traces \ ended) \cap (Traces \ out))
      BY <1>5, FilterTwice
    <3>2. Filter(Filter(all, Traces \ out), Traces \ ended') =
            Filter(all, (Traces \ out) \cap (Traces \ ended'))
      BY <1>5, FilterTwice
    <3> QED BY <1>4, <1>6, <3>1, <3>2
  <2>2. (Traces \ ended) \cap (Traces \ out) = (Traces \ out) \cap (Traces \ ended')
    BY <1>4
  <2> QED BY <1>4, <2>1, <2>2
<1> HIDE DEF all, list, over, line, out
<1>13. ExportersInv'
  BY <1>1, <1>4 DEF xvars, ExportersInv, ExportersTypeOK, InitInv, OldRuns, OwedInv,
                    FlushCovers, Unsettled
<1>14. TypeOK'
  <2>1. spanIds' \in [Traces -> SUBSET (1..M)]
    BY <1>1, <1>4 DEF TypeOK
  <2>2. ended' \subseteq ToSet(traces')
    BY <1>2, <1>4, <1>5, <1>11
  <2> QED BY <1>1, <1>3, <1>4, <1>11, <1>13, <2>1, <2>2 DEF TypeOK, ExportersInv
<1>15. TraceInv'
  <2>1. ASSUME NEW t \in ToSet(traces') PROVE t <= started'
    <3>1. t \in ToSet(traces) \/ t = x
      BY <1>5, <1>11
    <3>2. t \in ToSet(traces) => t \in Traces /\ t <= started
      BY <1>1, <1>2, MembersLemma DEF TraceInv
    <3> QED BY <1>2, <1>3, <1>4, <3>1, <3>2 DEF Traces
  <2> QED BY <1>11, <2>1 DEF TraceInv
<1>16. SpanInv'
  <2>1. ASSUME NEW t \in Traces
        PROVE  spanIds'[t] = IF t \in out THEN {} ELSE spanIds[t]
    BY <1>4
  <2>2. ASSUME NEW t \in Traces, t \notin ToSet(traces'), t \notin out PROVE t \notin ToSet(traces)
    BY <1>5, <1>11, <2>2
  <2> QED BY <1>1, <1>4, <2>1, <2>2 DEF SpanInv
<1>17. NoOrphans'
  <2>1. spans = UNION {spanIds[t] : t \in ToSet(traces)} /\ retrying \subseteq spans
    BY <1>1 DEF NoOrphans
  <2>2. \A t \in ToSet(all) : t \in Traces
    BY <1>5, MembersLemma
  <2>3. spanIds[x] = {}
    BY <1>1, <1>3 DEF SpanInv
  <2>4. \A t \in ToSet(all), u \in ToSet(all) : t # u => spanIds[t] \cap spanIds[u] = {}
    BY <1>1, <2>2 DEF SpanInv
  <2>5. \A t \in ToSet(all) \ out : spanIds'[t] = spanIds[t]
    BY <1>4, <2>2
  <2>6. spans = UNION {spanIds[t] : t \in ToSet(all)}
    BY <1>5, <2>1, <2>3
  <2>7. spans' = UNION {spanIds[t] : t \in ToSet(all) \ out}
    <3>1. \A s : s \in spans' <=> \E t \in ToSet(all) \ out : s \in spanIds[t]
      BY <1>4, <1>10, <2>4, <2>6
    <3> QED BY <3>1
  <2>8. spans' = UNION {spanIds'[t] : t \in ToSet(traces')}
    BY <1>11, <2>5, <2>7
  <2>9. retrying' \subseteq spans' /\ retrying' \subseteq retrying
    BY <1>4, <2>1
  <2> QED BY <1>1, <1>4, <2>8, <2>9, FewerRetries DEF NoOrphans
<1> QED BY <1>11, <1>12, <1>13, <1>14, <1>15, <1>16, <1>17 DEF TracingInv, LruIsRunning

\* The exporters' part of a step that leaves them alone.
LEMMA ExportersFrame == ExportersInv /\ UNCHANGED xvars => ExportersInv'
<1> SUFFICES ASSUME ExportersInv, UNCHANGED xvars PROVE ExportersInv'
  OBVIOUS
<1>1. ExportersTypeOK'
  BY DEF xvars, ExportersInv, ExportersTypeOK
<1>2. InitInv'
  BY DEF xvars, ExportersInv, InitInv, OldRuns
<1>3. OwedInv'
  BY DEF xvars, ExportersInv, OwedInv, FlushCovers, Unsettled
<1> QED BY <1>1, <1>2, <1>3 DEF ExportersInv

\* startSpan() draws an id that no trace has.
LEMMA StartSpanLemma ==
  ASSUME TracingInv, NEW t \in Traces, StartSpan(t)
  PROVE  TracingInv'
<1> DEFINE s == made + 1
<1>1. /\ made < M /\ t \in ToSet(traces) /\ made' = s /\ spans' = spans \cup {s}
      /\ spanIds' = [spanIds EXCEPT ![t] = spanIds[t] \cup {s}]
      /\ UNCHANGED <<started, traces, ended, lru, retrying, retries>> /\ UNCHANGED xvars
  BY DEF StartSpan
<1>2. /\ TypeOK /\ lru = Filter(traces, Traces \ ended) /\ Len(traces) <= MaxTraces
      /\ TraceInv /\ SpanInv /\ NoOrphans /\ ExportersInv
  BY DEF TracingInv, LruIsRunning
<1>3. made \in 0..M /\ M \in Nat /\ spanIds \in [Traces -> SUBSET (1..M)]
  BY <1>2, TracingAssumption DEF TypeOK
<1>4. s \in 0..M /\ s \in 1..M /\ s \in 1..s /\ s \notin 1..made /\ 1..made \subseteq 1..s
  BY <1>1, <1>3
<1>5. \A u \in Traces : spanIds'[u] = IF u = t THEN spanIds[t] \cup {s} ELSE spanIds[u]
  BY <1>1, <1>3
<1> HIDE DEF s
<1>6. TypeOK'
  <2>1. spanIds' \in [Traces -> SUBSET (1..M)] /\ spans' \subseteq 1..M
    BY <1>1, <1>2, <1>3, <1>4 DEF TypeOK
  <2>2. ExportersTypeOK'
    BY <1>1, <1>2, ExportersFrame DEF ExportersInv
  <2> QED BY <1>1, <1>2, <1>4, <2>1, <2>2 DEF TypeOK
<1>7. SpanInv'
  <2>1. \A u \in Traces : /\ spanIds[u] \subseteq 1..made /\ s \notin spanIds[u]
                          /\ u \notin ToSet(traces) => spanIds[u] = {}
                          /\ \A v \in Traces \ {u} : spanIds[u] \cap spanIds[v] = {}
    BY <1>2, <1>4 DEF SpanInv
  <2> QED BY <1>1, <1>4, <1>5, <2>1 DEF SpanInv
<1>8. NoOrphans'
  <2>1. spans = UNION {spanIds[u] : u \in ToSet(traces)} /\ retrying \subseteq spans
    BY <1>2 DEF NoOrphans
  <2>2. ToSet(traces) \subseteq Traces
    BY <1>2, MembersLemma DEF TypeOK
  <2>3. \A x : (\E u \in ToSet(traces) : x \in spanIds'[u]) <=>
               (x = s \/ \E u \in ToSet(traces) : x \in spanIds[u])
    BY <1>1, <1>5, <2>2
  <2>4. spans' = UNION {spanIds'[u] : u \in ToSet(traces)}
    BY <1>1, <2>1, <2>3
  <2> QED BY <1>1, <1>2, <2>1, <2>4 DEF NoOrphans
<1>9. ExportersInv' /\ TraceInv' /\ LruIsRunning'
  BY <1>1, <1>2, <1>6, ExportersFrame DEF TraceInv, LruIsRunning
<1> QED BY <1>7, <1>8, <1>9 DEF TracingInv

\* A retry is counted once, and remembered until its span ends or is discarded.
LEMMA RetryLemma ==
  ASSUME TracingInv, NEW s \in 1..M, Retry(s)
  PROVE  TracingInv'
<1>1. /\ s \in spans /\ retries' = [retries EXCEPT !.total = retries.total + 1]
      /\ retrying' = retrying \cup {s}
      /\ UNCHANGED <<started, traces, ended, lru, spanIds, made, spans>> /\ UNCHANGED xvars
  BY DEF Retry
<1>2. /\ TypeOK /\ LruIsRunning /\ TraceInv /\ SpanInv /\ NoOrphans /\ ExportersInv
  BY DEF TracingInv, LruIsRunning
<1>3. retries \in [total : Nat, good : Nat, bad : Nat]
  BY <1>2 DEF TypeOK
<1>4. /\ retries' \in [total : Nat, good : Nat, bad : Nat]
      /\ retries'.total = retries.total + 1
      /\ retries'.good = retries.good /\ retries'.bad = retries.bad
  BY <1>1, <1>3
<1>5. ExportersInv'
  BY <1>1, <1>2, ExportersFrame
<1>6. TypeOK'
  BY <1>1, <1>2, <1>4, <1>5 DEF TypeOK, ExportersInv
<1>7. NoOrphans'
  <2>1. IsFiniteSet(retrying)
    <3>1. IsFiniteSet(1..M)
      BY FS_Interval, TracingAssumption
    <3> QED BY <1>2, <3>1, FS_Subset DEF TypeOK
  <2>2. /\ Cardinality(retrying') <= Cardinality(retrying) + 1
        /\ Cardinality(retrying) \in Nat /\ Cardinality(retrying') \in Nat
    <3>1. /\ IsFiniteSet(retrying \cup {s})
          /\ Cardinality(retrying \cup {s}) =
               IF s \in retrying THEN Cardinality(retrying) ELSE Cardinality(retrying) + 1
      BY <2>1, FS_AddElement
    <3>2. Cardinality(retrying) \in Nat
      BY <2>1, FS_CardinalityType
    <3> QED BY <1>1, <3>1, <3>2
  <2>3. retries'.good + retries'.bad + Cardinality(retrying') <= retries'.total
    <3>1. retries.good + retries.bad + Cardinality(retrying) <= retries.total
      BY <1>2 DEF NoOrphans
    <3>2. retries.good \in Nat /\ retries.bad \in Nat /\ retries.total \in Nat
      BY <1>3
    <3> QED BY <1>4, <2>2, <3>1, <3>2
  <2> QED BY <1>1, <1>2, <2>3 DEF NoOrphans
<1>8. TraceInv' /\ SpanInv' /\ LruIsRunning'
  BY <1>1, <1>2, <1>6 DEF TraceInv, SpanInv, LruIsRunning
<1> QED BY <1>5, <1>7, <1>8 DEF TracingInv

\* endSpan() turns the span's retries into one outcome, or none if it had none.
LEMMA EndSpanLemma ==
  ASSUME TracingInv, NEW s \in 1..M, EndSpan(s)
  PROVE  TracingInv'
<1>1. /\ retrying' = retrying \ {s} /\ Export
      /\ UNCHANGED <<started, traces, ended, lru, spanIds, made, spans>>
  BY DEF EndSpan
<1>2. /\ TypeOK /\ LruIsRunning /\ TraceInv /\ SpanInv /\ NoOrphans /\ ExportersInv
  BY DEF TracingInv, LruIsRunning
<1>3. retries \in [total : Nat, good : Nat, bad : Nat]
  BY <1>2 DEF TypeOK
<1>4. /\ retries' \in [total : Nat, good : Nat, bad : Nat]
      /\ retries'.total = retries.total
      /\ IF s \in retrying THEN retries'.good + retries'.bad = retries.good + retries.bad + 1
                           ELSE retries' = retries
  <2>1. CASE s \notin retrying
    BY <1>3, <2>1 DEF EndSpan
  <2>2. CASE s \in retrying
    <3>1. \/ retries' = [retries EXCEPT !.good = retries.good + 1]
          \/ retries' = [retries EXCEPT !.bad = retries.bad + 1]
      BY <2>2 DEF EndSpan
    <3>2. retries.good \in Nat /\ retries.bad \in Nat
      BY <1>3
    <3> QED BY <1>3, <2>2, <3>1, <3>2
  <2> QED BY <2>1, <2>2
<1>5. ExportersInv'
  BY <1>1, <1>2, ExportLemma
<1>6. TypeOK'
  BY <1>1, <1>2, <1>4, <1>5 DEF TypeOK, ExportersInv
<1>7. NoOrphans'
  <2>1. IsFiniteSet(retrying)
    <3>1. IsFiniteSet(1..M)
      BY FS_Interval, TracingAssumption
    <3> QED BY <1>2, <3>1, FS_Subset DEF TypeOK
  <2>2. /\ Cardinality(retrying) \in Nat
        /\ Cardinality(retrying') = IF s \in retrying THEN Cardinality(retrying) - 1
                                                      ELSE Cardinality(retrying)
    BY <1>1, <2>1, FS_RemoveElement, FS_CardinalityType
  <2>3. retries'.good + retries'.bad + Cardinality(retrying') <= retries'.total
    <3>1. retries.good + retries.bad + Cardinality(retrying) <= retries.total
      BY <1>2 DEF NoOrphans
    <3>2. /\ retries.good \in Nat /\ retries.bad \in Nat /\ retries.total \in Nat
          /\ retries'.good \in Nat /\ retries'.bad \in Nat
      BY <1>3, <1>4
    <3>3. CASE s \in retrying
      BY <1>4, <2>2, <3>1, <3>2, <3>3
    <3>4. CASE s \notin retrying
      BY <1>4, <2>2, <3>1, <3>2, <3>4
    <3> QED BY <3>3, <3>4
  <2> QED BY <1>1, <1>2, <2>3 DEF NoOrphans
<1>8. TraceInv' /\ SpanInv' /\ LruIsRunning'
  BY <1>1, <1>2, <1>6 DEF TraceInv, SpanInv, LruIsRunning
<1> QED BY <1>5, <1>7, <1>8 DEF TracingInv

\* endTrace() takes the trace off the list and off the running ones, also when it
\* had ended before.
LEMMA EndTraceLemma ==
  ASSUME TracingInv, NEW t \in Traces, EndTrace(t)
  PROVE  TracingInv'
<1>1. /\ t \in ToSet(traces) /\ ended' = ended \cup {t}
      /\ lru' = Filter(lru, Traces \ {t}) /\ Export
      /\ UNCHANGED <<started, traces, spanIds, made, spans, retrying, retries>>
  BY DEF EndTrace
<1>2. /\ TypeOK /\ lru = Filter(traces, Traces \ ended) /\ Len(traces) <= MaxTraces
      /\ TraceInv /\ SpanInv /\ NoOrphans /\ ExportersInv
  BY DEF TracingInv, LruIsRunning
<1>3. traces \in Seq(Traces) /\ lru \in Seq(Traces)
  BY <1>2 DEF TypeOK
<1>4. lru' \in Seq(Traces)
  BY <1>1, <1>3, FilterLemma
<1>5. lru' = Filter(traces', Traces \ ended')
  <2>1. Filter(Filter(traces, Traces \ ended), Traces \ {t}) =
          Filter(traces, (Traces \ ended) \cap (Traces \ {t}))
    BY <1>3, FilterTwice
  <2>2. (Traces \ ended) \cap (Traces \ {t}) = Traces \ ended'
    BY <1>1
  <2> QED BY <1>1, <1>2, <2>1, <2>2
<1>6. ExportersInv'
  BY <1>1, <1>2, ExportLemma
<1>7. TypeOK'
  BY <1>1, <1>2, <1>4, <1>6 DEF TypeOK, ExportersInv
<1>8. TraceInv' /\ SpanInv' /\ LruIsRunning'
  BY <1>1, <1>2, <1>5, <1>7 DEF TraceInv, SpanInv, LruIsRunning
<1>9. NoOrphans'
  BY <1>1, <1>2 DEF NoOrphans
<1> QED BY <1>6, <1>8, <1>9 DEF TracingInv

\* dispose() leaves nothing.
LEMMA ClearLemma ==
  ASSUME TracingInv, NEW d \in Drains, Clear(d)
  PROVE  TracingInv'
<1>1. /\ Reset(d) /\ traces' = <<>> /\ ended' = {} /\ lru' = <<>>
      /\ spans' = {} /\ retrying' = {} /\ retries' = NoRetries
      /\ spanIds' = [t \in Traces |-> {}] /\ UNCHANGED <<started, made>>
  BY DEF Clear
<1>2. <<>> \in Seq(Traces) /\ ToSet(<<>>) = {} /\ IsInjective(<<>>) /\ Len(<<>>) = 0
  BY NoneLemma, EmptySeq
<1>3. ExportersInv'
  BY <1>1, ResetLemma DEF TracingInv
<1>4. TypeOK'
  BY <1>1, <1>2, <1>3 DEF TracingInv, LruIsRunning, TypeOK, ExportersInv, NoRetries
<1>5. LruIsRunning'
  BY <1>1, <1>2, <1>4, FilterEmpty, TracingAssumption DEF LruIsRunning
<1>6. TraceInv' /\ SpanInv'
  BY <1>1, <1>2 DEF TraceInv, SpanInv
<1>7. NoOrphans'
  BY <1>1, <1>2, FS_EmptySet DEF NoOrphans, NoRetries
<1> QED BY <1>3, <1>5, <1>6, <1>7 DEF TracingInv

\* Every step keeps the invariant.
LEMMA TracingNext == TracingInv /\ [Next]_vars => TracingInv'
<1> SUFFICES ASSUME TracingInv, [Next]_vars PROVE TracingInv'
  OBVIOUS
<1>1. CASE StartTrace
  BY <1>1, StartTraceLemma
<1>2. CASE \E t \in Traces : StartSpan(t) \/ EndTrace(t)
  BY <1>2, StartSpanLemma, EndTraceLemma
<1>3. CASE \E s \in 1..M : Retry(s) \/ EndSpan(s)
  BY <1>3, RetryLemma, EndSpanLemma
<1>4. CASE \E d \in Drains : Clear(d)
  BY <1>4, ClearLemma
<1>5. ASSUME UNCHANGED tvars, ExportersInv' PROVE TracingInv'
  BY <1>5 DEF TracingInv, ExportersInv, tvars, LruIsRunning, TypeOK, TraceInv, SpanInv, NoOrphans
<1>6. CASE Working /\ UNCHANGED tvars
  <2>1. ExportersInv
    BY DEF TracingInv
  <2>2. ExportersInv'
    <3>1. CASE InitializeAll
      BY <2>1, <3>1, ExportLemma
    <3>2. CASE \E e \in All, k \in 1..MaxInits, ok \in BOOLEAN : Initialized(e, k, ok)
      BY <2>1, <3>2, InitializedLemma
    <3>3. CASE \E n \in Jobs : CallExporter(n) \/ SettleJob(n)
      BY <2>1, <3>3, JobLemma
    <3>4. CASE \E d \in Drains :
                 \/ BeginDrain(d) \/ Waited(d) \/ Deadline(d) \/ ShutDown(d)
                 \/ \E i \in 1..Len(Exporters) : Flushed(d, i) \/ FlushTimeout(d, i)
      BY <2>1, <3>4, BeginDrainLemma, DrainLemma
    <3> QED BY <1>6, <3>1, <3>2, <3>3, <3>4 DEF Working
  <2> QED BY <1>5, <1>6, <2>2
<1>7. CASE UNCHANGED vars
  BY <1>5, <1>7, ExportersFrame DEF vars, TracingInv
<1> QED BY <1>1, <1>2, <1>3, <1>4, <1>6, <1>7 DEF Next

-----------------------------------------------------------------------------
(***************************************************************************)
(* The invariant holds in every reachable state.                           *)
(***************************************************************************)
THEOREM TracingInvariance == Spec => []TracingInv
BY TracingInit, TracingNext, PTL DEF Spec

(***************************************************************************)
(* For any maxTraces and any traces: the LRU list is the running traces of *)
(* the map in the order they were started, and the map keeps to maxTraces, *)
(* whatever ends in between and however often (trace-eviction.ts,          *)
(* trace-lru-list.ts).                                                     *)
(***************************************************************************)
THEOREM TracingLruIsRunning == Spec => []LruIsRunning
<1>1. TracingInv => LruIsRunning
  BY DEF TracingInv
<1> QED BY <1>1, TracingInvariance, PTL

(***************************************************************************)
(* The spans kept are those of the traces in the map, a retry is           *)
(* remembered for one of them only, and no retry is counted as two         *)
(* outcomes (discardTraceForEviction(), trace-retry-collector.ts).         *)
(***************************************************************************)
THEOREM TracingNoOrphans == Spec => []NoOrphans
<1>1. TracingInv => NoOrphans
  BY DEF TracingInv
<1> QED BY <1>1, TracingInvariance, PTL

(***************************************************************************)
(* flush() and dispose() reach the exporters only when every export asked  *)
(* for before they began has settled, or their deadline has passed, for    *)
(* any number of exporters and of flushes that overlap                     *)
(* (trace-exporter-coordinator.ts, waitForPendingWithTimeout()).           *)
(***************************************************************************)
THEOREM TracingFlushCovers == Spec => []FlushCovers
<1>1. TracingInv => FlushCovers
  BY DEF TracingInv, ExportersInv, OwedInv
<1> QED BY <1>1, TracingInvariance, PTL

(***************************************************************************)
(* An exporter's initialize() runs once at a time, but for one more after  *)
(* each dispose(), however many exports race for it and however often it   *)
(* fails (lazy-async.ts).                                                  *)
(***************************************************************************)
THEOREM TracingInitOnce == Spec => []InitOnce
<1>1. ASSUME TracingInv PROVE InitOnce
  <2>1. ASSUME NEW e \in All
        PROVE  Cardinality({k \in 1..MaxInits : <<e, k>> \in running}) <= 1 + resets
    <3> DEFINE R == {k \in 1..MaxInits : <<e, k>> \in running}
    <3>1. /\ Cardinality(OldRuns(e)) <= resets /\ resets \in Nat
      BY <1>1 DEF TracingInv, ExportersInv, ExportersTypeOK, InitInv
    <3>2. IsFiniteSet(OldRuns(e))
      <4>1. IsFiniteSet(1..MaxInits) /\ OldRuns(e) \subseteq 1..MaxInits
        BY FS_Interval, ExportersAssumption DEF OldRuns
      <4> QED BY <4>1, FS_Subset
    <3>3. R \subseteq OldRuns(e) \cup {lazy[e]}
      BY DEF OldRuns
    <3>4. /\ IsFiniteSet(OldRuns(e) \cup {lazy[e]})
          /\ Cardinality(OldRuns(e) \cup {lazy[e]}) <= Cardinality(OldRuns(e)) + 1
          /\ Cardinality(OldRuns(e)) \in Nat
      <4>1. /\ IsFiniteSet(OldRuns(e) \cup {lazy[e]})
            /\ Cardinality(OldRuns(e) \cup {lazy[e]}) =
                 IF lazy[e] \in OldRuns(e) THEN Cardinality(OldRuns(e))
                                           ELSE Cardinality(OldRuns(e)) + 1
        BY <3>2, FS_AddElement
      <4>2. Cardinality(OldRuns(e)) \in Nat
        BY <3>2, FS_CardinalityType
      <4> QED BY <4>1, <4>2
    <3>5. /\ Cardinality(R) <= Cardinality(OldRuns(e) \cup {lazy[e]})
          /\ Cardinality(R) \in Nat /\ Cardinality(OldRuns(e) \cup {lazy[e]}) \in Nat
      BY <3>3, <3>4, FS_Subset, FS_CardinalityType
    <3> HIDE DEF R
    <3>6. Cardinality(R) <= 1 + resets
      BY <3>1, <3>4, <3>5
    <3> QED BY <3>6 DEF R
  <2> QED BY <2>1 DEF InitOnce
<1> QED BY <1>1, TracingInvariance, PTL
=============================================================================
