--------------------------- MODULE KeptStateProofs ---------------------------
(***************************************************************************)
(* The two components that keep state for their callers, for any number of *)
(* sessions, calls and keys: the session manager, with handlers that call  *)
(* it back in the middle of an eviction, and the file memory store, with   *)
(* failing operations and crashes anywhere.                                *)
(***************************************************************************)
EXTENDS Sessions, FileStore, SeqLemmas, FiniteSetTheorems

-----------------------------------------------------------------------------
\* The session manager.

\* The ids are drawn in order.
Drawn == \E k \in 0..N : {s \in Ids : status[s] # "new"} = 1..k

\* A session is drawn before it is in any of the structures.
Fresh == \A s \in Ids : status[s] = "new" => s \notin touched \cup Evicting

\* The two structures of the LRU agree with the map in the middle of calls too,
\* for a session that no handler called back on while it was evicted: while it
\* is evicted it is in neither.
Agree == \A s \in Ids \ touched :
           IF s \in Evicting
           THEN /\ s \notin locked \cup ToSet(order)
                /\ status[s] \in {"active", "expired", "gone"}
           ELSE /\ s \in locked <=> status[s] = "locked"
                /\ s \in ToSet(order) <=> status[s] \in {"active", "expired"}

Apart == IsInjective(order) /\ locked \cap ToSet(order) = {}

LruInv == SessionTypes /\ Drawn /\ Fresh /\ Agree /\ Apart

\* The frames of the event bus: at most one call delivers, and the handler it
\* runs is right before it.
IsDrain(i) == stack[i].do = "drain"
Bus == /\ \A i, j \in DOMAIN stack : IsDrain(i) /\ IsDrain(j) => i = j
       /\ emitting <=> \E i \in DOMAIN stack : IsDrain(i)
       /\ \A i \in DOMAIN stack : stack[i].do = "handle" =>
            i + 1 \in DOMAIN stack /\ IsDrain(i + 1)

\* The evictions of the handler are the ones before the delivery. The one that
\* the delivery interrupted, if any, is right behind it.
Above(i) == \E j \in DOMAIN stack : j > i /\ IsDrain(j)
Interrupted == \A i \in DOMAIN stack : stack[i].do = "delete" /\ ~Above(i) =>
                 \/ i = 1
                 \/ IsDrain(i - 1)
                 \/ i = 2 /\ stack[1].do = "emit" /\ ~emitting

\* A session that was called back on is still evicted as long as it is in the
\* map, and in the order or locked unless the handler evicts it once more.
Again == {stack[i].id : i \in {j \in DOMAIN stack : stack[j].do = "delete" /\ Above(j)}}
CalledBack == \A s \in touched \cap InMap :
                s \in Evicting /\ s \in locked \cup ToSet(order) \cup Again

\* The sessions that stay, and those of the called back ones that left the order.
Live == InMap \ Evicting
Left == {s \in touched : s \notin locked \cup ToSet(order) \cup Live}
Due == /\ stack # <<>> /\ order # <<>>
       /\ Head(stack).do = "evict" /\ Head(stack).size > MaxSessions
Bounded == Cardinality(Live) <= MaxSessions + Threshold + Cardinality(Left)
                                + (IF Due THEN 1 ELSE 0)

SizeInv == LruInv /\ Bus /\ Interrupted /\ CalledBack /\ Bounded

-----------------------------------------------------------------------------
\* Frames: what each kind carries, and that the ones that are pushed are frames.
LEMMA FrameLemma ==
  ASSUME NEW f \in Frames
  PROVE  /\ f.do \in {"emit", "evict", "delete", "gc", "handle", "drain"}
         /\ f.do = "emit" => f.event \in Events
         /\ f.do = "evict" => f.size \in Nat
         /\ f.do = "delete" => f.id \in Ids
         /\ f.do = "gc" => f.at \in 0..N
         /\ f.do = "handle" => f.event \in Events /\ f.left \in Nat
BY DEF Frames

\* What the calls and the steps push are frames.
LEMMA MadeLemma ==
  /\ \A t \in Low \cup High, s \in Ids : Emit(t, s) \in Frames /\ Emit(t, s).do = "emit"
  /\ \A n \in Nat : [do |-> "evict", size |-> n] \in Frames
  /\ \A s \in Ids : [do |-> "delete", id |-> s] \in Frames
  /\ \A n \in 0..N : [do |-> "gc", at |-> n] \in Frames
  /\ \A e \in Events : Handle(e) \in Frames /\ Handle(e).do = "handle"
  /\ [do |-> "drain"] \in Frames
  /\ \A f \in Frames : f.do = "handle" /\ f.left > 0 =>
       LET g == [f EXCEPT !.left = @ - 1] IN g \in Frames /\ g.do = "handle"
BY SessionsAssumption DEF Frames, Events, Emit, Handle

\* The stack of which p replaces the top.
Over(p, q) == p \o Tail(q)

\* The frames of a stack of which p replaces the top.
LEMMA ReplaceLemma ==
  ASSUME NEW p \in Seq(Frames), NEW q \in Seq(Frames), q # <<>>
  PROVE  LET r == Over(p, q)
         IN /\ r \in Seq(Frames)
            /\ DOMAIN r = 1..(Len(p) + Len(q) - 1)
            /\ Len(p) \in Nat /\ Len(q) \in Nat /\ Len(q) > 0
            /\ DOMAIN p = 1..Len(p) /\ DOMAIN q = 1..Len(q)
            /\ \A i \in 1..Len(p) : r[i] = p[i]
            /\ \A i \in 2..Len(q) : /\ i + Len(p) - 1 \in DOMAIN r
                                    /\ r[i + Len(p) - 1] = q[i]
            /\ \A i \in DOMAIN r : i <= Len(p) \/ (/\ i - Len(p) + 1 \in 2..Len(q)
                                                   /\ r[i] = q[i - Len(p) + 1])
            /\ Head(q) = q[1] /\ Head(q) \in Frames /\ Tail(q) \in Seq(Frames)
<1> DEFINE t == Tail(q)
           r == p \o t
           k == Len(p)
           n == Len(q)
<1>1. /\ t \in Seq(Frames) /\ Len(t) = n - 1 /\ \A i \in 1..Len(t) : t[i] = q[i + 1]
      /\ Head(q) = q[1] /\ Head(q) \in Frames
  BY HeadTailProperties
<1>2. /\ r \in Seq(Frames) /\ Len(r) = k + Len(t)
      /\ \A i \in 1..(k + Len(t)) : r[i] = IF i <= k THEN p[i] ELSE t[i - k]
  BY <1>1, ConcatProperties
<1>3. k \in Nat /\ n \in Nat /\ n > 0 /\ DOMAIN p = 1..k /\ DOMAIN q = 1..n
  BY LenProperties, EmptySeq
<1>4. DOMAIN r = 1..(k + n - 1)
  BY <1>1, <1>2, <1>3, LenProperties
<1> HIDE DEF t, r, k, n
<1>5. \A i \in 1..k : r[i] = p[i]
  BY <1>1, <1>2, <1>3
<1>6. ASSUME NEW i \in 2..n PROVE i + k - 1 \in DOMAIN r /\ r[i + k - 1] = q[i]
  <2>1. i + k - 1 \in 1..(k + Len(t)) /\ ~(i + k - 1 <= k) /\ (i + k - 1) - k = i - 1
    BY <1>1, <1>3
  <2>2. i - 1 \in 1..Len(t) /\ (i - 1) + 1 = i
    BY <1>1, <1>3
  <2>3. i + k - 1 \in DOMAIN r
    BY <1>3, <1>4
  <2>4. r[i + k - 1] = t[i - 1]
    BY <1>2, <2>1
  <2>5. t[i - 1] = q[i]
    BY <1>1, <2>2
  <2> QED BY <2>3, <2>4, <2>5
<1>7. ASSUME NEW i \in DOMAIN r, ~(i <= k)
      PROVE  i - k + 1 \in 2..n /\ r[i] = q[i - k + 1]
  <2>1. i - k + 1 \in 2..n /\ (i - k + 1) + k - 1 = i
    BY <1>3, <1>4, <1>7
  <2> QED BY <1>6, <2>1
<1> QED BY <1>1, <1>2, <1>3, <1>4, <1>5, <1>6, <1>7 DEF r, t, k, n, Over

\* The deletions of a stack of which p replaces the top.
LEMMA DeletesLemma ==
  ASSUME NEW p \in Seq(Frames), NEW q \in Seq(Frames), q # <<>>
  PROVE  /\ Over(p, q) \in Seq(Frames)
         /\ Deletes(Over(p, q)) = Deletes(p) \cup Deletes(Tail(q))
         /\ Head(q).do = "delete" => Deletes(q) = Deletes(Tail(q)) \cup {Head(q).id}
         /\ Head(q).do # "delete" => Deletes(q) = Deletes(Tail(q))
<1> DEFINE r == Over(p, q)
           t == Tail(q)
<1>1. /\ r \in Seq(Frames) /\ DOMAIN r = 1..(Len(p) + (Len(q) - 1))
      /\ Len(p) \in Nat /\ Len(q) \in Nat /\ Len(q) > 0
      /\ DOMAIN p = 1..Len(p) /\ DOMAIN q = 1..Len(q)
      /\ \A i \in 1..Len(p) : r[i] = p[i]
      /\ \A i \in 2..Len(q) : i + (Len(p) - 1) \in DOMAIN r /\ r[i + (Len(p) - 1)] = q[i]
      /\ \A i \in DOMAIN r : i <= Len(p) \/ (/\ (i - Len(p)) + 1 \in 2..Len(q)
                                             /\ r[i] = q[(i - Len(p)) + 1])
      /\ Head(q) = q[1]
  BY ReplaceLemma
<1>2. /\ DOMAIN t = 1..(Len(q) - 1) /\ \A i \in 1..(Len(q) - 1) : t[i] = q[i + 1]
  <2>1. t \in Seq(Frames) /\ Len(t) = Len(q) - 1 /\ \A i \in 1..Len(t) : t[i] = q[i + 1]
    BY HeadTailProperties
  <2> QED BY <2>1, LenProperties
<1> HIDE DEF r, t
<1>3. \A i \in 2..Len(q) : i - 1 \in DOMAIN t /\ t[i - 1] = q[i]
  BY <1>1, <1>2
<1>4. \A i \in DOMAIN t : i + 1 \in 2..Len(q) /\ t[i] = q[i + 1]
  BY <1>1, <1>2
<1>5. Deletes(r) = Deletes(p) \cup Deletes(t)
  <2>1. ASSUME NEW x \in Deletes(r) PROVE x \in Deletes(p) \cup Deletes(t)
    <3>1. PICK i \in DOMAIN r : r[i].do = "delete" /\ r[i].id = x
      BY DEF Deletes
    <3>2. CASE i <= Len(p)
      <4>1. i \in DOMAIN p /\ r[i] = p[i]
        BY <1>1, <3>2
      <4> QED BY <3>1, <4>1 DEF Deletes
    <3>3. CASE ~(i <= Len(p))
      <4>1. PICK j \in 2..Len(q) : r[i] = q[j]
        BY <1>1, <3>3
      <4>2. j - 1 \in DOMAIN t /\ t[j - 1] = r[i]
        BY <1>3, <4>1
      <4> QED BY <3>1, <4>2 DEF Deletes
    <3> QED BY <3>2, <3>3
  <2>2. ASSUME NEW x \in Deletes(p) PROVE x \in Deletes(r)
    <3>1. PICK i \in DOMAIN p : p[i].do = "delete" /\ p[i].id = x
      BY DEF Deletes
    <3>2. i \in DOMAIN r /\ r[i] = p[i]
      BY <1>1, <3>1
    <3> QED BY <3>1, <3>2 DEF Deletes
  <2>3. ASSUME NEW x \in Deletes(t) PROVE x \in Deletes(r)
    <3>1. PICK i \in DOMAIN t : t[i].do = "delete" /\ t[i].id = x
      BY DEF Deletes
    <3>2. PICK j \in 2..Len(q) : t[i] = q[j]
      BY <1>4
    <3>3. j + (Len(p) - 1) \in DOMAIN r /\ r[j + (Len(p) - 1)] = t[i]
      BY <1>1, <3>2
    <3> QED BY <3>1, <3>3 DEF Deletes
  <2> QED BY <2>1, <2>2, <2>3
<1>6. Deletes(q) = Deletes(t) \cup (IF q[1].do = "delete" THEN {q[1].id} ELSE {})
  <2>1. ASSUME NEW x \in Deletes(q)
        PROVE  x \in Deletes(t) \/ (q[1].do = "delete" /\ q[1].id = x)
    <3>1. PICK i \in DOMAIN q : q[i].do = "delete" /\ q[i].id = x
      BY DEF Deletes
    <3>2. CASE i # 1
      <4>1. i - 1 \in DOMAIN t /\ t[i - 1] = q[i]
        BY <1>1, <1>3, <3>2
      <4> QED BY <3>1, <4>1 DEF Deletes
    <3> QED BY <3>1, <3>2
  <2>2. ASSUME NEW x \in Deletes(t) PROVE x \in Deletes(q)
    <3>1. PICK i \in DOMAIN t : t[i].do = "delete" /\ t[i].id = x
      BY DEF Deletes
    <3>2. i + 1 \in DOMAIN q /\ t[i] = q[i + 1]
      BY <1>1, <1>4
    <3> QED BY <3>1, <3>2 DEF Deletes
  <2>3. q[1].do = "delete" => q[1].id \in Deletes(q)
    <3>1. 1 \in DOMAIN q
      BY <1>1
    <3> QED BY <3>1 DEF Deletes
  <2> QED BY <2>1, <2>2, <2>3
<1> QED BY <1>1, <1>5, <1>6 DEF r, t

\* A list of frames without deletions; the lists that the steps push.
LEMMA NoDeletesLemma ==
  ASSUME NEW p \in Seq(Frames), \A i \in DOMAIN p : p[i].do # "delete"
  PROVE  Deletes(p) = {}
BY DEF Deletes

\* The lists that the steps push, and the deletions among them.
LEMMA ListsLemma ==
  /\ <<>> \in Seq(Frames) /\ Deletes(<<>>) = {}
  /\ \A f \in Frames : /\ <<f>> \in Seq(Frames)
                       /\ f.do # "delete" => Deletes(<<f>>) = {}
  /\ \A f, g \in Frames : /\ <<f, g>> \in Seq(Frames)
                          /\ f.do # "delete" /\ g.do # "delete" => Deletes(<<f, g>>) = {}
  /\ \A f, d, g, h \in Frames :
       /\ <<f, d, g, h>> \in Seq(Frames)
       /\ f.do # "delete" /\ d.do = "delete" /\ g.do # "delete" /\ h.do # "delete"
            => Deletes(<<f, d, g, h>>) = {d.id}
<1>1. <<>> \in Seq(Frames) /\ Deletes(<<>>) = {}
  <2>1. <<>> \in Seq(Frames) /\ DOMAIN <<>> = {}
    BY EmptySeq, LenProperties
  <2> QED BY <2>1 DEF Deletes
<1>2. ASSUME NEW f \in Frames
      PROVE  <<f>> \in Seq(Frames) /\ (f.do # "delete" => Deletes(<<f>>) = {})
  <2>1. <<f>> \in Seq(Frames) /\ DOMAIN <<f>> = {1} /\ <<f>>[1] = f
    OBVIOUS
  <2> QED BY <2>1 DEF Deletes
<1>3. ASSUME NEW f \in Frames, NEW g \in Frames
      PROVE  /\ <<f, g>> \in Seq(Frames)
             /\ f.do # "delete" /\ g.do # "delete" => Deletes(<<f, g>>) = {}
  <2>1. <<f, g>> \in Seq(Frames) /\ DOMAIN <<f, g>> = 1..2 /\ Len(<<f, g>>) = 2
    OBVIOUS
  <2>2. <<f, g>>[1] = f /\ <<f, g>>[2] = g
    OBVIOUS
  <2> DEFINE q == <<f, g>>
  <2> HIDE DEF q
  <2>3. \A i \in DOMAIN q : q[i] = f \/ q[i] = g
    BY <2>1, <2>2 DEF q
  <2>4. f.do # "delete" /\ g.do # "delete" => Deletes(q) = {}
    BY <2>3 DEF Deletes
  <2> QED BY <2>1, <2>4 DEF q
<1>4. ASSUME NEW f \in Frames, NEW d \in Frames, NEW g \in Frames, NEW h \in Frames
      PROVE  /\ <<f, d, g, h>> \in Seq(Frames)
             /\ f.do # "delete" /\ d.do = "delete" /\ g.do # "delete" /\ h.do # "delete"
                  => Deletes(<<f, d, g, h>>) = {d.id}
  <2> DEFINE q == <<f, d, g, h>>
  <2>1. q \in Seq(Frames) /\ DOMAIN q = 1..4
    OBVIOUS
  <2>2. q[1] = f /\ q[2] = d /\ q[3] = g /\ q[4] = h
    OBVIOUS
  <2> HIDE DEF q
  <2>3. \A i \in DOMAIN q : q[i] = f \/ q[i] = d \/ q[i] = g \/ q[i] = h
    BY <2>1, <2>2
  <2>4. 2 \in DOMAIN q
    BY <2>1
  <2>5. f.do # "delete" /\ d.do = "delete" /\ g.do # "delete" /\ h.do # "delete"
          => Deletes(q) = {d.id}
    BY <2>2, <2>3, <2>4 DEF Deletes
  <2> QED BY <2>1, <2>5 DEF q
<1> QED BY <1>1, <1>2, <1>3, <1>4

\* A call pushes its steps: with no deletion among them, the same sessions are
\* evicted.
LEMMA CallLemma ==
  ASSUME stack \in Seq(Frames), CanCall, NEW p \in Seq(Frames), Push(p),
         \A i \in DOMAIN p : p[i].do # "delete"
  PROVE  stack' \in Seq(Frames) /\ Evicting' = Evicting
<1>1. Deletes(p) = {}
  BY NoDeletesLemma
<1>2. CASE stack = <<>>
  BY <1>1, <1>2, ListsLemma DEF Push, Evicting
<1>3. CASE stack # <<>>
  <2> DEFINE g == [Head(stack) EXCEPT !.left = @ - 1]
  <2>1. Head(stack) \in Frames /\ Head(stack).do = "handle" /\ Head(stack).left > 0
    BY <1>3, HeadTailProperties DEF CanCall, InHandler
  <2>2. g \in Frames /\ g.do = "handle"
    BY <2>1, MadeLemma
  <2> HIDE DEF g
  <2>3. <<g>> \in Seq(Frames) /\ Deletes(<<g>>) = {}
    BY <2>2, ListsLemma
  <2>4. Over(<<g>>, stack) \in Seq(Frames)
        /\ Deletes(Over(<<g>>, stack)) = Deletes(Tail(stack))
        /\ Deletes(stack) = Deletes(Tail(stack))
    <3> DEFINE w == <<g>>
    <3>1. /\ w \in Seq(Frames) /\ Deletes(w) = {}
          /\ stack \in Seq(Frames) /\ stack # <<>> /\ Head(stack).do # "delete"
      BY <1>3, <2>1, <2>3
    <3> HIDE DEF w
    <3>2. Over(w, stack) \in Seq(Frames) /\ Deletes(Over(w, stack)) = Deletes(Tail(stack))
      <4>1. /\ Over(w, stack) \in Seq(Frames)
            /\ Deletes(Over(w, stack)) = Deletes(w) \cup Deletes(Tail(stack))
        BY ONLY <3>1, DeletesLemma
      <4> QED BY ONLY <3>1, <4>1
    <3>3. Deletes(stack) = Deletes(Tail(stack))
      BY ONLY <3>1, DeletesLemma
    <3> QED BY <3>2, <3>3 DEF w
  <2>5. p \o <<g>> \in Seq(Frames)
    BY <2>3, ConcatProperties
  <2>6. stack' = Over(p \o <<g>>, stack)
    BY <1>3 DEF Push, g, Over
  <2>7. Deletes(p \o <<g>>) = {}
    <3>1. \A i \in DOMAIN (p \o <<g>>) : (p \o <<g>>)[i].do # "delete"
      <4>1. /\ Len(p) \in Nat /\ DOMAIN p = 1..Len(p) /\ Len(<<g>>) = 1 /\ <<g>>[1] = g
        BY LenProperties
      <4>2. /\ Len(p \o <<g>>) = Len(p) + Len(<<g>>)
            /\ \A i \in 1..(Len(p) + Len(<<g>>)) :
                 (p \o <<g>>)[i] = IF i <= Len(p) THEN p[i] ELSE <<g>>[i - Len(p)]
        BY <2>3, ConcatProperties
      <4>3. DOMAIN (p \o <<g>>) = 1..(Len(p) + 1)
        BY <2>5, <4>1, <4>2, LenProperties
      <4>4. ASSUME NEW i \in 1..(Len(p) + 1) PROVE (p \o <<g>>)[i].do # "delete"
        <5>1. CASE i <= Len(p)
          BY <4>1, <4>2, <5>1
        <5>2. CASE ~(i <= Len(p))
          <6>1. i - Len(p) = 1
            BY <4>1, <5>2
          <6> QED BY <2>2, <4>1, <4>2, <5>2, <6>1
        <5> QED BY <5>1, <5>2
      <4> QED BY <4>3, <4>4
    <3> QED BY <2>5, <3>1, NoDeletesLemma
  <2>8. stack' \in Seq(Frames) /\ Deletes(stack') = Deletes(Tail(stack))
    <3> DEFINE w == p \o <<g>>
    <3>1. /\ w \in Seq(Frames) /\ Deletes(w) = {} /\ stack' = Over(w, stack)
          /\ stack \in Seq(Frames) /\ stack # <<>>
      BY <1>3, <2>5, <2>6, <2>7
    <3> HIDE DEF w
    <3>2. /\ Over(w, stack) \in Seq(Frames)
          /\ Deletes(Over(w, stack)) = Deletes(w) \cup Deletes(Tail(stack))
      BY ONLY <3>1, DeletesLemma
    <3> QED BY ONLY <3>1, <3>2
  <2> QED BY <2>4, <2>8 DEF Evicting
<1> QED BY <1>2, <1>3

\* The sets of sessions are finite.
LEMMA IdsLemma ==
  /\ IsFiniteSet(Ids) /\ Ids \in SUBSET Nat
  /\ \A T \in SUBSET Ids : IsFiniteSet(T) /\ Cardinality(T) \in Nat
<1>1. IsFiniteSet(Ids)
  BY SessionsAssumption, FS_Interval DEF Ids
<1>2. Ids \in SUBSET Nat
  BY SessionsAssumption DEF Ids
<1>3. ASSUME NEW T \in SUBSET Ids PROVE IsFiniteSet(T) /\ Cardinality(T) \in Nat
  BY <1>1, FS_Subset, FS_CardinalityType
<1> QED BY <1>1, <1>2, <1>3

\* Every call pushes a few events, an eviction or a walk, and no deletion.
Plain == {f \in Frames : f.do \in {"emit", "evict", "gc"}}

\* A list of plain frames is a list of frames.
LEMMA PlainLemma ==
  ASSUME NEW p \in Seq(Plain)
  PROVE  p \in Seq(Frames) /\ \A i \in DOMAIN p : p[i].do \in {"emit", "evict", "gc"}
<1>1. DOMAIN p = 1..Len(p) /\ \A i \in 1..Len(p) : p[i] \in Plain
  BY LenProperties, ElementOfSeq
<1>2. \A i \in 1..Len(p) : p[i] \in Frames
  BY <1>1 DEF Plain
<1>3. p \in Seq(Frames)
  BY <1>1, <1>2, SeqDef, LenProperties
<1> QED BY <1>1, <1>3 DEF Plain

\* Every call comes from outside or from a handler, and pushes plain frames.
LEMMA CallsLemma ==
  ASSUME SessionTypes, SessionCalls
  PROVE  CanCall /\ emitting' = emitting /\ \E p \in Seq(Plain) : Push(p)
<1>1. /\ \A t \in Low \cup High, s \in Ids : Emit(t, s) \in Plain
      /\ \A n \in Nat : [do |-> "evict", size |-> n] \in Plain
      /\ [do |-> "gc", at |-> 0] \in Plain
      /\ <<>> \in Seq(Plain)
  BY MadeLemma, SessionsAssumption, EmptySeq DEF Plain
<1>2. \A t \in Low \cup High, s \in Ids : <<Emit(t, s)>> \in Seq(Plain)
  BY <1>1
<1>3. ASSUME NEW s \in Ids, Create(s)
      PROVE  CanCall /\ emitting' = emitting /\ \E p \in Seq(Plain) : Push(p)
  <2> DEFINE n == Cardinality(InMap) + 1
             v == [do |-> "evict", size |-> n]
             e == Emit("created", s)
             u == IF n > MaxSessions + Threshold THEN <<v>> ELSE <<>>
  <2>1. v \in Plain /\ e \in Plain
    <3>1. n \in Nat
      BY IdsLemma DEF InMap
    <3> QED BY <1>1, <3>1 DEF High
  <2>2. u \in Seq(Plain) /\ <<e>> \in Seq(Plain)
    BY <1>1, <2>1
  <2>3. Push(u \o <<e>>) /\ CanCall /\ emitting' = emitting
    BY <1>3 DEF Create, bus
  <2> QED BY <2>2, <2>3, ConcatProperties
<1>4. ASSUME NEW s \in Ids, Get(s)
      PROVE  CanCall /\ emitting' = emitting /\ \E p \in Seq(Plain) : Push(p)
  BY <1>2, <1>4 DEF Get, bus, High
<1>5. ASSUME NEW s \in Ids, Access(s)
      PROVE  CanCall /\ emitting' = emitting /\ \E p \in Seq(Plain) : Push(p)
  BY <1>1, <1>2, <1>5 DEF Access, bus, Low
<1>6. ASSUME NEW s \in Ids, LockExpired(s)
      PROVE  CanCall /\ emitting' = emitting /\ \E p \in Seq(Plain) : Push(p)
  BY <1>2, <1>6 DEF LockExpired, bus, High
<1>7. ASSUME NEW s \in Ids, Destroy(s)
      PROVE  CanCall /\ emitting' = emitting /\ \E p \in Seq(Plain) : Push(p)
  BY <1>2, <1>7 DEF Destroy, bus, High
<1>8. ASSUME NEW s \in Ids, NEW h \in Holders, Lock(h, s)
      PROVE  CanCall /\ emitting' = emitting /\ \E p \in Seq(Plain) : Push(p)
  BY <1>2, <1>8 DEF Lock, bus, Low
<1>9. ASSUME NEW h \in Holders, Unlock(h)
      PROVE  CanCall /\ emitting' = emitting /\ \E p \in Seq(Plain) : Push(p)
  <2>1. holds[h] \in Ids
    BY <1>9 DEF Unlock, SessionTypes
  <2> QED BY <1>2, <1>9, <2>1 DEF Unlock, bus, Low
<1>10. ASSUME List
       PROVE  CanCall /\ emitting' = emitting /\ \E p \in Seq(Plain) : Push(p)
  <2> DEFINE newly == {s \in Ids : status[s] = "active" /\ s \in old}
             n == Cardinality(newly)
  <2>1. CanCall /\ emitting' = emitting
    BY <1>10 DEF List, bus
  <2>2. n \in Nat
    BY IdsLemma
  <2>3. PICK q \in [1..n -> newly] : Push([i \in 1..n |-> Emit("expired", q[i])])
    BY <1>10 DEF List
  <2> DEFINE p == [i \in 1..n |-> Emit("expired", q[i])]
  <2>4. \A i \in 1..n : Emit("expired", q[i]) \in Plain
    BY <1>1, <2>3 DEF High
  <2>5. p \in [1..n -> Plain]
    BY <2>4
  <2>6. p \in Seq(Plain)
    <3> HIDE DEF p, n
    <3> QED BY <2>2, <2>5, SeqDef
  <2> QED BY <2>1, <2>3, <2>6
<1>11. ASSUME GC
       PROVE  CanCall /\ emitting' = emitting /\ \E p \in Seq(Plain) : Push(p)
  <2>1. <<[do |-> "gc", at |-> 0]>> \in Seq(Plain)
    BY <1>1
  <2> QED BY <1>11, <2>1 DEF GC, bus
<1>12. ASSUME Dispose
       PROVE  CanCall /\ emitting' = emitting /\ \E p \in Seq(Plain) : Push(p)
  BY <1>1, <1>12 DEF Dispose
<1> QED BY <1>3, <1>4, <1>5, <1>6, <1>7, <1>8, <1>9, <1>10, <1>11, <1>12 DEF SessionCalls


\* What taking a session out of the order, and making it the newest, does to it.
LEMMA OrderLemma ==
  ASSUME order \in Seq(Ids), IsInjective(order), NEW s \in Ids
  PROVE  /\ Without(s) \in Seq(Ids) /\ IsInjective(Without(s))
         /\ ToSet(Without(s)) = ToSet(order) \ {s}
         /\ Newest(s) \in Seq(Ids) /\ IsInjective(Newest(s))
         /\ ToSet(Newest(s)) = ToSet(order) \cup {s}
<1>1. /\ Without(s) \in Seq(Ids) /\ IsInjective(Without(s))
      /\ ToSet(Without(s)) = ToSet(order) \ {s}
  BY SpliceLemma DEF Without
<1>2. /\ Newest(s) \in Seq(Ids) /\ IsInjective(Newest(s))
      /\ ToSet(Newest(s)) = ToSet(Without(s)) \cup {s}
  BY <1>1, PushLemma DEF Newest
<1> QED BY <1>1, <1>2

\* Apart from create(), no step draws an id.
LEMMA DrawnLemma ==
  ASSUME Drawn, Fresh, \A s \in Ids : status'[s] = "new" <=> status[s] = "new",
         \A s \in touched' \cup Evicting' : s \in touched \cup Evicting \cup InMap
  PROVE  Drawn' /\ Fresh'
<1>1. {s \in Ids : status'[s] # "new"} = {s \in Ids : status[s] # "new"}
  OBVIOUS
<1> QED BY <1>1 DEF Drawn, Fresh, InMap

\* The calls leave the stack and the evicted sessions as they were.
LEMMA CallStackLemma ==
  ASSUME SessionTypes, SessionCalls
  PROVE  stack' \in Seq(Frames) /\ Evicting' = Evicting
<1>1. CanCall /\ \E p \in Seq(Plain) : Push(p)
  BY CallsLemma
<1>2. PICK p \in Seq(Plain) : Push(p)
  BY <1>1
<1>3. p \in Seq(Frames) /\ \A i \in DOMAIN p : p[i].do # "delete"
  BY PlainLemma
<1>4. stack \in Seq(Frames)
  BY DEF SessionTypes
<1> QED BY <1>1, <1>2, <1>3, <1>4, CallLemma

\* What the LRU needs of a step that draws no id.
LEMMA LruLemma ==
  ASSUME LruInv, SessionTypes', Agree', Apart',
         \A s \in Ids : status'[s] = "new" <=> status[s] = "new",
         \A s \in touched' \cup Evicting' : s \in touched \cup Evicting \cup InMap
  PROVE  LruInv'
BY DrawnLemma DEF LruInv

\* create() draws an id that none of the structures knows.
LEMMA CreateLru ==
  ASSUME LruInv, NEW s \in Ids, Create(s), stack' \in Seq(Frames), Evicting' = Evicting
  PROVE  LruInv' /\ status[s] = "new"
<1>1. SessionTypes /\ Drawn /\ Fresh /\ Agree /\ Apart
  BY DEF LruInv
<1>2. /\ s = Cardinality({x \in Ids : status[x] # "new"}) + 1
      /\ status' = [status EXCEPT ![s] = "active"] /\ order' = Append(order, s)
      /\ old' = old /\ locked' = locked /\ holds' = holds /\ touched' = touched
      /\ listening' = listening /\ emitting' = emitting /\ pending' = pending
  BY DEF Create, bus
<1>3. PICK k \in 0..N : {x \in Ids : status[x] # "new"} = 1..k
  BY <1>1 DEF Drawn
<1>4. k \in Nat /\ N \in Nat
  BY SessionsAssumption
<1>5. Cardinality(1..k) = k
  BY <1>4, FS_Interval
<1>6. s = k + 1 /\ s \notin 1..k /\ s \in 1..N
  <2>1. s = k + 1
    BY <1>2, <1>3, <1>5
  <2> QED BY <1>4, <2>1 DEF Ids
<1>7. status[s] = "new"
  BY <1>3, <1>6
<1>8. /\ s \notin touched /\ s \notin Evicting
      /\ s \notin locked /\ s \notin ToSet(order)
  BY <1>1, <1>7 DEF Fresh, Agree
<1>9. /\ order' \in Seq(Ids) /\ ToSet(order') = ToSet(order) \cup {s}
      /\ IsInjective(order')
  <2>1. order \in Seq(Ids) /\ IsInjective(order)
    BY <1>1 DEF SessionTypes, Apart
  <2> QED BY <1>2, <1>8, <2>1, PushLemma
<1>10. SessionTypes'
  BY <1>1, <1>2, <1>9 DEF SessionTypes
<1>11. \A x \in Ids : status'[x] = IF x = s THEN "active" ELSE status[x]
  BY <1>1, <1>2 DEF SessionTypes
<1>12. Drawn'
  <2>1. {x \in Ids : status'[x] # "new"} = (1..k) \cup {s}
    BY <1>3, <1>11
  <2>2. (1..k) \cup {s} = 1..(k + 1) /\ k + 1 \in 0..N
    BY <1>4, <1>6
  <2> QED BY <2>1, <2>2 DEF Drawn
<1>13. Fresh'
  BY <1>1, <1>2, <1>11 DEF Fresh
<1>14. Agree'
  BY <1>1, <1>2, <1>8, <1>9, <1>11 DEF Agree
<1>15. Apart'
  BY <1>1, <1>2, <1>8, <1>9 DEF Apart
<1> QED BY <1>7, <1>10, <1>12, <1>13, <1>14, <1>15 DEF LruInv


\* Every call keeps the map and the LRU in agreement.
LEMMA CallLru ==
  ASSUME LruInv, SessionCalls
  PROVE  LruInv'
<1>1. SessionTypes /\ Drawn /\ Fresh /\ Agree /\ Apart
  BY DEF LruInv
<1>2. stack' \in Seq(Frames) /\ Evicting' = Evicting
  BY <1>1, CallStackLemma
<1>3. order \in Seq(Ids) /\ IsInjective(order) /\ locked \cap ToSet(order) = {}
  BY <1>1 DEF SessionTypes, Apart
<1>4. \A s \in Ids :
        /\ Without(s) \in Seq(Ids) /\ IsInjective(Without(s))
        /\ ToSet(Without(s)) = ToSet(order) \ {s}
        /\ Newest(s) \in Seq(Ids) /\ IsInjective(Newest(s))
        /\ ToSet(Newest(s)) = ToSet(order) \cup {s}
  BY <1>3, OrderLemma
<1>5. ASSUME NEW s \in Ids, Create(s) PROVE LruInv'
  BY <1>2, <1>5, CreateLru
<1>6. ASSUME NEW s \in Ids, Get(s) PROVE LruInv'
  <2>1. /\ status[s] = "active" /\ status' = [status EXCEPT ![s] = "expired"]
        /\ old' = old /\ order' = order /\ locked' = locked /\ holds' = holds
        /\ listening' = listening /\ emitting' = emitting /\ pending' = pending
        /\ touched' = touched
    BY <1>6 DEF Get, bus
  <2>2. \A x \in Ids : status'[x] = IF x = s THEN "expired" ELSE status[x]
    BY <1>1, <2>1 DEF SessionTypes
  <2>3. SessionTypes'
    BY <1>1, <1>2, <2>1 DEF SessionTypes
  <2>4. Agree'
    BY <1>1, <1>2, <2>1, <2>2 DEF Agree
  <2>5. Apart'
    BY <1>1, <2>1 DEF Apart
  <2> QED BY <1>2, <2>1, <2>2, <2>3, <2>4, <2>5, LruLemma
<1>7. ASSUME NEW s \in Ids, Access(s) PROVE LruInv'
  <2>1. /\ status[s] = "active"
        /\ locked' = locked /\ holds' = holds
        /\ listening' = listening /\ emitting' = emitting /\ pending' = pending
    BY <1>7 DEF Access, bus
  <2>2. CASE /\ status' = [status EXCEPT ![s] = "expired"]
             /\ old' = old /\ order' = order /\ touched' = touched
    <3>1. \A x \in Ids : status'[x] = IF x = s THEN "expired" ELSE status[x]
      BY <1>1, <2>2 DEF SessionTypes
    <3>2. SessionTypes'
      BY <1>1, <1>2, <2>1, <2>2 DEF SessionTypes
    <3>3. Agree'
      BY <1>1, <1>2, <2>1, <2>2, <3>1 DEF Agree
    <3>4. Apart'
      BY <1>1, <2>1, <2>2 DEF Apart
    <3> QED BY <1>2, <2>1, <2>2, <3>1, <3>2, <3>3, <3>4, LruLemma
  <2>3. CASE /\ order' = IF s \in locked THEN order ELSE Newest(s)
             /\ touched' = touched \cup ({s} \cap Evicting)
             /\ status' = status /\ old' = old
    <3>1. /\ order' \in Seq(Ids) /\ IsInjective(order')
          /\ ToSet(order') = IF s \in locked THEN ToSet(order) ELSE ToSet(order) \cup {s}
      BY <1>3, <1>4, <2>3
    <3>2. SessionTypes'
      BY <1>1, <1>2, <2>1, <2>3, <3>1 DEF SessionTypes
    <3>3. Agree'
      BY <1>1, <1>2, <2>1, <2>3, <3>1 DEF Agree
    <3>4. Apart'
      BY <1>3, <2>1, <3>1 DEF Apart
    <3>5. \A x \in touched' \cup Evicting' : x \in touched \cup Evicting \cup InMap
      BY <1>2, <2>3
    <3> QED BY <2>3, <3>2, <3>3, <3>4, <3>5, LruLemma
  <2> QED BY <1>7, <2>2, <2>3 DEF Access, Touch
<1>8. ASSUME NEW s \in Ids, LockExpired(s) PROVE LruInv'
  <2>1. /\ status[s] \in {"active", "expired"}
        /\ status' = [status EXCEPT ![s] = "expired"]
        /\ old' = old /\ order' = order /\ locked' = locked /\ holds' = holds
        /\ listening' = listening /\ emitting' = emitting /\ pending' = pending
        /\ touched' = touched
    BY <1>8 DEF LockExpired, IsExpired, bus
  <2>2. \A x \in Ids : status'[x] = IF x = s THEN "expired" ELSE status[x]
    BY <1>1, <2>1 DEF SessionTypes
  <2>3. SessionTypes'
    BY <1>1, <1>2, <2>1 DEF SessionTypes
  <2>4. Agree'
    BY <1>1, <1>2, <2>1, <2>2 DEF Agree
  <2>5. Apart'
    BY <1>1, <2>1 DEF Apart
  <2> QED BY <1>2, <2>1, <2>2, <2>3, <2>4, <2>5, LruLemma
<1>9. ASSUME NEW s \in Ids, Destroy(s) PROVE LruInv'
  <2>1. /\ status[s] # "new" /\ status' = [status EXCEPT ![s] = "gone"]
        /\ order' = Without(s) /\ locked' = locked \ {s} /\ old' = old \ {s}
        /\ holds' = [h \in Holders |-> IF holds[h] \in {s} THEN NoSession ELSE holds[h]]
        /\ listening' = listening /\ emitting' = emitting /\ pending' = pending
        /\ touched' = touched
    BY <1>9 DEF Destroy, Forget, bus
  <2>2. \A x \in Ids : status'[x] = IF x = s THEN "gone" ELSE status[x]
    BY <1>1, <2>1 DEF SessionTypes
  <2>3. /\ order' \in Seq(Ids) /\ IsInjective(order')
        /\ ToSet(order') = ToSet(order) \ {s}
    BY <1>4, <2>1
  <2>4. SessionTypes'
    BY <1>1, <1>2, <2>1, <2>3 DEF SessionTypes
  <2>5. Agree'
    BY <1>1, <1>2, <2>1, <2>2, <2>3 DEF Agree
  <2>6. Apart'
    BY <1>3, <2>1, <2>3 DEF Apart
  <2> QED BY <1>2, <2>1, <2>2, <2>4, <2>5, <2>6, LruLemma
<1>10. ASSUME NEW s \in Ids, NEW h \in Holders, Lock(h, s) PROVE LruInv'
  <2>1. /\ status[s] \in {"active", "locked"}
        /\ status' = [status EXCEPT ![s] = "locked"]
        /\ order' = Without(s) /\ locked' = locked \cup {s} /\ old' = old
        /\ holds' = [holds EXCEPT ![h] = s]
        /\ listening' = listening /\ emitting' = emitting /\ pending' = pending
        /\ touched' = touched \cup ({s} \cap Evicting)
    BY <1>10 DEF Lock, Touch, InMap, IsExpired, bus
  <2>2. \A x \in Ids : status'[x] = IF x = s THEN "locked" ELSE status[x]
    BY <1>1, <2>1 DEF SessionTypes
  <2>3. /\ order' \in Seq(Ids) /\ IsInjective(order')
        /\ ToSet(order') = ToSet(order) \ {s}
    BY <1>4, <2>1
  <2>4. SessionTypes'
    BY <1>1, <1>2, <2>1, <2>3 DEF SessionTypes
  <2>5. Agree'
    BY <1>1, <1>2, <2>1, <2>2, <2>3 DEF Agree
  <2>6. Apart'
    BY <1>3, <2>1, <2>3 DEF Apart
  <2>7. \A x \in touched' \cup Evicting' : x \in touched \cup Evicting \cup InMap
    BY <1>2, <2>1
  <2> QED BY <2>1, <2>2, <2>4, <2>5, <2>6, <2>7, LruLemma
<1>11. ASSUME NEW h \in Holders, Unlock(h) PROVE LruInv'
  <2> DEFINE s == holds[h]
  <2>1. /\ s \in Ids /\ status[s] = "locked"
        /\ status' = [status EXCEPT ![s] = "active"]
        /\ order' = Newest(s) /\ locked' = locked \ {s} /\ old' = old \ {s}
        /\ holds' = holds
        /\ listening' = listening /\ emitting' = emitting /\ pending' = pending
        /\ touched' = touched \cup ({s} \cap Evicting)
    BY <1>1, <1>11 DEF Unlock, Touch, SessionTypes, bus
  <2> HIDE DEF s
  <2>2. \A x \in Ids : status'[x] = IF x = s THEN "active" ELSE status[x]
    BY <1>1, <2>1 DEF SessionTypes
  <2>3. /\ order' \in Seq(Ids) /\ IsInjective(order')
        /\ ToSet(order') = ToSet(order) \cup {s}
    BY <1>4, <2>1
  <2>4. SessionTypes'
    BY <1>1, <1>2, <2>1, <2>3 DEF SessionTypes
  <2>5. Agree'
    BY <1>1, <1>2, <2>1, <2>2, <2>3 DEF Agree
  <2>6. Apart'
    BY <1>3, <2>1, <2>3 DEF Apart
  <2>7. \A x \in touched' \cup Evicting' : x \in touched \cup Evicting \cup InMap
    BY <1>2, <2>1
  <2> QED BY <2>1, <2>2, <2>4, <2>5, <2>6, <2>7, LruLemma
<1>12. ASSUME List PROVE LruInv'
  <2> DEFINE newly == {s \in Ids : status[s] = "active" /\ s \in old}
  <2>1. /\ status' = [s \in Ids |-> IF s \in newly THEN "expired" ELSE status[s]]
        /\ old' = old /\ order' = order /\ locked' = locked /\ holds' = holds
        /\ listening' = listening /\ emitting' = emitting /\ pending' = pending
        /\ touched' = touched
    BY <1>12 DEF List, bus
  <2>2. \A x \in Ids : /\ status'[x] = IF x \in newly THEN "expired" ELSE status[x]
                       /\ x \in newly => status[x] = "active"
    BY <2>1
  <2>3. SessionTypes'
    BY <1>1, <1>2, <2>1 DEF SessionTypes
  <2> HIDE DEF newly
  <2>4. Agree'
    BY <1>1, <1>2, <2>1, <2>2 DEF Agree
  <2>5. Apart'
    BY <1>1, <2>1 DEF Apart
  <2> QED BY <1>2, <2>1, <2>2, <2>3, <2>4, <2>5, LruLemma
<1>13. ASSUME GC PROVE LruInv'
  <2>1. /\ status' = status
        /\ old' = old /\ order' = order /\ locked' = locked /\ holds' = holds
        /\ listening' = listening /\ emitting' = emitting /\ pending' = pending
        /\ touched' = touched
    BY <1>13 DEF GC, core, bus
  <2>2. SessionTypes'
    BY <1>1, <1>2, <2>1 DEF SessionTypes
  <2>3. Agree' /\ Apart'
    BY <1>1, <1>2, <2>1 DEF Agree, Apart
  <2> QED BY <1>2, <2>1, <2>2, <2>3, LruLemma
<1>14. ASSUME Dispose PROVE LruInv'
  <2>1. /\ status' = [s \in Ids |-> IF s \in InMap THEN "gone" ELSE status[s]]
        /\ order' = <<>> /\ locked' = {} /\ old' = old \ Ids
        /\ holds' = [h \in Holders |-> IF holds[h] \in Ids THEN NoSession ELSE holds[h]]
        /\ listening' = FALSE /\ emitting' = emitting /\ pending' = <<>>
        /\ touched' = touched
    BY <1>14 DEF Dispose, Forget
  <2>2. \A x \in Ids : status'[x] \in {"new", "gone"} /\ (status'[x] = "new" <=> status[x] = "new")
    BY <1>1, <2>1 DEF InMap, SessionTypes
  <2>3. order' \in Seq(Ids) /\ ToSet(order') = {} /\ IsInjective(order')
    BY <2>1, NoneLemma
  <2>4. SessionTypes'
    <3>1. pending' \in Seq(Events)
      BY <2>1, EmptySeq
    <3> QED BY <1>1, <1>2, <2>1, <2>3, <3>1 DEF SessionTypes
  <2>5. Agree'
    BY <1>1, <1>2, <2>1, <2>2, <2>3 DEF Agree, Fresh
  <2>6. Apart'
    BY <2>1, <2>3 DEF Apart
  <2> QED BY <1>2, <2>1, <2>2, <2>4, <2>5, <2>6, LruLemma
<1> QED BY <1>5, <1>6, <1>7, <1>8, <1>9, <1>10, <1>11, <1>12, <1>13, <1>14 DEF SessionCalls


\* A step of the innermost call puts p in the place of the top, or takes it off.
LEMMA TopLemma ==
  ASSUME stack \in Seq(Frames), stack # <<>>
  PROVE  /\ Head(stack) \in Frames /\ Rest \in Seq(Frames)
         /\ Head(stack).do = "delete" => Evicting = Deletes(Rest) \cup {Head(stack).id}
         /\ Head(stack).do # "delete" => Evicting = Deletes(Rest)
         /\ stack' = Rest => stack' \in Seq(Frames) /\ Evicting' = Deletes(Rest)
         /\ \A p \in Seq(Frames) : stack' = p \o Rest =>
              stack' \in Seq(Frames) /\ Evicting' = Deletes(p) \cup Deletes(Rest)
<1>1. Head(stack) \in Frames /\ Rest \in Seq(Frames)
  BY HeadTailProperties DEF Rest
<1>2. <<>> \in Seq(Frames)
  BY ListsLemma
<1>3. /\ Head(stack).do = "delete" => Evicting = Deletes(Rest) \cup {Head(stack).id}
      /\ Head(stack).do # "delete" => Evicting = Deletes(Rest)
  BY <1>2, DeletesLemma DEF Evicting, Rest
<1>4. stack' = Rest => stack' \in Seq(Frames) /\ Evicting' = Deletes(Rest)
  BY <1>1 DEF Evicting
<1>5. ASSUME NEW p \in Seq(Frames), stack' = p \o Rest
      PROVE  stack' \in Seq(Frames) /\ Evicting' = Deletes(p) \cup Deletes(Rest)
  <2>1. stack' = Over(p, stack)
    BY <1>5 DEF Over, Rest
  <2>2. /\ Over(p, stack) \in Seq(Frames)
        /\ Deletes(Over(p, stack)) = Deletes(p) \cup Deletes(Rest)
    BY DeletesLemma DEF Rest
  <2> QED BY <2>1, <2>2 DEF Evicting
<1> QED BY <1>1, <1>3, <1>4, <1>5

\* An eviction takes the oldest session out of the order before it leaves the map.
LEMMA EvictLru ==
  ASSUME LruInv, Evict
  PROVE  /\ LruInv'
         /\ order # <<>> /\ Head(stack).size > MaxSessions =>
              /\ Head(order) \in Ids /\ ToSet(order') = ToSet(order) \ {Head(order)}
              /\ Evicting' = Evicting \cup ({Head(order)} \cap InMap)
         /\ ~(order # <<>> /\ Head(stack).size > MaxSessions) =>
              order' = order /\ Evicting' = Evicting
<1> DEFINE n == Head(stack).size
           s == Head(order)
<1>1. SessionTypes /\ Drawn /\ Fresh /\ Agree /\ Apart
  BY DEF LruInv
<1>2. /\ stack # <<>> /\ Head(stack).do = "evict"
      /\ status' = status /\ old' = old /\ locked' = locked /\ holds' = holds
      /\ listening' = listening /\ emitting' = emitting /\ pending' = pending
      /\ touched' = touched
  BY DEF Evict, NextIs, bus
<1>3. /\ stack \in Seq(Frames)
      /\ order \in Seq(Ids) /\ IsInjective(order) /\ locked \cap ToSet(order) = {}
  BY <1>1 DEF SessionTypes, Apart
<1>4. Head(stack) \in Frames /\ n \in Nat /\ Evicting = Deletes(Rest)
  BY <1>2, <1>3, TopLemma, FrameLemma
<1>5. n \in Nat /\ MaxSessions \in Nat \ {0}
  BY <1>4, SessionsAssumption
<1>6. CASE /\ n > MaxSessions /\ order # <<>>
           /\ order' = Tail(order)
           /\ LET more == [do |-> "evict", size |-> n - 1]
              IN stack' = (IF Head(order) \in InMap
                             THEN <<Emit("evicted", Head(order)),
                                    [do |-> "delete", id |-> Head(order)],
                                    Emit("destroyed", Head(order)), more>>
                             ELSE <<more>>) \o Rest
  <2> DEFINE more == [do |-> "evict", size |-> n - 1]
             d == [do |-> "delete", id |-> s]
             e == Emit("evicted", s)
             g == Emit("destroyed", s)
  <2>1. /\ s \in Ids /\ order' \in Seq(Ids) /\ s \in ToSet(order)
        /\ ToSet(order') = ToSet(order) \ {s} /\ IsInjective(order')
    BY <1>3, <1>6, ShiftLemma
  <2>2. /\ more \in Frames /\ more.do # "delete" /\ d \in Frames /\ d.do = "delete" /\ d.id = s
        /\ e \in Frames /\ e.do # "delete" /\ g \in Frames /\ g.do # "delete"
    <3>1. n - 1 \in Nat
      BY <1>5, <1>6
    <3> QED BY <2>1, <3>1, MadeLemma DEF High
  <2>3. s \in InMap => stack' = <<e, d, g, more>> \o Rest
    BY <1>6
  <2>4. s \notin InMap => stack' = <<more>> \o Rest
    BY <1>6
  <2> HIDE DEF more, d, e, g, s
  <2>5. <<e, d, g, more>> \in Seq(Frames) /\ Deletes(<<e, d, g, more>>) = {s}
    BY <2>2, ListsLemma
  <2>6. <<more>> \in Seq(Frames) /\ Deletes(<<more>>) = {}
    BY <2>2, ListsLemma
  <2>7. /\ stack' \in Seq(Frames)
        /\ Evicting' = Evicting \cup ({s} \cap InMap)
    <3>1. CASE s \in InMap
      <4> DEFINE p == <<e, d, g, more>>
      <4>1. p \in Seq(Frames) /\ Deletes(p) = {s} /\ stack' = p \o Rest
        BY <2>3, <2>5, <3>1
      <4> HIDE DEF p
      <4>2. stack' \in Seq(Frames) /\ Evicting' = Deletes(p) \cup Deletes(Rest)
        BY <1>2, <1>3, <4>1, TopLemma
      <4> QED BY <1>4, <3>1, <4>1, <4>2
    <3>2. CASE s \notin InMap
      <4> DEFINE p == <<more>>
      <4>1. p \in Seq(Frames) /\ Deletes(p) = {} /\ stack' = p \o Rest
        BY <2>4, <2>6, <3>2
      <4> HIDE DEF p
      <4>2. stack' \in Seq(Frames) /\ Evicting' = Deletes(p) \cup Deletes(Rest)
        BY <1>2, <1>3, <4>1, TopLemma
      <4> QED BY <1>4, <3>2, <4>1, <4>2
    <3> QED BY <3>1, <3>2
  <2>8. SessionTypes'
    BY <1>1, <1>2, <2>1, <2>7 DEF SessionTypes
  <2>9. Agree'
    BY <1>1, <1>2, <1>3, <2>1, <2>7 DEF Agree, InMap
  <2>10. Apart'
    BY <1>2, <1>3, <2>1 DEF Apart
  <2>11. LruInv'
    BY <1>2, <2>7, <2>8, <2>9, <2>10, LruLemma
  <2> QED BY <1>6, <2>1, <2>7, <2>11 DEF s
<1>7. CASE (n <= MaxSessions \/ order = <<>>) /\ stack' = Rest /\ order' = order
  <2>1. stack' \in Seq(Frames) /\ Evicting' = Evicting
    BY <1>2, <1>3, <1>4, <1>7, TopLemma
  <2>2. SessionTypes'
    BY <1>1, <1>2, <1>7, <2>1 DEF SessionTypes
  <2>3. Agree' /\ Apart'
    BY <1>1, <1>2, <1>7, <2>1 DEF Agree, Apart
  <2>4. LruInv'
    BY <1>2, <2>1, <2>2, <2>3, LruLemma
  <2>5. ~(order # <<>> /\ n > MaxSessions)
    BY <1>5, <1>7
  <2> QED BY <1>7, <2>1, <2>4, <2>5
<1> QED BY <1>6, <1>7 DEF Evict


\* The least element of a set of numbers is one of them.
LEMMA MinLemma ==
  ASSUME NEW T \in SUBSET Nat, T # {}
  PROVE  Min(T) \in T
<1>1. \E n \in T : \A m \in T : n <= m
  BY LeastLemma
<1> QED BY <1>1 DEF Min

\* A list that loses one of its elements.
LEMMA RemoveAtLemma ==
  ASSUME NEW S, NEW q \in Seq(S), NEW k \in 1..Len(q)
  PROVE  RemoveAt(q, k) \in Seq(S)
<1>1. Len(q) \in Nat /\ \A i \in 1..Len(q) : q[i] \in S
  BY LenProperties, ElementOfSeq
<1>2. SubSeq(q, 1, k - 1) \in Seq(S)
  <2>1. \A i \in 1..(k - 1) : q[i] \in S
    BY <1>1
  <2> QED BY <1>1, <2>1, SubSeqProperties
<1>3. SubSeq(q, k + 1, Len(q)) \in Seq(S)
  <2>1. \A i \in (k + 1)..Len(q) : q[i] \in S
    BY <1>1
  <2> QED BY <1>1, <2>1, SubSeqProperties
<1> QED BY <1>2, <1>3, ConcatProperties DEF RemoveAt

\* A full event queue gives up an event of its own.
LEMMA QueuedLemma ==
  ASSUME pending \in Seq(Events), NEW e \in Events
  PROVE  Queued(e) \in Seq(Events)
<1> DEFINE lows == {i \in DOMAIN pending : pending[i].type \in Low}
<1>1. lows \in SUBSET (1..Len(pending)) /\ Len(pending) \in Nat
  BY LenProperties
<1>2. lows # {} => RemoveAt(pending, Min(lows)) \in Seq(Events)
  <2> HIDE DEF lows
  <2>1. SUFFICES ASSUME lows # {} PROVE RemoveAt(pending, Min(lows)) \in Seq(Events)
    OBVIOUS
  <2>2. lows \in SUBSET Nat
    BY <1>1
  <2>3. Min(lows) \in 1..Len(pending)
    BY <1>1, <2>1, <2>2, MinLemma
  <2> QED BY <2>3, RemoveAtLemma
<1> HIDE DEF lows
<1>3. /\ lows # {} => Append(RemoveAt(pending, Min(lows)), e) \in Seq(Events)
      /\ Append(pending, e) \in Seq(Events)
  BY <1>2, AppendProperties
<1> QED BY <1>3 DEF Queued, lows

\* The evicted session leaves the map: the LRU has forgotten it already.
LEMMA DeleteLru ==
  ASSUME LruInv, Delete
  PROVE  /\ LruInv'
         /\ Head(stack).id \in Evicting /\ Evicting = Evicting' \cup {Head(stack).id}
<1> DEFINE s == Head(stack).id
<1>1. SessionTypes /\ Drawn /\ Fresh /\ Agree /\ Apart
  BY DEF LruInv
<1>2. /\ stack # <<>> /\ Head(stack).do = "delete" /\ stack' = Rest
      /\ status' = [status EXCEPT ![s] = "gone"] /\ old' = old \ {s}
      /\ holds' = [h \in Holders |-> IF holds[h] \in {s} THEN NoSession ELSE holds[h]]
      /\ order' = order /\ locked' = locked
      /\ listening' = listening /\ emitting' = emitting /\ pending' = pending
      /\ touched' = touched
  BY DEF Delete, NextIs, Forget, bus
<1>3. stack \in Seq(Frames)
  BY <1>1 DEF SessionTypes
<1>4. /\ Head(stack) \in Frames /\ s \in Ids /\ stack' \in Seq(Frames)
      /\ Evicting = Evicting' \cup {s}
  BY <1>2, <1>3, TopLemma, FrameLemma
<1> HIDE DEF s
<1>5. s \in Evicting /\ status[s] # "new"
  BY <1>1, <1>4 DEF Fresh
<1>6. \A x \in Ids : status'[x] = IF x = s THEN "gone" ELSE status[x]
  BY <1>1, <1>2 DEF SessionTypes
<1>7. SessionTypes'
  BY <1>1, <1>2, <1>4 DEF SessionTypes
<1>8. Agree'
  BY <1>1, <1>2, <1>4, <1>6 DEF Agree
<1>9. Apart'
  BY <1>1, <1>2 DEF Apart
<1>10. LruInv'
  BY <1>2, <1>4, <1>5, <1>6, <1>7, <1>8, <1>9, LruLemma
<1> QED BY <1>4, <1>5, <1>10 DEF s

\* gc() takes an expired session out of the map and of the LRU at once.
LEMMA CollectLru ==
  ASSUME LruInv, Collect
  PROVE  /\ LruInv' /\ Evicting' = Evicting
         /\ \/ status' = status /\ order' = order /\ locked' = locked
            \/ \E s \in Ids : /\ IsExpired(s) /\ status' = [status EXCEPT ![s] = "gone"]
                              /\ ToSet(order') = ToSet(order) \ {s}
                              /\ locked' = locked \ {s}
<1> DEFINE dead == {s \in Ids : s > Head(stack).at /\ IsExpired(s)}
           s == Min(dead)
<1>1. SessionTypes /\ Drawn /\ Fresh /\ Agree /\ Apart
  BY DEF LruInv
<1>2. /\ stack # <<>> /\ Head(stack).do = "gc"
      /\ listening' = listening /\ emitting' = emitting /\ pending' = pending
      /\ touched' = touched
  BY DEF Collect, NextIs, bus
<1>3. stack \in Seq(Frames)
  BY <1>1 DEF SessionTypes
<1>4. Evicting = Deletes(Rest)
  BY <1>2, <1>3, TopLemma
<1>5. CASE /\ dead # {}
           /\ status' = [status EXCEPT ![s] = "gone"]
           /\ order' = Without(s)
           /\ locked' = locked \ {s}
           /\ Forget({s})
           /\ stack' = <<Emit("destroyed", s), [do |-> "gc", at |-> s]>> \o Rest
  <2>1. s \in dead
    BY <1>5, IdsLemma, MinLemma
  <2>2. s \in Ids /\ IsExpired(s)
    BY <2>1
  <2> DEFINE e == Emit("destroyed", s)
             g == [do |-> "gc", at |-> s]
             p == <<e, g>>
  <2>3. e \in Frames /\ e.do # "delete" /\ g \in Frames /\ g.do # "delete"
    <3>1. s \in 0..N
      BY <2>2, SessionsAssumption DEF Ids
    <3> QED BY <2>2, <3>1, MadeLemma DEF High
  <2>4. stack' = p \o Rest
    BY <1>5
  <2> HIDE DEF e, g, s, dead
  <2>5. p \in Seq(Frames) /\ Deletes(p) = {}
    BY <2>3, ListsLemma
  <2> HIDE DEF p
  <2>6. stack' \in Seq(Frames) /\ Evicting' = Deletes(p) \cup Deletes(Rest)
    BY <1>2, <1>3, <2>4, <2>5, TopLemma
  <2>7. Evicting' = Evicting
    BY <1>4, <2>5, <2>6
  <2>8. /\ status' = [status EXCEPT ![s] = "gone"] /\ locked' = locked \ {s}
        /\ old' = old \ {s} /\ order' = Without(s)
        /\ holds' = [h \in Holders |-> IF holds[h] \in {s} THEN NoSession ELSE holds[h]]
    BY <1>5 DEF Forget
  <2>9. \A x \in Ids : status'[x] = IF x = s THEN "gone" ELSE status[x]
    BY <1>1, <2>8 DEF SessionTypes
  <2>10. /\ order' \in Seq(Ids) /\ IsInjective(order')
         /\ ToSet(order') = ToSet(order) \ {s}
    <3>1. order \in Seq(Ids) /\ IsInjective(order)
      BY <1>1 DEF SessionTypes, Apart
    <3> QED BY <2>2, <2>8, <3>1, OrderLemma
  <2>11. SessionTypes'
    BY <1>1, <1>2, <2>6, <2>8, <2>10 DEF SessionTypes
  <2>12. Agree'
    BY <1>1, <1>2, <2>7, <2>8, <2>9, <2>10 DEF Agree
  <2>13. Apart'
    BY <1>1, <2>8, <2>10 DEF Apart
  <2>14. status[s] # "new"
    BY <2>2 DEF IsExpired
  <2>15. LruInv'
    BY <1>2, <2>7, <2>9, <2>11, <2>12, <2>13, <2>14, LruLemma
  <2> QED BY <2>2, <2>7, <2>8, <2>10, <2>15
<1>6. CASE stack' = Rest /\ UNCHANGED core
  <2>1. /\ status' = status /\ old' = old /\ order' = order /\ locked' = locked
        /\ holds' = holds
    BY <1>6 DEF core
  <2>2. stack' \in Seq(Frames) /\ Evicting' = Evicting
    BY <1>2, <1>3, <1>4, <1>6, TopLemma
  <2>3. SessionTypes'
    BY <1>1, <1>2, <2>1, <2>2 DEF SessionTypes
  <2>4. Agree' /\ Apart'
    BY <1>1, <1>2, <2>1, <2>2 DEF Agree, Apart
  <2>5. LruInv'
    BY <1>2, <2>1, <2>2, <2>3, <2>4, LruLemma
  <2> QED BY <2>1, <2>2, <2>5
<1> QED BY <1>5, <1>6 DEF Collect

\* A step of the event bus changes what is to be told, not the sessions.
LEMMA BusLru ==
  ASSUME LruInv, UNCHANGED core, touched' = touched,
         stack' \in Seq(Frames), Evicting' = Evicting,
         listening' \in BOOLEAN, emitting' \in BOOLEAN, pending' \in Seq(Events)
  PROVE  LruInv'
<1>1. SessionTypes /\ Drawn /\ Fresh /\ Agree /\ Apart
  BY DEF LruInv
<1>2. /\ status' = status /\ old' = old /\ order' = order /\ locked' = locked
      /\ holds' = holds
  BY DEF core
<1>3. SessionTypes'
  BY <1>1, <1>2 DEF SessionTypes
<1>4. Agree' /\ Apart'
  BY <1>1, <1>2 DEF Agree, Apart
<1> QED BY <1>2, <1>3, <1>4, LruLemma


\* An event that is told, or queued, changes no session.
LEMMA EmitLru ==
  ASSUME LruInv, EmitStep
  PROVE  LruInv' /\ Evicting' = Evicting
<1> DEFINE e == Head(stack).event
           h == Handle(e)
           d == [do |-> "drain"]
<1>1. SessionTypes
  BY DEF LruInv
<1>2. /\ stack # <<>> /\ Head(stack).do = "emit" /\ stack \in Seq(Frames)
      /\ pending \in Seq(Events) /\ emitting \in BOOLEAN
      /\ UNCHANGED core /\ listening' = listening /\ touched' = touched
      /\ listening' \in BOOLEAN
  BY <1>1 DEF EmitStep, NextIs, SessionTypes
<1>3. e \in Events /\ Evicting = Deletes(Rest)
  BY <1>2, TopLemma, FrameLemma
<1>4. CASE emitting /\ pending' = Queued(e) /\ stack' = Rest /\ emitting' = emitting
  <2>1. pending' \in Seq(Events) /\ stack' \in Seq(Frames) /\ Evicting' = Evicting
    BY <1>2, <1>3, <1>4, QueuedLemma, TopLemma
  <2> QED BY <1>2, <1>4, <2>1, BusLru
<1>5. CASE /\ emitting' = TRUE /\ pending' = pending
           /\ stack' = (IF listening THEN <<h, d>> ELSE <<d>>) \o Rest
  <2>1. h \in Frames /\ h.do # "delete" /\ d \in Frames /\ d.do # "delete"
    BY <1>3, MadeLemma
  <2> DEFINE p == IF listening THEN <<h, d>> ELSE <<d>>
  <2> HIDE DEF h, d
  <2>2. p \in Seq(Frames) /\ Deletes(p) = {}
    BY <2>1, ListsLemma
  <2>3. stack' = p \o Rest
    BY <1>5
  <2> HIDE DEF p
  <2>4. stack' \in Seq(Frames) /\ Evicting' = Deletes(p) \cup Deletes(Rest)
    BY <1>2, <2>2, <2>3, TopLemma
  <2>5. Evicting' = Evicting
    BY <1>3, <2>2, <2>4
  <2> QED BY <1>2, <1>5, <2>4, <2>5, BusLru
<1> QED BY <1>4, <1>5 DEF EmitStep

\* Nor does a handler that returns.
LEMMA HandledLru ==
  ASSUME LruInv, Handled
  PROVE  LruInv' /\ Evicting' = Evicting
<1>1. SessionTypes
  BY DEF LruInv
<1>2. /\ stack # <<>> /\ Head(stack).do = "handle" /\ stack \in Seq(Frames)
      /\ pending' \in Seq(Events) /\ emitting' \in BOOLEAN /\ listening' \in BOOLEAN
      /\ UNCHANGED core /\ touched' = touched /\ stack' = Rest
  BY <1>1 DEF Handled, NextIs, SessionTypes, bus
<1>3. stack' \in Seq(Frames) /\ Evicting' = Evicting
  BY <1>2, TopLemma
<1> QED BY <1>2, <1>3, BusLru

\* Nor does the delivery of what was queued.
LEMMA DrainLru ==
  ASSUME LruInv, Drain
  PROVE  LruInv' /\ Evicting' = Evicting
<1> DEFINE h == Handle(Head(pending))
           d == Head(stack)
<1>1. SessionTypes
  BY DEF LruInv
<1>2. /\ stack # <<>> /\ Head(stack).do = "drain" /\ stack \in Seq(Frames)
      /\ pending \in Seq(Events) /\ emitting \in BOOLEAN
      /\ UNCHANGED core /\ listening' = listening /\ touched' = touched
      /\ listening' \in BOOLEAN
  BY <1>1 DEF Drain, NextIs, SessionTypes
<1>3. Evicting = Deletes(Rest) /\ d \in Frames
  BY <1>2, TopLemma
<1>4. CASE /\ pending # <<>> /\ pending' = Tail(pending) /\ emitting' = emitting
           /\ stack' = IF listening THEN <<h, d>> \o Rest ELSE stack
  <2>1. Head(pending) \in Events /\ pending' \in Seq(Events)
    BY <1>2, <1>4, HeadTailProperties
  <2>2. h \in Frames /\ h.do # "delete" /\ d \in Frames /\ d.do # "delete"
    BY <1>2, <1>3, <2>1, MadeLemma
  <2>3. CASE listening
    <3> DEFINE p == <<h, d>>
    <3>1. stack' = p \o Rest
      BY <1>4, <2>3
    <3> HIDE DEF h, d
    <3>2. p \in Seq(Frames) /\ Deletes(p) = {}
      BY <2>2, ListsLemma
    <3> HIDE DEF p
    <3>3. stack' \in Seq(Frames) /\ Evicting' = Deletes(p) \cup Deletes(Rest)
      BY <1>2, <3>1, <3>2, TopLemma
    <3>4. Evicting' = Evicting
      BY <1>3, <3>2, <3>3
    <3> QED BY <1>2, <1>4, <2>1, <3>3, <3>4, BusLru
  <2>4. CASE ~listening
    <3>1. stack' \in Seq(Frames) /\ Evicting' = Evicting
      BY <1>2, <1>4, <2>4 DEF Evicting
    <3> QED BY <1>2, <1>4, <2>1, <3>1, BusLru
  <2> QED BY <1>2, <2>3, <2>4
<1>5. CASE emitting' = FALSE /\ stack' = Rest /\ pending' = pending
  <2>1. stack' \in Seq(Frames) /\ Evicting' = Evicting
    BY <1>2, <1>3, <1>5, TopLemma
  <2> QED BY <1>2, <1>5, <2>1, BusLru
<1> QED BY <1>4, <1>5 DEF Drain

\* Nor does the time that passes, to the LRU.
LEMMA AgeLru ==
  ASSUME LruInv, NEW s \in Ids, Age(s)
  PROVE  LruInv' /\ Evicting' = Evicting
<1>1. SessionTypes /\ Drawn /\ Fresh /\ Agree /\ Apart
  BY DEF LruInv
<1>2. /\ status' = status /\ old' = old \cup {s} /\ order' = order /\ locked' = locked
      /\ holds' = holds /\ stack' = stack /\ touched' = touched
      /\ listening' = listening /\ emitting' = emitting /\ pending' = pending
  BY DEF Age, bus
<1>3. Evicting' = Evicting
  BY <1>2 DEF Evicting
<1>4. SessionTypes'
  BY <1>1, <1>2 DEF SessionTypes
<1>5. Agree' /\ Apart'
  BY <1>1, <1>2, <1>3 DEF Agree, Apart
<1> QED BY <1>2, <1>3, <1>4, <1>5, LruLemma

\* The invariant of the LRU is inductive.
LEMMA LruInitLemma ==
  ASSUME SessionInit
  PROVE  LruInv
<1>1. /\ order \in Seq(Ids) /\ ToSet(order) = {} /\ IsInjective(order)
  BY NoneLemma DEF SessionInit
<1>2. stack \in Seq(Frames) /\ Evicting = {}
  BY ListsLemma DEF SessionInit, Evicting
<1>3. pending \in Seq(Events)
  BY EmptySeq DEF SessionInit
<1>4. SessionTypes
  BY <1>1, <1>2, <1>3 DEF SessionInit, SessionTypes
<1>5. Drawn
  <2>1. {s \in Ids : status[s] # "new"} = 1..0
    BY DEF SessionInit
  <2>2. 0 \in 0..N
    BY SessionsAssumption
  <2> QED BY <2>1, <2>2 DEF Drawn
<1>6. Fresh /\ Agree /\ Apart
  BY <1>1, <1>2 DEF SessionInit, Fresh, Agree, Apart
<1> QED BY <1>4, <1>5, <1>6 DEF LruInv

\* Every step keeps the invariant of the LRU.
LEMMA LruStepLemma ==
  ASSUME LruInv, [SessionNext]_sessionVars
  PROVE  LruInv'
<1>1. CASE SessionCalls
  BY <1>1, CallLru
<1>2. CASE Evict
  BY <1>2, EvictLru
<1>3. CASE Delete
  BY <1>3, DeleteLru
<1>4. CASE Collect
  BY <1>4, CollectLru
<1>5. CASE EmitStep
  BY <1>5, EmitLru
<1>6. CASE Handled
  BY <1>6, HandledLru
<1>7. CASE Drain
  BY <1>7, DrainLru
<1>8. ASSUME NEW s \in Ids, Age(s) PROVE LruInv'
  BY <1>8, AgeLru
<1>9. CASE UNCHANGED sessionVars
  <2>1. /\ UNCHANGED core /\ touched' = touched /\ stack' = stack
        /\ listening' = listening /\ emitting' = emitting /\ pending' = pending
    BY <1>9 DEF sessionVars, bus
  <2>2. Evicting' = Evicting
    BY <2>1 DEF Evicting
  <2>3. SessionTypes
    BY DEF LruInv
  <2> QED BY <2>1, <2>2, <2>3, BusLru DEF SessionTypes
<1> QED BY <1>1, <1>2, <1>3, <1>4, <1>5, <1>6, <1>7, <1>8, <1>9 DEF SessionNext, Step

\* Whatever calls nest in whatever handlers, the two structures of the LRU and
\* the map agree in the middle of calls as well as between them.
THEOREM SessionInvariance == SessionSpec => []LruInv
<1>1. SessionInit => LruInv
  BY LruInitLemma
<1>2. LruInv /\ [SessionNext]_sessionVars => LruInv'
  BY LruStepLemma
<1> QED BY <1>1, <1>2, PTL DEF SessionSpec

\* Between calls a locked session is in the locked set and any other live one in
\* the eviction order, once, and none that left in either, up to the sessions a
\* handler called back on while they were evicted.
THEOREM SessionLruAgrees == SessionSpec => []LruAgrees
<1>1. LruInv => LruAgrees
  <2>1. stack = <<>> => Evicting = {}
    BY ListsLemma DEF Evicting
  <2> QED BY <2>1 DEF LruInv, LruAgrees, Agree, Apart, Idle
<1> QED BY <1>1, SessionInvariance, PTL

\* No step of an eviction or of the GC removes a locked session.
LEMMA LockedStepLemma ==
  ASSUME LruInv, [SessionNext]_sessionVars, NEW s \in Ids \ touched,
         status[s] = "locked", status'[s] = "gone"
  PROVE  Destroy(s) \/ Dispose
<1>1. SessionTypes /\ Agree /\ Fresh
  BY DEF LruInv
<1>2. s \notin Evicting
  BY <1>1 DEF Agree
<1>3. status \in [Ids -> {"new", "active", "locked", "expired", "gone"}] /\ s \in Ids
  BY <1>1 DEF SessionTypes
<1>4. status' # status
  OBVIOUS
<1>5. ASSUME NEW x \in Ids, Destroy(x) PROVE Destroy(s)
  <2>1. status' = [status EXCEPT ![x] = "gone"]
    BY <1>5 DEF Destroy
  <2>2. x = s
    BY <1>3, <2>1
  <2> QED BY <1>5, <2>2
<1>6. ASSUME NEW x \in Ids, Create(x) \/ Get(x) \/ Access(x) \/ LockExpired(x) PROVE FALSE
  <2>1. \/ status' = status \/ status' = [status EXCEPT ![x] = "active"]
        \/ status' = [status EXCEPT ![x] = "expired"]
    BY <1>6 DEF Create, Get, Access, LockExpired
  <2> QED BY <1>3, <2>1
<1>7. ASSUME NEW x \in Ids, NEW h \in Holders, Lock(h, x) PROVE FALSE
  BY <1>3, <1>7 DEF Lock
<1>8. ASSUME NEW h \in Holders, Unlock(h) PROVE FALSE
  BY <1>3, <1>8 DEF Unlock
<1>9. ASSUME List PROVE FALSE
  BY <1>3, <1>9 DEF List
<1>10. ASSUME Delete PROVE FALSE
  <2>1. Head(stack).id \in Evicting /\ status' = [status EXCEPT ![Head(stack).id] = "gone"]
    BY <1>10, DeleteLru DEF Delete
  <2> QED BY <1>2, <1>3, <2>1
<1>11. ASSUME Collect PROVE FALSE
  <2>1. PICK x \in Ids : IsExpired(x) /\ status' = [status EXCEPT ![x] = "gone"]
    BY <1>4, <1>11, CollectLru
  <2>2. x = s
    BY <1>3, <2>1
  <2> QED BY <2>1, <2>2 DEF IsExpired
<1>12. ASSUME GC \/ Evict \/ EmitStep \/ Handled \/ Drain \/ (\E x \in Ids : Age(x))
              \/ UNCHANGED sessionVars
       PROVE  FALSE
  BY <1>4, <1>12 DEF GC, Evict, EmitStep, Handled, Drain, Age, sessionVars, core
<1> QED BY <1>5, <1>6, <1>7, <1>8, <1>9, <1>10, <1>11, <1>12
        DEF SessionNext, SessionCalls, Step

\* A locked session is never evicted nor collected, unless a handler locked it in
\* the middle of its own eviction.
THEOREM SessionLockedStays == SessionSpec => LockedStays
<1>1. LruInv /\ [SessionNext]_sessionVars
        => [\A s \in Ids \ touched : status[s] = "locked" /\ status'[s] = "gone"
                                       => Destroy(s) \/ Dispose]_sessionVars
  BY LockedStepLemma
<1> QED BY <1>1, SessionInvariance, PTL DEF SessionSpec, LockedStays


-----------------------------------------------------------------------------
\* What the shape of the stack says of the evictions that are under way.
LEMMA ShapeLemma ==
  ASSUME stack \in Seq(Frames), Bus, Interrupted
  PROVE  /\ CanCall \/ ~emitting \/ Head(stack).do = "drain" => Again = {}
         /\ stack # <<>> /\ ~emitting /\ Head(stack).do \notin {"delete", "emit"}
              => Evicting = {}
         /\ stack # <<>> => 1 \in DOMAIN stack /\ Head(stack) = stack[1]
<1>1. Len(stack) \in Nat /\ DOMAIN stack = 1..Len(stack)
  BY LenProperties
<1>2. stack # <<>> => 1 \in DOMAIN stack /\ Head(stack) = stack[1]
  BY <1>1, HeadTailProperties, EmptySeq
<1>3. ASSUME CanCall \/ ~emitting \/ Head(stack).do = "drain" PROVE Again = {}
  <2>1. SUFFICES ASSUME NEW i \in DOMAIN stack, NEW j \in DOMAIN stack,
                        stack[i].do = "delete", j > i, IsDrain(j)
                 PROVE  FALSE
    BY DEF Again, Above
  <2>2. stack # <<>> /\ emitting
    BY <1>1, <2>1, EmptySeq DEF Bus
  <2>3. CASE Head(stack).do = "drain"
    <3>1. IsDrain(1)
      BY <1>2, <2>2, <2>3 DEF IsDrain
    <3>2. j = 1
      BY <1>2, <2>1, <2>2, <3>1 DEF Bus
    <3> QED BY <1>1, <2>1, <3>2
  <2>4. CASE CanCall
    <3>1. stack[1].do = "handle"
      BY <1>2, <2>2, <2>4 DEF CanCall, InHandler
    <3>2. 2 \in DOMAIN stack /\ IsDrain(2)
      <4>1. 1 + 1 \in DOMAIN stack /\ IsDrain(1 + 1)
        BY <1>2, <2>2, <3>1 DEF Bus
      <4> QED BY <4>1
    <3>3. j = 2
      BY <2>1, <3>2 DEF Bus
    <3>4. i = 1
      BY <1>1, <2>1, <3>3
    <3> QED BY <2>1, <3>1, <3>4
  <2> QED BY <1>3, <2>2, <2>3, <2>4
<1>4. ASSUME stack # <<>>, ~emitting, Head(stack).do \notin {"delete", "emit"}
      PROVE  Evicting = {}
  <2>1. SUFFICES ASSUME NEW i \in DOMAIN stack, stack[i].do = "delete" PROVE FALSE
    BY DEF Evicting, Deletes
  <2>2. \A j \in DOMAIN stack : ~IsDrain(j)
    BY <1>4 DEF Bus
  <2>3. i # 1
    BY <1>2, <1>4, <2>1
  <2>4. i - 1 \in DOMAIN stack
    BY <1>1, <2>3
  <2>5. stack[1].do # "emit"
    BY <1>2, <1>4
  <2> QED BY <2>1, <2>2, <2>3, <2>4, <2>5 DEF Interrupted, Above
<1> QED BY <1>2, <1>3, <1>4

\* Frames put in the place of a top that is not a delivery, by the innermost call
\* or by a call of the handler that runs.
LEMMA OverShapeLemma ==
  ASSUME stack \in Seq(Frames), stack # <<>>, Bus, Interrupted,
         NEW p \in Seq(Frames), stack' = Over(p, stack), emitting' = emitting,
         Head(stack).do # "drain", emitting \/ Head(stack).do # "emit",
         \A i \in DOMAIN p : /\ p[i].do # "drain"
                             /\ p[i].do = "handle" =>
                                  i = Len(p) /\ Head(stack).do = "handle"
                             /\ p[i].do = "delete" =>
                                  emitting \/ (i = 2 /\ p[1].do = "emit")
  PROVE  /\ Bus' /\ Interrupted'
         /\ \A x \in Again : x \in Again' \/ (Head(stack).do = "delete" /\ x = Head(stack).id)
         /\ emitting => Deletes(p) \subseteq Again'
<1> DEFINE r == Over(p, stack)
           k == Len(p)
           n == Len(stack)
<1>1. /\ DOMAIN r = 1..(k + (n - 1))
      /\ k \in Nat /\ n \in Nat /\ n > 0
      /\ DOMAIN p = 1..k /\ DOMAIN stack = 1..n
      /\ \A i \in 1..k : r[i] = p[i]
      /\ \A i \in 2..n : i + (k - 1) \in DOMAIN r /\ r[i + (k - 1)] = stack[i]
      /\ \A i \in DOMAIN r : i <= k \/ (/\ (i - k) + 1 \in 2..n
                                        /\ r[i] = stack[(i - k) + 1])
      /\ Head(stack) = stack[1]
  BY ReplaceLemma
<1>2. stack' = r
  OBVIOUS
<1> HIDE DEF r, k, n
<1>3. ASSUME NEW i \in DOMAIN r, r[i].do = "drain"
      PROVE  (i - k) + 1 \in 2..n /\ IsDrain((i - k) + 1) /\ i = ((i - k) + 1) + (k - 1)
  <2>1. ~(i <= k)
    BY <1>1, <1>3
  <2> QED BY <1>1, <1>3, <2>1 DEF IsDrain
<1>4. ASSUME NEW i \in DOMAIN stack, IsDrain(i)
      PROVE  i \in 2..n /\ i + (k - 1) \in DOMAIN r /\ r[i + (k - 1)].do = "drain"
  <2>1. i # 1
    BY <1>1, <1>4 DEF IsDrain
  <2>2. i \in 2..n
    BY <1>1, <2>1
  <2> QED BY <1>1, <1>4, <2>2 DEF IsDrain
<1>5. Bus'
  <2>1. ASSUME NEW i \in DOMAIN r, NEW j \in DOMAIN r, r[i].do = "drain", r[j].do = "drain"
        PROVE  i = j
    <3>1. (i - k) + 1 = (j - k) + 1
      <4> DEFINE a == (i - k) + 1
                 b == (j - k) + 1
      <4>0. a \in 2..n /\ b \in 2..n /\ IsDrain(a) /\ IsDrain(b)
        BY <1>3, <2>1
      <4>1. a \in 1..n /\ b \in 1..n /\ IsDrain(a) /\ IsDrain(b)
        BY <1>1, <4>0
      <4> HIDE DEF a, b
      <4>2. a = b
        BY <1>1, <4>1 DEF Bus
      <4> QED BY <4>2 DEF a, b
    <3> QED BY <1>1, <3>1
  <2>2. emitting <=> \E i \in DOMAIN r : r[i].do = "drain"
    BY <1>1, <1>3, <1>4 DEF Bus
  <2>3. ASSUME NEW i \in DOMAIN r, r[i].do = "handle"
        PROVE  i + 1 \in DOMAIN r /\ r[i + 1].do = "drain"
    <3>1. CASE i <= k
      <4>1. i = k /\ stack[1].do = "handle"
        BY <1>1, <2>3, <3>1 DEF k
      <4>2. 2 \in DOMAIN stack /\ IsDrain(2)
        <5>1. 1 + 1 \in DOMAIN stack /\ IsDrain(1 + 1)
          BY <1>1, <4>1 DEF Bus
        <5> QED BY <5>1
      <4>3. 2 + (k - 1) = i + 1
        BY <1>1, <4>1
      <4> QED BY <1>4, <4>2, <4>3
    <3>2. CASE ~(i <= k)
      <4> DEFINE m == (i - k) + 1
      <4>1. m \in 2..n /\ r[i] = stack[m]
        BY <1>1, <3>2
      <4>2. m + 1 \in DOMAIN stack /\ IsDrain(m + 1)
        BY <1>1, <2>3, <4>1 DEF Bus
      <4>3. (m + 1) + (k - 1) = i + 1
        BY <1>1
      <4> HIDE DEF m
      <4> QED BY <1>4, <4>2, <4>3
    <3> QED BY <3>1, <3>2
  <2> QED BY <1>2, <2>1, <2>2, <2>3 DEF Bus, IsDrain
<1>6. ASSUME NEW i \in 2..n, Above(i)
      PROVE  \E j \in DOMAIN r : j > i + (k - 1) /\ r[j].do = "drain"
  <2>1. PICK j \in DOMAIN stack : j > i /\ IsDrain(j)
    BY <1>6 DEF Above
  <2>2. j + (k - 1) > i + (k - 1)
    BY <1>1, <2>1
  <2> QED BY <1>4, <2>1, <2>2
<1>7. ASSUME emitting, NEW i \in 1..k
      PROVE  \E j \in DOMAIN r : j > i /\ r[j].do = "drain"
  <2>1. PICK j \in DOMAIN stack : IsDrain(j)
    BY <1>7 DEF Bus
  <2>2. j + (k - 1) > i
    BY <1>1, <1>4, <1>7, <2>1
  <2> QED BY <1>4, <2>1, <2>2
<1>8. Interrupted'
  <2>1. SUFFICES ASSUME NEW i \in DOMAIN r, r[i].do = "delete",
                        ~(\E j \in DOMAIN r : j > i /\ r[j].do = "drain"),
                        i # 1, r[i - 1].do # "drain"
                 PROVE  i = 2 /\ r[1].do = "emit" /\ ~emitting
    BY <1>2 DEF Interrupted, Above, IsDrain
  <2>2. CASE i <= k
    <3>1. ~emitting
      BY <1>1, <1>7, <2>1, <2>2
    <3>2. i = 2 /\ p[1].do = "emit" /\ 1 \in 1..k
      BY <1>1, <2>1, <2>2, <3>1
    <3> QED BY <1>1, <3>1, <3>2
  <2>3. CASE ~(i <= k)
    <3> DEFINE m == (i - k) + 1
    <3>1. m \in 2..n /\ r[i] = stack[m] /\ i = m + (k - 1)
      BY <1>1, <2>3
    <3> HIDE DEF m
    <3>2. ~Above(m)
      BY <1>6, <2>1, <3>1
    <3>3. ~(m = 2 /\ stack[1].do = "emit" /\ ~emitting)
      BY <1>1
    <3>4. IsDrain(m - 1) /\ m - 1 \in DOMAIN stack
      <4>1. m # 1 /\ m \in DOMAIN stack /\ m - 1 \in DOMAIN stack
        BY <1>1, <3>1
      <4> QED BY <2>1, <3>1, <3>2, <3>3, <4>1 DEF Interrupted
    <3>5. r[(m - 1) + (k - 1)].do = "drain" /\ (m - 1) + (k - 1) = i - 1
      <4>1. (m - 1) + (k - 1) = i - 1
        BY <1>1, <3>1
      <4> QED BY <1>4, <3>4, <4>1
    <3> QED BY <2>1, <3>5
  <2> QED BY <2>2, <2>3
<1>9. ASSUME NEW x \in Again
      PROVE  x \in Again' \/ (Head(stack).do = "delete" /\ x = Head(stack).id)
  <2>1. PICK i \in DOMAIN stack : stack[i].do = "delete" /\ Above(i) /\ stack[i].id = x
    BY DEF Again
  <2>2. CASE i = 1
    BY <1>1, <2>1, <2>2
  <2>3. CASE i # 1
    <3>1. i \in 2..n
      BY <1>1, <2>3
    <3>2. /\ i + (k - 1) \in DOMAIN r /\ r[i + (k - 1)] = stack[i]
          /\ \E j \in DOMAIN r : j > i + (k - 1) /\ r[j].do = "drain"
      BY <1>1, <1>6, <2>1, <3>1
    <3> QED BY <1>2, <2>1, <3>2 DEF Again, Above, IsDrain
  <2> QED BY <2>2, <2>3
<1>10. ASSUME emitting, NEW x \in Deletes(p) PROVE x \in Again'
  <2>1. PICK i \in 1..k : p[i].do = "delete" /\ p[i].id = x
    BY <1>1 DEF Deletes
  <2>2. i \in DOMAIN r /\ r[i] = p[i]
    BY <1>1
  <2> QED BY <1>2, <1>7, <1>10, <2>1, <2>2 DEF Again, Above, IsDrain
<1> QED BY <1>5, <1>8, <1>9, <1>10


\* What a call pushes, above a handler or on nothing.
LEMMA PushShapeLemma ==
  ASSUME stack \in Seq(Frames), Bus, Interrupted, CanCall, emitting' = emitting,
         NEW p \in Seq(Plain), Push(p)
  PROVE  Bus' /\ Interrupted'
<1>1. p \in Seq(Frames) /\ \A i \in DOMAIN p : p[i].do \in {"emit", "evict", "gc"}
  BY PlainLemma
<1>2. CASE stack = <<>>
  <2>1. stack' = p
    BY <1>2 DEF Push
  <2>2. ~emitting
    BY <1>2, EmptySeq, LenProperties DEF Bus
  <2> QED BY <1>1, <2>1, <2>2 DEF Bus, Interrupted, IsDrain
<1>3. CASE stack # <<>>
  <2> DEFINE g == [Head(stack) EXCEPT !.left = @ - 1]
             t == <<g>>
             w == p \o t
  <2>1. Head(stack) \in Frames /\ Head(stack).do = "handle" /\ Head(stack).left > 0
    BY <1>3, HeadTailProperties DEF CanCall, InHandler
  <2>2. g \in Frames /\ g.do = "handle"
    BY <2>1, MadeLemma
  <2> HIDE DEF g
  <2>3. t \in Seq(Frames) /\ Len(t) = 1 /\ t[1] = g
    BY <2>2
  <2>4. stack' = Over(w, stack)
    BY <1>3 DEF Push, g, Over
  <2> HIDE DEF t
  <2>5. /\ w \in Seq(Frames) /\ Len(w) = Len(p) + Len(t)
        /\ \A i \in 1..(Len(p) + Len(t)) : w[i] = IF i <= Len(p) THEN p[i] ELSE t[i - Len(p)]
    BY <1>1, <2>3, ConcatProperties
  <2>6. /\ Len(p) \in Nat /\ DOMAIN p = 1..Len(p) /\ DOMAIN w = 1..(Len(p) + 1)
        /\ Len(w) = Len(p) + 1
    BY <1>1, <2>3, <2>5, LenProperties
  <2> HIDE DEF w
  <2>7. ASSUME NEW i \in DOMAIN w
        PROVE  /\ w[i].do \notin {"drain", "delete"}
               /\ w[i].do = "handle" => i = Len(w)
    <3>1. CASE i <= Len(p)
      <4>1. i \in DOMAIN p /\ w[i] = p[i]
        BY <2>3, <2>5, <2>6, <3>1
      <4> QED BY <1>1, <4>1
    <3>2. CASE ~(i <= Len(p))
      <4>1. i = Len(w) /\ i - Len(p) = 1
        BY <2>6, <3>2
      <4>2. w[i] = t[1]
        BY <2>3, <2>5, <2>6, <3>2, <4>1
      <4> QED BY <2>2, <2>3, <4>1, <4>2
    <3> QED BY <3>1, <3>2
  <2> QED BY <1>3, <2>1, <2>4, <2>5, <2>7, OverShapeLemma
<1> QED BY <1>2, <1>3

\* A frame that leaves the top for nothing, unless it is the delivery itself or an
\* event told outside of any delivery.
LEMMA PopShapeLemma ==
  ASSUME stack \in Seq(Frames), stack # <<>>, Bus, Interrupted, stack' = Rest,
         emitting' = emitting, Head(stack).do # "drain",
         emitting \/ Head(stack).do # "emit"
  PROVE  /\ Bus' /\ Interrupted'
         /\ \A x \in Again : x \in Again' \/ (Head(stack).do = "delete" /\ x = Head(stack).id)
<1> DEFINE p == <<>>
<1>1. p \in Seq(Frames) /\ DOMAIN p = {}
  BY EmptySeq, LenProperties
<1>2. Over(p, stack) = Rest
  BY HeadTailProperties, ConcatEmptySeq DEF Over, Rest
<1> HIDE DEF p
<1> QED BY <1>1, <1>2, OverShapeLemma


\* A delivery starts: what is left of the call that told the event stays behind it.
LEMMA StartShapeLemma ==
  ASSUME stack \in Seq(Frames), stack # <<>>, Bus, Interrupted,
         ~emitting, emitting' = TRUE, Head(stack).do = "emit",
         NEW p \in Seq(Frames), stack' = Over(p, stack),
         Len(p) \in {1, 2}, p[Len(p)].do = "drain", Len(p) = 2 => p[1].do = "handle"
  PROVE  Bus' /\ Interrupted'
<1> DEFINE r == Over(p, stack)
           k == Len(p)
           n == Len(stack)
<1>1. /\ DOMAIN r = 1..(k + (n - 1))
      /\ k \in Nat /\ n \in Nat /\ n > 0
      /\ DOMAIN p = 1..k /\ DOMAIN stack = 1..n
      /\ \A i \in 1..k : r[i] = p[i]
      /\ \A i \in DOMAIN r : i <= k \/ (/\ (i - k) + 1 \in 2..n
                                        /\ r[i] = stack[(i - k) + 1])
      /\ Head(stack) = stack[1]
  BY ReplaceLemma
<1>2. stack' = r /\ k \in {1, 2} /\ p[k].do = "drain" /\ (k = 2 => p[1].do = "handle")
  OBVIOUS
<1> HIDE DEF r, k, n
<1>3. \A i \in 2..n : stack[i].do \notin {"drain", "handle"}
  <2>1. \A i \in 1..n : stack[i].do # "drain"
    BY <1>1 DEF Bus, IsDrain
  <2>2. ASSUME NEW i \in 1..n, stack[i].do = "handle" PROVE FALSE
    <3>1. i + 1 \in 1..n /\ IsDrain(i + 1)
      BY <1>1, <2>2 DEF Bus
    <3> QED BY <2>1, <3>1 DEF IsDrain
  <2>3. \A i \in 2..n : i \in 1..n
    BY <1>1
  <2> QED BY <2>1, <2>2, <2>3
<1>4. /\ k \in DOMAIN r /\ r[k].do = "drain"
      /\ \A i \in DOMAIN r : r[i].do = "drain" => i = k
      /\ \A i \in DOMAIN r : r[i].do = "handle" => i + 1 = k
      /\ \A i \in DOMAIN r : r[i].do = "delete" => ~(i <= k)
  <2>1. k \in 1..k /\ k \in 1..(k + (n - 1)) /\ \A i \in 1..k : i = k \/ (i = 1 /\ i + 1 = k)
    BY <1>1, <1>2
  <2>2. \A i \in DOMAIN r : i <= k => i \in 1..k
    BY <1>1
  <2>3. ASSUME NEW i \in DOMAIN r, ~(i <= k) PROVE r[i].do \notin {"drain", "handle"}
    BY <1>1, <1>3, <2>3
  <2> QED BY <1>1, <1>2, <2>1, <2>2, <2>3
<1>5. Bus'
  BY <1>2, <1>4 DEF Bus, IsDrain
<1>6. Interrupted'
  <2>1. SUFFICES ASSUME NEW i \in DOMAIN r, r[i].do = "delete" PROVE r[i - 1].do = "drain"
    BY <1>2 DEF Interrupted, Above, IsDrain
  <2> DEFINE m == (i - k) + 1
  <2>2. m \in 2..n /\ r[i] = stack[m] /\ m - 1 = i - k
    BY <1>1, <1>4, <2>1
  <2> HIDE DEF m
  <2>3. m \in DOMAIN stack /\ m # 1 /\ m - 1 \in DOMAIN stack
    BY <1>1, <2>2
  <2>4. m = 2
    BY <2>1, <2>2, <2>3 DEF Interrupted, Above, Bus
  <2>5. i - 1 = k
    BY <1>1, <2>2, <2>4
  <2> QED BY <1>4, <2>5
<1> QED BY <1>5, <1>6

\* The delivery ends: the eviction it interrupted goes on.
LEMMA StopShapeLemma ==
  ASSUME stack \in Seq(Frames), stack # <<>>, Bus, Interrupted,
         emitting' = FALSE, Head(stack).do = "drain", stack' = Rest
  PROVE  Bus' /\ Interrupted'
<1> DEFINE r == Rest
           n == Len(stack)
<1>1. /\ DOMAIN r = 1..(n - 1) /\ DOMAIN stack = 1..n /\ n \in Nat /\ n > 0
      /\ \A i \in 1..(n - 1) : r[i] = stack[i + 1]
      /\ stack[1].do = "drain"
  BY HeadTailProperties, LenProperties, EmptySeq DEF Rest
<1>2. stack' = r
  OBVIOUS
<1> HIDE DEF r, n
<1>3. emitting /\ \A i \in 1..n : IsDrain(i) => i = 1
  <2>1. 1 \in DOMAIN stack /\ IsDrain(1)
    BY <1>1 DEF IsDrain
  <2> QED BY <1>1, <2>1 DEF Bus
<1>4. ASSUME NEW i \in DOMAIN r PROVE r[i].do \notin {"drain", "handle"}
  <2>1. i + 1 \in 1..n /\ i + 1 # 1 /\ r[i] = stack[i + 1]
    BY <1>1
  <2>2. stack[i + 1].do # "drain"
    BY <1>3, <2>1 DEF IsDrain
  <2>3. stack[i + 1].do # "handle"
    <3>1. SUFFICES ASSUME stack[i + 1].do = "handle" PROVE FALSE
      OBVIOUS
    <3>2. (i + 1) + 1 \in 1..n /\ IsDrain((i + 1) + 1)
      BY <1>1, <2>1, <3>1 DEF Bus
    <3>3. (i + 1) + 1 # 1
      BY <1>1
    <3> QED BY <1>3, <3>2, <3>3
  <2> QED BY <2>1, <2>2, <2>3
<1>5. Bus'
  BY <1>2, <1>4 DEF Bus, IsDrain
<1>6. Interrupted'
  <2>1. SUFFICES ASSUME NEW i \in DOMAIN r, r[i].do = "delete" PROVE i = 1
    BY <1>2 DEF Interrupted
  <2> DEFINE m == i + 1
  <2>2. m \in 1..n /\ m # 1 /\ m - 1 = i /\ stack[m].do = "delete" /\ i \in 1..n
    BY <1>1, <2>1
  <2> HIDE DEF m
  <2>3. ~Above(m)
    <3>1. SUFFICES ASSUME NEW j \in 1..n, j > m, IsDrain(j) PROVE FALSE
      BY <1>1 DEF Above
    <3>2. j # 1
      BY <1>1, <2>2, <3>1
    <3> QED BY <1>3, <3>1, <3>2
  <2>4. IsDrain(m - 1)
    BY <1>1, <1>3, <2>2, <2>3 DEF Interrupted
  <2> QED BY <1>3, <2>2, <2>4
<1> QED BY <1>5, <1>6

\* The delivery goes on with the next event.
LEMMA NextShapeLemma ==
  ASSUME stack \in Seq(Frames), stack # <<>>, Bus, Interrupted,
         emitting' = emitting, Head(stack).do = "drain",
         NEW h \in Frames, h.do = "handle", stack' = Over(<<h, Head(stack)>>, stack)
  PROVE  Bus' /\ Interrupted'
<1> DEFINE p == <<h, Head(stack)>>
           r == Over(p, stack)
           n == Len(stack)
<1>1. Head(stack) \in Frames
  BY HeadTailProperties
<1>2. p \in Seq(Frames) /\ Len(p) = 2 /\ p[1] = h /\ p[2] = Head(stack)
  BY <1>1
<1>3. stack' = r
  OBVIOUS
<1> HIDE DEF p
<1> DEFINE k == Len(p)
<1>4. /\ DOMAIN r = 1..(k + (n - 1)) /\ n \in Nat /\ n > 0 /\ DOMAIN stack = 1..n
      /\ \A i \in 1..k : r[i] = p[i]
      /\ \A i \in DOMAIN r : i <= k \/ (/\ (i - k) + 1 \in 2..n
                                        /\ r[i] = stack[(i - k) + 1])
      /\ \A i \in 2..n : i + (k - 1) \in DOMAIN r /\ r[i + (k - 1)] = stack[i]
      /\ Head(stack) = stack[1]
  BY <1>2, ReplaceLemma
<1>5. k = 2
  BY <1>2
<1> HIDE DEF r, n, k
<1>6. /\ DOMAIN r = 1..(2 + (n - 1)) /\ n \in Nat /\ n > 0 /\ DOMAIN stack = 1..n
      /\ \A i \in 1..2 : r[i] = p[i]
      /\ \A i \in DOMAIN r : i <= 2 \/ (/\ (i - 2) + 1 \in 2..n
                                        /\ r[i] = stack[(i - 2) + 1])
      /\ \A i \in 2..n : i + (2 - 1) \in DOMAIN r /\ r[i + (2 - 1)] = stack[i]
      /\ Head(stack) = stack[1]
  BY ONLY <1>4, <1>5
<1>7. DOMAIN r = 1..(n + 1) /\ r[1].do = "handle" /\ \A i \in 1..n : r[i + 1] = stack[i]
  <2>1. DOMAIN r = 1..(n + 1)
    BY <1>6
  <2>2. r[1] = h /\ r[2] = stack[1]
    BY <1>2, <1>6
  <2>3. ASSUME NEW i \in 1..n, i # 1 PROVE r[i + 1] = stack[i]
    <3>1. i \in 2..n /\ i + (2 - 1) = i + 1
      BY <1>6, <2>3
    <3> QED BY <1>6, <3>1
  <2>4. r[1 + 1] = stack[1]
    BY <2>2
  <2> QED BY <2>1, <2>2, <2>3, <2>4
<1>8. emitting /\ \A i \in 1..n : IsDrain(i) => i = 1
  <2>1. 1 \in DOMAIN stack /\ IsDrain(1)
    BY <1>6 DEF IsDrain
  <2> QED BY <1>6, <2>1 DEF Bus
<1>9. /\ 2 \in DOMAIN r /\ r[2].do = "drain"
      /\ \A i \in DOMAIN r : r[i].do = "drain" => i = 2
      /\ \A i \in DOMAIN r : r[i].do = "handle" => i = 1
  <2>1. 2 \in DOMAIN r /\ r[2].do = "drain"
    BY <1>2, <1>6
  <2>2. ASSUME NEW i \in DOMAIN r, r[i].do = "drain" PROVE i = 2
    <3>1. i - 1 \in 1..n /\ r[i] = stack[i - 1]
      <4>1. i # 1
        BY <1>7, <2>2
      <4>2. i - 1 \in 1..n /\ (i - 1) + 1 = i
        BY <1>6, <1>7, <4>1
      <4> QED BY <1>7, <4>2
    <3>2. i - 1 = 1
      BY <1>8, <2>2, <3>1 DEF IsDrain
    <3> QED BY <1>7, <3>2
  <2>3. ASSUME NEW i \in DOMAIN r, r[i].do = "handle", i # 1 PROVE FALSE
    <3>1. i - 1 \in 1..n /\ (i - 1) + 1 = i
      BY <1>6, <1>7, <2>3
    <3>2. stack[i - 1].do = "handle"
      BY <1>7, <2>3, <3>1
    <3>3. (i - 1) + 1 \in 1..n /\ IsDrain((i - 1) + 1)
      BY <1>6, <3>1, <3>2 DEF Bus
    <3> QED BY <1>8, <2>3, <3>1, <3>3
  <2> QED BY <2>1, <2>2, <2>3
<1>10. Bus'
  <2>1. 1 + 1 = 2
    OBVIOUS
  <2> QED BY <1>3, <1>8, <1>9, <2>1 DEF Bus, IsDrain
<1>11. Interrupted'
  <2>1. SUFFICES ASSUME NEW i \in DOMAIN r, r[i].do = "delete",
                        ~(\E j \in DOMAIN r : j > i /\ r[j].do = "drain")
                 PROVE  r[i - 1].do = "drain"
    BY <1>3 DEF Interrupted, Above, IsDrain
  <2> DEFINE m == i - 1
  <2>2. i # 1 /\ i # 2
    BY <1>7, <1>9, <2>1
  <2>3. m \in 1..n /\ m + 1 = i /\ m # 1
    BY <1>6, <1>7, <2>2
  <2> HIDE DEF m
  <2>4. stack[m].do = "delete"
    BY <1>7, <2>1, <2>3
  <2>5. ~Above(m)
    <3>1. SUFFICES ASSUME NEW j \in 1..n, j > m, IsDrain(j) PROVE FALSE
      BY <1>6 DEF Above
    <3>2. j # 1
      BY <1>6, <2>3, <3>1
    <3> QED BY <1>8, <3>1, <3>2
  <2>6. IsDrain(m - 1) /\ m - 1 \in 1..n
    <3>1. m - 1 \in 1..n
      BY <1>6, <2>3
    <3> QED BY <1>6, <1>8, <2>3, <2>4, <2>5, <3>1 DEF Interrupted
  <2>7. r[(m - 1) + 1].do = "drain"
    BY <1>7, <2>6 DEF IsDrain
  <2>8. (m - 1) + 1 = i - 1
    BY <1>6, <2>3
  <2> QED BY <2>7, <2>8
<1> QED BY <1>10, <1>11


-----------------------------------------------------------------------------
\* The cap and the threshold are numbers.
LEMMA ThresholdLemma ==
  Threshold \in Nat /\ MaxSessions \in Nat /\ MaxSessions > 0
<1> DEFINE m == MaxSessions \div 20
           T == {1, m}
<1>1. MaxSessions \in Nat /\ MaxSessions > 0
  BY SessionsAssumption
<1>2. m \in Nat
  BY <1>1
<1> HIDE DEF m
<1>3. \E x \in T : \A y \in T : x >= y
  <2>1. CASE m <= 1
    BY <1>2, <2>1
  <2>2. CASE m >= 1
    BY <1>2, <2>2
  <2> QED BY <1>2, <2>1, <2>2
<1>4. Max(T) \in T
  BY <1>3 DEF Max
<1>5. T \in SUBSET Nat
  BY <1>2
<1>6. Threshold = Max(T)
  BY DEF Threshold, m
<1> HIDE DEF T
<1> QED BY <1>1, <1>4, <1>5, <1>6

\* The size of what only shrinks, against credit that only grows.
LEMMA CountLemma ==
  ASSUME touched \subseteq Ids, touched' \subseteq Ids
  PROVE  /\ Cardinality(Live) \in Nat /\ Cardinality(Live') \in Nat
         /\ Cardinality(Left) \in Nat /\ Cardinality(Left') \in Nat
         /\ Live' \subseteq Live => Cardinality(Live') <= Cardinality(Live)
         /\ Left \subseteq Left' => Cardinality(Left) <= Cardinality(Left')
<1>1. Live \in SUBSET Ids /\ Live' \in SUBSET Ids
  BY DEF Live, InMap
<1>2. Left \in SUBSET Ids /\ Left' \in SUBSET Ids
  BY DEF Left
<1>3. /\ IsFiniteSet(Live) /\ IsFiniteSet(Live') /\ IsFiniteSet(Left) /\ IsFiniteSet(Left')
      /\ Cardinality(Live) \in Nat /\ Cardinality(Live') \in Nat
      /\ Cardinality(Left) \in Nat /\ Cardinality(Left') \in Nat
  BY <1>1, <1>2, IdsLemma
<1>4. Live' \subseteq Live => Cardinality(Live') <= Cardinality(Live)
  BY <1>3, FS_Subset
<1>5. Left \subseteq Left' => Cardinality(Left) <= Cardinality(Left')
  BY <1>3, FS_Subset
<1> QED BY <1>3, <1>4, <1>5

\* A step that neither adds a live session nor loses credit keeps the bound.
LEMMA BoundLemma ==
  ASSUME touched \subseteq Ids, touched' \subseteq Ids, Bounded, ~Due,
         Live' \subseteq Live, Left \subseteq Left'
  PROVE  Bounded'
<1> DEFINE a == Cardinality(Live)
           b == Cardinality(Live')
           c == Cardinality(Left)
           d == Cardinality(Left')
           z == IF Due' THEN 1 ELSE 0
<1>1. a \in Nat /\ b \in Nat /\ c \in Nat /\ d \in Nat /\ b <= a /\ c <= d
  BY CountLemma
<1>2. a <= MaxSessions + Threshold + c + 0
  BY DEF Bounded
<1>3. Threshold \in Nat /\ MaxSessions \in Nat /\ z \in Nat
  BY ThresholdLemma
<1> HIDE DEF a, b, c, d, z
<1>4. b <= MaxSessions + Threshold + d + z
  BY <1>1, <1>2, <1>3
<1>5. Threshold' = Threshold
  BY DEF Threshold
<1> QED BY <1>4, <1>5 DEF Bounded, b, d, z


\* The sessions that the LRU knows.
Known == locked \cup ToSet(order)

\* What a call does to the sessions: it may forget some, and takes back into the
\* LRU only sessions that are in the map.
LEMMA CallbackLemma ==
  ASSUME SizeInv, touched' \subseteq Ids, CanCall, Evicting' = Evicting,
         InMap' \subseteq InMap, touched \subseteq touched',
         \A x \in touched' : x \in touched \/ (x \in Evicting /\ x \in Known'),
         \A x \in Known : x \in InMap' => x \in Known',
         \A x \in Known' : x \in Known \/ x \in InMap
  PROVE  CalledBack' /\ Bounded'
<1>1. /\ stack \in Seq(Frames) /\ touched \subseteq Ids
      /\ Bus /\ Interrupted /\ CalledBack /\ Bounded
  BY DEF SizeInv, LruInv, SessionTypes
<1>2. Again = {}
  BY <1>1, ShapeLemma
<1>3. \A x \in touched : x \in InMap => x \in Evicting /\ x \in Known
  BY <1>1, <1>2 DEF CalledBack, Known
<1>4. CalledBack'
  BY <1>3 DEF CalledBack, Known
<1>5. ~Due
  BY DEF CanCall, InHandler, Due
<1>6. Live' \subseteq Live
  BY DEF Live
<1>7. Left \subseteq Left'
  BY <1>3, <1>6 DEF Left, Known, Live
<1> QED BY <1>1, <1>4, <1>5, <1>6, <1>7, BoundLemma

\* create() adds a session, and past the threshold the eviction that pays for it.
LEMMA CreateSize ==
  ASSUME SizeInv, NEW s \in Ids, Create(s), LruInv', status[s] = "new", Evicting' = Evicting
  PROVE  CalledBack' /\ Bounded'
<1> DEFINE n == Cardinality(InMap) + 1
           v == [do |-> "evict", size |-> n]
           e == Emit("created", s)
           a == Cardinality(Live)
           b == Cardinality(Live')
           c == Cardinality(Left)
           d == Cardinality(Left')
           z == IF Due' THEN 1 ELSE 0
<1>1. /\ SessionTypes /\ Fresh /\ Agree /\ stack \in Seq(Frames)
      /\ Bus /\ Interrupted /\ CalledBack /\ Bounded
  BY DEF SizeInv, LruInv, SessionTypes
<1>2. /\ CanCall /\ status' = [status EXCEPT ![s] = "active"]
      /\ order' = Append(order, s) /\ locked' = locked /\ touched' = touched
      /\ Push((IF n > MaxSessions + Threshold THEN <<v>> ELSE <<>>) \o <<e>>)
  BY DEF Create
<1>3. ToSet(order') = ToSet(order) \cup {s} /\ order \in Seq(Ids)
  BY <1>1, <1>2, PushLemma DEF SessionTypes
<1>4. InMap' = InMap \cup {s} /\ s \notin InMap
  BY <1>1, <1>2 DEF InMap, SessionTypes
<1>5. s \notin touched /\ s \notin Evicting
  BY <1>1 DEF Fresh
<1>6. Again = {}
  BY <1>1, <1>2, ShapeLemma
<1>7. CalledBack'
  BY <1>1, <1>2, <1>3, <1>4, <1>5, <1>6 DEF CalledBack
<1>8. Live' = Live \cup {s} /\ s \notin Live
  BY <1>4, <1>5 DEF Live
<1>9. Left \subseteq Left'
  BY <1>2, <1>3, <1>5, <1>8 DEF Left
<1>10. touched \subseteq Ids /\ touched' \subseteq Ids
  BY <1>1, <1>2 DEF SessionTypes
<1>11. /\ a \in Nat /\ c \in Nat /\ d \in Nat /\ c <= d
       /\ Threshold \in Nat /\ MaxSessions \in Nat
  BY <1>9, <1>10, CountLemma, ThresholdLemma
<1>12. b = a + 1
  <2>1. Live \in SUBSET Ids
    BY DEF Live, InMap
  <2>2. IsFiniteSet(Live)
    BY <2>1, IdsLemma
  <2> QED BY <1>8, <2>2, FS_AddElement
<1>13. a <= MaxSessions + Threshold + c
  <2>1. ~Due
    BY <1>2 DEF CanCall, InHandler, Due
  <2>2. a <= MaxSessions + Threshold + c + 0
    BY <1>1, <2>1 DEF Bounded
  <2> QED BY <1>11, <2>2
<1>14. n \in Nat /\ a + 1 <= n
  <2>1. InMap \in SUBSET Ids /\ Live \in SUBSET InMap
    BY DEF InMap, Live
  <2>2. IsFiniteSet(InMap) /\ Cardinality(InMap) \in Nat
    BY <2>1, IdsLemma
  <2>3. a <= Cardinality(InMap)
    BY <2>1, <2>2, FS_Subset
  <2> QED BY <1>11, <2>2, <2>3
<1>15. n > MaxSessions + Threshold => Due'
  <2> DEFINE u == <<v>> \o <<e>>
             rest == <<[Head(stack) EXCEPT !.left = @ - 1]>> \o Tail(stack)
  <2>1. SUFFICES ASSUME n > MaxSessions + Threshold PROVE Due'
    OBVIOUS
  <2>2. Push(u)
    BY <1>2, <2>1
  <2>3. v \in Frames /\ e \in Frames
    BY <1>14, MadeLemma DEF High
  <2> HIDE DEF v, e
  <2>4. u \in Seq(Frames) /\ Len(u) = 2 /\ u[1] = v
    <3> DEFINE x == <<v>>
               y == <<e>>
    <3>1. x \in Seq(Frames) /\ y \in Seq(Frames) /\ Len(x) = 1 /\ Len(y) = 1 /\ x[1] = v
      BY <2>3
    <3>2. u = x \o y
      OBVIOUS
    <3> HIDE DEF x, y, u
    <3>3. /\ x \o y \in Seq(Frames) /\ Len(x \o y) = Len(x) + Len(y)
          /\ \A i \in 1..(Len(x) + Len(y)) :
               (x \o y)[i] = IF i <= Len(x) THEN x[i] ELSE y[i - Len(x)]
      BY <3>1, ConcatProperties
    <3> QED BY <3>1, <3>2, <3>3
  <2>5. u # <<>> /\ Head(u) = v
    BY <2>4, EmptySeq, HeadTailProperties
  <2>6. stack' # <<>> /\ Head(stack') = v
    <3>1. CASE stack = <<>>
      <4>1. stack' = u
        BY <2>2, <3>1 DEF Push
      <4> HIDE DEF u
      <4> QED BY <2>5, <4>1
    <3>2. CASE stack # <<>>
      <4>1. rest \in Seq(Frames)
        <5>1. Head(stack) \in Frames /\ Head(stack).do = "handle" /\ Head(stack).left > 0
          BY <1>1, <1>2, <3>2, HeadTailProperties DEF CanCall, InHandler
        <5> DEFINE g == [Head(stack) EXCEPT !.left = @ - 1]
        <5>2. g \in Frames
          BY <5>1, MadeLemma
        <5> HIDE DEF g
        <5>3. <<g>> \in Seq(Frames) /\ Tail(stack) \in Seq(Frames)
          BY <1>1, <3>2, <5>2, HeadTailProperties
        <5> QED BY <5>3, ConcatProperties DEF g
      <4>2. stack' = u \o rest
        <5>1. stack' = u \o <<[Head(stack) EXCEPT !.left = @ - 1]>> \o Tail(stack)
          BY <2>2, <3>2 DEF Push
        <5>2. <<[Head(stack) EXCEPT !.left = @ - 1]>> \in Seq(Frames) /\ Tail(stack) \in Seq(Frames)
          BY <1>1, <1>2, <3>2, HeadTailProperties, MadeLemma DEF CanCall, InHandler
        <5> QED BY <2>4, <5>1, <5>2, ConcatAssociative
      <4> HIDE DEF u, rest
      <4>3. /\ stack' \in Seq(Frames) /\ Len(stack') = Len(u) + Len(rest)
            /\ \A i \in 1..(Len(u) + Len(rest)) :
                 stack'[i] = IF i <= Len(u) THEN u[i] ELSE rest[i - Len(u)]
        BY <2>4, <4>1, <4>2, ConcatProperties
      <4>4. Len(rest) \in Nat
        BY <4>1, LenProperties
      <4>5. Len(stack') # 0 /\ stack'[1] = v
        BY <2>4, <4>3, <4>4
      <4> QED BY <4>3, <4>5, EmptySeq, HeadTailProperties
    <3> QED BY <3>1, <3>2
  <2>7. order' # <<>>
    BY <1>3, NoneLemma
  <2>8. v.do = "evict" /\ v.size = n
    BY DEF v
  <2>9. n > MaxSessions
    BY <1>11, <1>14, <2>1
  <2> QED BY <2>6, <2>7, <2>8, <2>9 DEF Due
<1> HIDE DEF a, b, c, d, n
<1>16. z \in {0, 1} /\ (n > MaxSessions + Threshold => z = 1)
  BY <1>15
<1> HIDE DEF z
<1>17. b <= MaxSessions + Threshold + d + z
  <2>1. CASE n > MaxSessions + Threshold
    BY <1>11, <1>12, <1>13, <1>16, <2>1
  <2>2. CASE ~(n > MaxSessions + Threshold)
    BY <1>11, <1>12, <1>14, <1>16, <2>2
  <2> QED BY <2>1, <2>2
<1>18. Threshold' = Threshold
  BY DEF Threshold
<1>19. Bounded'
  BY <1>17, <1>18 DEF Bounded, b, d, z
<1> QED BY <1>7, <1>19


\* Every call keeps the bound and the shape.
LEMMA CallSize ==
  ASSUME SizeInv, SessionCalls
  PROVE  SizeInv'
<1>1. LruInv' /\ touched \subseteq Ids /\ touched' \subseteq Ids
  <2>1. LruInv'
    BY CallLru DEF SizeInv
  <2> QED BY <2>1 DEF SizeInv, LruInv, SessionTypes
<1>2. /\ SessionTypes /\ stack \in Seq(Frames) /\ Bus /\ Interrupted
      /\ order \in Seq(Ids) /\ IsInjective(order)
  BY DEF SizeInv, LruInv, SessionTypes, Apart
<1>3. CanCall /\ Bus' /\ Interrupted'
  <2>1. CanCall /\ emitting' = emitting /\ \E p \in Seq(Plain) : Push(p)
    BY <1>2, CallsLemma
  <2>2. PICK p \in Seq(Plain) : Push(p)
    BY <2>1
  <2> QED BY <1>2, <2>1, <2>2, PushShapeLemma
<1>4. Evicting' = Evicting
  BY <1>2, CallStackLemma
<1>5. \A s \in Ids : /\ ToSet(Without(s)) = ToSet(order) \ {s}
                     /\ ToSet(Newest(s)) = ToSet(order) \cup {s}
  BY <1>2, OrderLemma
<1>6. SUFFICES CalledBack' /\ Bounded'
  BY <1>1, <1>3 DEF SizeInv
<1>7. ASSUME NEW s \in Ids, Create(s) PROVE CalledBack' /\ Bounded'
  <2>1. stack' \in Seq(Frames)
    BY <1>2, CallStackLemma
  <2>2. status[s] = "new"
    BY <1>4, <1>7, <2>1, CreateLru DEF SizeInv
  <2> QED BY <1>1, <1>4, <1>7, <2>2, CreateSize
\* The calls that leave the map and the LRU alone.
<1>8. ASSUME InMap' = InMap, locked' = locked, order' = order, touched' = touched
      PROVE  CalledBack' /\ Bounded'
  BY <1>1, <1>3, <1>4, <1>8, CallbackLemma DEF Known
\* The calls that take back a session of the map, or renew it.
<1>9. ASSUME NEW s \in Ids, s \in InMap, InMap' = InMap,
             Known' = Known \cup {s}, touched' = touched \cup ({s} \cap Evicting)
      PROVE  CalledBack' /\ Bounded'
  BY <1>1, <1>3, <1>4, <1>9, CallbackLemma
<1>10. ASSUME NEW s \in Ids, Get(s) \/ LockExpired(s) PROVE CalledBack' /\ Bounded'
  <2>1. /\ status[s] \in {"active", "expired"} /\ status' = [status EXCEPT ![s] = "expired"]
        /\ locked' = locked /\ order' = order /\ touched' = touched
    BY <1>10 DEF Get, LockExpired, IsExpired
  <2>2. InMap' = InMap
    BY <1>2, <2>1 DEF InMap, SessionTypes
  <2> QED BY <1>8, <2>1, <2>2
<1>11. ASSUME NEW s \in Ids, Access(s) PROVE CalledBack' /\ Bounded'
  <2>1. status[s] = "active" /\ locked' = locked
    BY <1>11 DEF Access
  <2>2. CASE status' = [status EXCEPT ![s] = "expired"] /\ order' = order /\ touched' = touched
    <3>1. InMap' = InMap
      BY <1>2, <2>1, <2>2 DEF InMap, SessionTypes
    <3> QED BY <1>8, <2>1, <2>2, <3>1
  <2>3. CASE /\ order' = IF s \in locked THEN order ELSE Newest(s)
             /\ touched' = touched \cup ({s} \cap Evicting) /\ status' = status
    <3>1. InMap' = InMap /\ s \in InMap
      BY <2>1, <2>3 DEF InMap
    <3>2. Known' = Known \cup {s}
      BY <1>5, <2>1, <2>3 DEF Known
    <3> QED BY <1>9, <2>3, <3>1, <3>2
  <2> QED BY <1>11, <2>2, <2>3 DEF Access, Touch
<1>12. ASSUME NEW s \in Ids, NEW h \in Holders, Lock(h, s) PROVE CalledBack' /\ Bounded'
  <2>1. /\ s \in InMap /\ status' = [status EXCEPT ![s] = "locked"]
        /\ order' = Without(s) /\ locked' = locked \cup {s}
        /\ touched' = touched \cup ({s} \cap Evicting)
    BY <1>12 DEF Lock, Touch
  <2>2. InMap' = InMap
    BY <1>2, <2>1 DEF InMap, SessionTypes
  <2>3. Known' = Known \cup {s}
    BY <1>5, <2>1 DEF Known
  <2> QED BY <1>9, <2>1, <2>2, <2>3
<1>13. ASSUME NEW h \in Holders, Unlock(h) PROVE CalledBack' /\ Bounded'
  <2> DEFINE s == holds[h]
  <2>1. /\ s \in Ids /\ status[s] = "locked" /\ status' = [status EXCEPT ![s] = "active"]
        /\ order' = Newest(s) /\ locked' = locked \ {s}
        /\ touched' = touched \cup ({s} \cap Evicting)
    BY <1>2, <1>13 DEF Unlock, Touch, SessionTypes
  <2> HIDE DEF s
  <2>2. InMap' = InMap /\ s \in InMap
    BY <1>2, <2>1 DEF InMap, SessionTypes
  <2>3. Known' = Known \cup {s}
    BY <1>5, <2>1 DEF Known
  <2> QED BY <1>9, <2>1, <2>2, <2>3
<1>14. ASSUME NEW s \in Ids, Destroy(s) PROVE CalledBack' /\ Bounded'
  <2>1. /\ status' = [status EXCEPT ![s] = "gone"]
        /\ order' = Without(s) /\ locked' = locked \ {s} /\ touched' = touched
    BY <1>14 DEF Destroy
  <2>2. InMap' = InMap \ {s}
    BY <1>2, <2>1 DEF InMap, SessionTypes
  <2>3. Known' = Known \ {s}
    BY <1>5, <2>1 DEF Known
  <2> QED BY <1>1, <1>3, <1>4, <2>1, <2>2, <2>3, CallbackLemma
<1>15. ASSUME List PROVE CalledBack' /\ Bounded'
  <2> DEFINE newly == {s \in Ids : status[s] = "active" /\ s \in old}
  <2>1. /\ status' = [s \in Ids |-> IF s \in newly THEN "expired" ELSE status[s]]
        /\ order' = order /\ locked' = locked /\ touched' = touched
    BY <1>15 DEF List
  <2>2. InMap' = InMap
    BY <2>1 DEF InMap
  <2> QED BY <1>8, <2>1, <2>2
<1>16. ASSUME GC PROVE CalledBack' /\ Bounded'
  BY <1>8, <1>16 DEF GC, core, InMap
<1>17. ASSUME Dispose PROVE CalledBack' /\ Bounded'
  <2>1. /\ status' = [s \in Ids |-> IF s \in InMap THEN "gone" ELSE status[s]]
        /\ order' = <<>> /\ locked' = {} /\ touched' = touched
    BY <1>17 DEF Dispose
  <2>2. InMap' = {}
    BY <2>1 DEF InMap
  <2>3. Known' = {}
    BY <2>1, NoneLemma DEF Known
  <2> QED BY <1>1, <1>3, <1>4, <2>1, <2>2, <2>3, CallbackLemma
<1> QED BY <1>7, <1>10, <1>11, <1>12, <1>13, <1>14, <1>15, <1>16, <1>17 DEF SessionCalls

\* What a step of the innermost call needs: it may remove sessions, and takes none
\* back into the LRU.
LEMMA InnerLemma ==
  ASSUME SizeInv, LruInv', touched' = touched, ~Due,
         \A x \in Evicting : x \in InMap' => x \in Evicting',
         InMap' \subseteq InMap, Live' \subseteq Live,
         \A x \in Known' : x \in Known, \A x \in Known : x \in InMap' => x \in Known',
         \A x \in Again : x \in InMap' => x \in Again'
  PROVE  CalledBack' /\ Bounded'
<1>1. touched \subseteq Ids /\ touched' \subseteq Ids /\ CalledBack /\ Bounded
  BY DEF SizeInv, LruInv, SessionTypes
<1>2. CalledBack'
  BY <1>1 DEF CalledBack, Known
<1>3. Left \subseteq Left'
  BY <1>1 DEF Left, Known
<1> QED BY <1>1, <1>2, <1>3, BoundLemma


\* The lists of frames that the steps push, element by element.
LEMMA TuplesLemma ==
  /\ \A f \in Frames : <<f>> \in Seq(Frames) /\ Len(<<f>>) = 1 /\ <<f>>[1] = f
  /\ \A f, g \in Frames : /\ <<f, g>> \in Seq(Frames) /\ Len(<<f, g>>) = 2
                          /\ <<f, g>>[1] = f /\ <<f, g>>[2] = g
  /\ \A f, d, g, h \in Frames :
       /\ <<f, d, g, h>> \in Seq(Frames) /\ Len(<<f, d, g, h>>) = 4
       /\ <<f, d, g, h>>[1] = f /\ <<f, d, g, h>>[2] = d
       /\ <<f, d, g, h>>[3] = g /\ <<f, d, g, h>>[4] = h
OBVIOUS

\* An eviction removes a live session, or meets one that was called back on.
LEMMA EvictSize ==
  ASSUME SizeInv, Evict
  PROVE  SizeInv'
<1> DEFINE n == Head(stack).size
           s == Head(order)
           more == [do |-> "evict", size |-> n - 1]
           d == [do |-> "delete", id |-> s]
           e == Emit("evicted", s)
           g == Emit("destroyed", s)
           p == IF s \in InMap THEN <<e, d, g, more>> ELSE <<more>>
<1>1. /\ LruInv /\ Bus /\ Interrupted /\ CalledBack /\ Bounded
      /\ SessionTypes /\ Agree /\ stack \in Seq(Frames) /\ order \in Seq(Ids)
      /\ touched \subseteq Ids /\ locked \cap ToSet(order) = {}
  BY DEF SizeInv, LruInv, SessionTypes, Apart
<1>2. /\ stack # <<>> /\ Head(stack).do = "evict"
      /\ status' = status /\ locked' = locked /\ emitting' = emitting
      /\ touched' = touched
  BY DEF Evict, NextIs, bus
<1>3. LruInv'
  BY <1>1, EvictLru
<1>4. n \in Nat /\ MaxSessions \in Nat /\ MaxSessions > 0
  BY <1>1, <1>2, TopLemma, FrameLemma, ThresholdLemma
<1>5. InMap' = InMap
  BY <1>2 DEF InMap
<1>6. CASE ~(order # <<>> /\ n > MaxSessions)
  <2>1. order' = order /\ Evicting' = Evicting
    BY <1>1, <1>6, EvictLru
  <2>2. stack' = Rest
    BY <1>6 DEF Evict
  <2>3. Bus' /\ Interrupted' /\ \A x \in Again : x \in Again'
    BY <1>1, <1>2, <2>2, PopShapeLemma
  <2>4. ~Due
    BY <1>6 DEF Due
  <2>5. CalledBack' /\ Bounded'
    BY <1>2, <1>3, <1>5, <2>1, <2>3, <2>4, InnerLemma DEF Known, Live
  <2> QED BY <1>3, <2>3, <2>5 DEF SizeInv
<1>7. CASE order # <<>> /\ n > MaxSessions
  <2>1. /\ s \in Ids /\ ToSet(order') = ToSet(order) \ {s}
        /\ Evicting' = Evicting \cup ({s} \cap InMap)
    BY <1>1, <1>7, EvictLru
  <2>2. s \in ToSet(order)
    BY <1>1, <1>7, ShiftLemma DEF LruInv, Apart
  <2>3. /\ more \in Frames /\ more.do = "evict" /\ d \in Frames /\ d.do = "delete" /\ d.id = s
        /\ e \in Frames /\ e.do = "emit" /\ g \in Frames /\ g.do = "emit"
    <3>1. n - 1 \in Nat
      BY <1>4, <1>7
    <3> QED BY <2>1, <3>1, MadeLemma DEF High
  <2>4. stack' = p \o Rest
    BY <1>4, <1>7 DEF Evict
  <2> HIDE DEF more, d, e, g, s
  <2>5. /\ p \in Seq(Frames)
        /\ s \in InMap => s \in Deletes(p)
        /\ \A i \in DOMAIN p : /\ p[i].do \notin {"drain", "handle"}
                               /\ p[i].do = "delete" => i = 2 /\ p[1].do = "emit"
    <3>1. CASE s \in InMap
      <4>1. /\ p \in Seq(Frames) /\ Len(p) = 4
            /\ p[1] = e /\ p[2] = d /\ p[3] = g /\ p[4] = more
        BY <2>3, <3>1, TuplesLemma
      <4> HIDE DEF p
      <4>2. DOMAIN p = 1..4
        BY <4>1, LenProperties
      <4>3. 2 \in DOMAIN p /\ \A i \in DOMAIN p : i = 1 \/ i = 2 \/ i = 3 \/ i = 4
        BY <4>2
      <4>4. s \in Deletes(p)
        BY <2>3, <4>1, <4>3 DEF Deletes
      <4> QED BY <2>3, <4>1, <4>3, <4>4
    <3>2. CASE s \notin InMap
      <4>1. p \in Seq(Frames) /\ Len(p) = 1 /\ p[1] = more
        BY <2>3, <3>2, TuplesLemma
      <4> HIDE DEF p
      <4>2. DOMAIN p = 1..1
        BY <4>1, LenProperties
      <4> QED BY <2>3, <3>2, <4>1, <4>2
    <3> QED BY <3>1, <3>2
  <2> HIDE DEF p
  <2>6. stack' = Over(p, stack)
    BY <2>4 DEF Over, Rest
  <2>7. /\ Bus' /\ Interrupted' /\ \A x \in Again : x \in Again'
        /\ emitting => Deletes(p) \subseteq Again'
    BY <1>1, <1>2, <2>5, <2>6, OverShapeLemma
  <2>8. CalledBack'
    <3>1. CASE emitting
      BY <1>1, <1>2, <1>5, <2>1, <2>5, <2>7, <3>1 DEF CalledBack
    <3>2. CASE ~emitting
      <4>1. Evicting = {}
        BY <1>1, <1>2, <3>2, ShapeLemma
      <4> QED BY <1>1, <1>2, <1>5, <4>1 DEF CalledBack
    <3> QED BY <3>1, <3>2
  <2> DEFINE a == Cardinality(Live)
             b == Cardinality(Live')
             x == Cardinality(Left)
             y == Cardinality(Left')
             z == IF Due' THEN 1 ELSE 0
  <2>9. Live' \subseteq Live /\ Left \subseteq Left'
    BY <1>2, <1>5, <2>1 DEF Live, Left
  <2>10. /\ a \in Nat /\ b \in Nat /\ x \in Nat /\ y \in Nat /\ b <= a /\ x <= y
         /\ Threshold \in Nat /\ z \in Nat
    BY <1>1, <1>2, <2>9, CountLemma, ThresholdLemma
  <2>11. a <= MaxSessions + Threshold + x + 1
    <3>1. a <= MaxSessions + Threshold + x + (IF Due THEN 1 ELSE 0)
      BY <1>1 DEF Bounded
    <3> QED BY <1>4, <2>10, <3>1
  <2>12. b = a - 1 \/ y >= x + 1
    <3>1. CASE s \in Live
      <4>1. Live' = Live \ {s}
        BY <1>5, <2>1, <3>1 DEF Live
      <4>2. IsFiniteSet(Live)
        <5>1. Live \in SUBSET Ids
          BY DEF Live, InMap
        <5> QED BY <5>1, IdsLemma
      <4>3. b = a - 1
        BY <3>1, <4>1, <4>2, FS_RemoveElement
      <4> QED BY <4>3
    <3>2. CASE s \notin Live
      <4>1. s \in touched
        BY <1>1, <2>1, <2>2, <3>2 DEF Agree, Live, InMap
      <4>2. s \in Left' /\ s \notin Left
        BY <1>1, <1>2, <2>1, <2>2, <2>9, <3>2, <4>1 DEF Left
      <4>3. Left \cup {s} \in SUBSET Left' /\ IsFiniteSet(Left') /\ IsFiniteSet(Left)
        <5>1. Left' \in SUBSET Ids /\ Left \in SUBSET Ids
          BY <1>1, <1>2 DEF Left
        <5> QED BY <2>9, <4>2, <5>1, IdsLemma
      <4>4. Cardinality(Left \cup {s}) = x + 1
        BY <4>2, <4>3, FS_AddElement
      <4>5. Cardinality(Left \cup {s}) <= y
        BY <4>3, FS_Subset
      <4> QED BY <2>10, <4>4, <4>5
    <3> QED BY <3>1, <3>2
  <2> HIDE DEF a, b, x, y, z, n
  <2>13. b <= MaxSessions + Threshold + y + z
    BY <1>4, <2>10, <2>11, <2>12
  <2>14. Threshold' = Threshold
    BY DEF Threshold
  <2>15. Bounded'
    BY <2>13, <2>14 DEF Bounded, b, y, z
  <2> QED BY <1>3, <2>7, <2>8, <2>15 DEF SizeInv
<1> QED BY <1>6, <1>7


\* The evicted session was not counted any more.
LEMMA DeleteSize ==
  ASSUME SizeInv, Delete
  PROVE  SizeInv'
<1> DEFINE s == Head(stack).id
<1>1. LruInv /\ Bus /\ Interrupted /\ stack \in Seq(Frames) /\ SessionTypes
  BY DEF SizeInv, LruInv, SessionTypes
<1>2. /\ stack # <<>> /\ Head(stack).do = "delete" /\ stack' = Rest
      /\ status' = [status EXCEPT ![s] = "gone"]
      /\ order' = order /\ locked' = locked /\ emitting' = emitting /\ touched' = touched
  BY DEF Delete, NextIs, bus
<1>3. LruInv' /\ s \in Evicting /\ Evicting = Evicting' \cup {s}
  BY <1>1, DeleteLru
<1>4. Bus' /\ Interrupted' /\ \A x \in Again : x \in Again' \/ x = s
  BY <1>1, <1>2, PopShapeLemma
<1>5. InMap' = InMap \ {s}
  BY <1>1, <1>2 DEF InMap, SessionTypes
<1>6. ~Due
  BY <1>2 DEF Due
<1> HIDE DEF s
<1>7. CalledBack' /\ Bounded'
  BY <1>2, <1>3, <1>4, <1>5, <1>6, InnerLemma DEF Known, Live
<1> QED BY <1>3, <1>4, <1>7 DEF SizeInv

\* gc() only removes.
LEMMA CollectSize ==
  ASSUME SizeInv, Collect
  PROVE  SizeInv'
<1>1. LruInv /\ Bus /\ Interrupted /\ stack \in Seq(Frames) /\ SessionTypes
  BY DEF SizeInv, LruInv, SessionTypes
<1>2. /\ stack # <<>> /\ Head(stack).do = "gc" /\ emitting' = emitting /\ touched' = touched
  BY DEF Collect, NextIs, bus
<1>3. LruInv' /\ Evicting' = Evicting
  BY <1>1, CollectLru
<1>4. /\ InMap' \subseteq InMap
      /\ \A x \in Known' : x \in Known
      /\ \A x \in Known : x \in InMap' => x \in Known'
  <2>1. CASE status' = status /\ order' = order /\ locked' = locked
    BY <2>1 DEF InMap, Known
  <2>2. ASSUME NEW s \in Ids, status' = [status EXCEPT ![s] = "gone"],
               ToSet(order') = ToSet(order) \ {s}, locked' = locked \ {s}
        PROVE  /\ InMap' \subseteq InMap
               /\ \A x \in Known' : x \in Known
               /\ \A x \in Known : x \in InMap' => x \in Known'
    <3>1. InMap' = InMap \ {s}
      BY <1>1, <2>2 DEF InMap, SessionTypes
    <3>2. Known' = Known \ {s}
      BY <2>2 DEF Known
    <3> QED BY <3>1, <3>2
  <2> QED BY <1>1, <2>1, <2>2, CollectLru
<1>5. Bus' /\ Interrupted' /\ \A x \in Again : x \in Again'
  <2>1. CASE stack' = Rest
    BY <1>1, <1>2, <2>1, PopShapeLemma
  <2> DEFINE dead == {s \in Ids : s > Head(stack).at /\ IsExpired(s)}
             s == Min(dead)
             e == Emit("destroyed", s)
             g == [do |-> "gc", at |-> s]
             p == <<e, g>>
  <2>2. CASE dead # {} /\ stack' = p \o Rest
    <3>1. s \in Ids
      <4>1. s \in dead
        BY <2>2, IdsLemma, MinLemma
      <4> QED BY <4>1
    <3> HIDE DEF dead, s
    <3>2. e \in Frames /\ e.do = "emit" /\ g \in Frames /\ g.do = "gc"
      <4>1. s \in 0..N
        BY <3>1, SessionsAssumption DEF Ids
      <4> QED BY <3>1, <4>1, MadeLemma DEF High
    <3> HIDE DEF e, g
    <3>3. p \in Seq(Frames) /\ Len(p) = 2 /\ p[1] = e /\ p[2] = g
      BY <3>2, TuplesLemma
    <3>4. stack' = Over(p, stack)
      BY <2>2 DEF Over, Rest
    <3> HIDE DEF p
    <3>5. \A i \in DOMAIN p : p[i].do \notin {"drain", "handle", "delete"}
      <4>1. DOMAIN p = 1..2
        BY <3>3, LenProperties
      <4>2. \A i \in DOMAIN p : i = 1 \/ i = 2
        BY <4>1
      <4> QED BY <3>2, <3>3, <4>2
    <3> QED BY <1>1, <1>2, <3>3, <3>4, <3>5, OverShapeLemma
  <2> QED BY <2>1, <2>2 DEF Collect
<1>6. ~Due
  BY <1>2 DEF Due
<1>7. CalledBack' /\ Bounded'
  BY <1>2, <1>3, <1>4, <1>5, <1>6, InnerLemma DEF Live
<1> QED BY <1>3, <1>5, <1>7 DEF SizeInv

\* A step that only tells of events, with a stack that keeps its shape.
LEMMA TellLemma ==
  ASSUME SizeInv, LruInv', UNCHANGED core, touched' = touched, Evicting' = Evicting,
         ~Due, Bus', Interrupted', \A x \in Again : x \in Again'
  PROVE  SizeInv'
<1>1. status' = status /\ order' = order /\ locked' = locked
  BY DEF core
<1>2. CalledBack' /\ Bounded'
  BY <1>1, InnerLemma DEF Known, Live, InMap
<1> QED BY <1>2 DEF SizeInv

\* Telling of an event starts a delivery, or queues.
LEMMA EmitSize ==
  ASSUME SizeInv, EmitStep
  PROVE  SizeInv'
<1> DEFINE h == Handle(Head(stack).event)
           d == [do |-> "drain"]
           p == IF listening THEN <<h, d>> ELSE <<d>>
<1>1. LruInv /\ Bus /\ Interrupted /\ stack \in Seq(Frames) /\ listening \in BOOLEAN
      /\ emitting \in BOOLEAN
  BY DEF SizeInv, LruInv, SessionTypes
<1>2. /\ stack # <<>> /\ Head(stack).do = "emit" /\ UNCHANGED core /\ touched' = touched
  BY DEF EmitStep, NextIs
<1>3. LruInv' /\ Evicting' = Evicting
  BY <1>1, EmitLru
<1>4. ~Due
  BY <1>2 DEF Due
<1>5. CASE emitting /\ stack' = Rest /\ emitting' = emitting
  <2>1. Bus' /\ Interrupted' /\ \A x \in Again : x \in Again'
    BY <1>1, <1>2, <1>5, PopShapeLemma
  <2> QED BY <1>2, <1>3, <1>4, <2>1, TellLemma
<1>6. CASE ~emitting /\ emitting' = TRUE /\ stack' = p \o Rest
  <2>1. h \in Frames /\ h.do = "handle" /\ d \in Frames /\ d.do = "drain"
    <3>1. Head(stack).event \in Events
      BY <1>1, <1>2, TopLemma, FrameLemma
    <3> QED BY <3>1, MadeLemma
  <2>2. stack' = Over(p, stack)
    BY <1>6 DEF Over, Rest
  <2> HIDE DEF h, d
  <2>3. /\ p \in Seq(Frames) /\ Len(p) \in {1, 2} /\ p[Len(p)].do = "drain"
        /\ Len(p) = 2 => p[1].do = "handle"
    <3>1. CASE listening
      BY <2>1, <3>1, TuplesLemma
    <3>2. CASE ~listening
      BY <2>1, <3>2, TuplesLemma
    <3> QED BY <3>1, <3>2
  <2> HIDE DEF p
  <2>4. Bus' /\ Interrupted'
    BY <1>1, <1>2, <1>6, <2>2, <2>3, StartShapeLemma
  <2>5. Again = {}
    BY <1>1, <1>6, ShapeLemma
  <2> QED BY <1>2, <1>3, <1>4, <2>4, <2>5, TellLemma
<1> QED BY <1>5, <1>6 DEF EmitStep

\* A handler that returns uncovers the delivery.
LEMMA HandledSize ==
  ASSUME SizeInv, Handled
  PROVE  SizeInv'
<1>1. LruInv /\ Bus /\ Interrupted /\ stack \in Seq(Frames)
  BY DEF SizeInv, LruInv, SessionTypes
<1>2. /\ stack # <<>> /\ Head(stack).do = "handle" /\ stack' = Rest
      /\ UNCHANGED core /\ touched' = touched /\ emitting' = emitting
  BY DEF Handled, NextIs, bus
<1>3. LruInv' /\ Evicting' = Evicting
  BY <1>1, HandledLru
<1>4. ~Due
  BY <1>2 DEF Due
<1>5. Bus' /\ Interrupted' /\ \A x \in Again : x \in Again'
  BY <1>1, <1>2, PopShapeLemma
<1> QED BY <1>2, <1>3, <1>4, <1>5, TellLemma

\* The delivery goes on or ends.
LEMMA DrainSize ==
  ASSUME SizeInv, Drain
  PROVE  SizeInv'
<1> DEFINE h == Handle(Head(pending))
           d == Head(stack)
<1>1. LruInv /\ Bus /\ Interrupted /\ stack \in Seq(Frames) /\ pending \in Seq(Events)
      /\ listening \in BOOLEAN
  BY DEF SizeInv, LruInv, SessionTypes
<1>2. /\ stack # <<>> /\ Head(stack).do = "drain" /\ UNCHANGED core /\ touched' = touched
  BY DEF Drain, NextIs
<1>3. LruInv' /\ Evicting' = Evicting
  BY <1>1, DrainLru
<1>4. ~Due
  BY <1>2 DEF Due
<1>5. Again = {}
  BY <1>1, <1>2, ShapeLemma
<1>6. Bus' /\ Interrupted'
  <2>1. CASE emitting' = FALSE /\ stack' = Rest
    BY <1>1, <1>2, <2>1, StopShapeLemma
  <2>2. CASE /\ pending # <<>> /\ emitting' = emitting
             /\ stack' = IF listening THEN <<h, d>> \o Rest ELSE stack
    <3>1. CASE listening
      <4>1. h \in Frames /\ h.do = "handle"
        BY <1>1, <2>2, HeadTailProperties, MadeLemma
      <4>2. stack' = Over(<<h, d>>, stack)
        BY <2>2, <3>1 DEF Over, Rest
      <4> HIDE DEF h
      <4> QED BY <1>1, <1>2, <2>2, <4>1, <4>2, NextShapeLemma
    <3>2. CASE ~listening
      BY <1>1, <2>2, <3>2 DEF Bus, Interrupted, IsDrain, Above
    <3> QED BY <3>1, <3>2
  <2> QED BY <2>1, <2>2 DEF Drain
<1> QED BY <1>2, <1>3, <1>4, <1>5, <1>6, TellLemma

\* Steps that leave the stack, the map and the LRU alone.
LEMMA StillSize ==
  ASSUME SizeInv, LruInv', stack' = stack, emitting' = emitting, touched' = touched,
         status' = status, order' = order, locked' = locked
  PROVE  SizeInv'
<1>1. Evicting' = Evicting /\ Again' = Again /\ InMap' = InMap
  BY DEF Evicting, Again, Above, IsDrain, InMap
<1>2. Bus' /\ Interrupted'
  BY DEF SizeInv, Bus, Interrupted, IsDrain, Above
<1>3. CalledBack'
  BY <1>1 DEF SizeInv, CalledBack
<1>4. Live' = Live /\ Left' = Left /\ (Due' <=> Due) /\ Threshold' = Threshold
  BY <1>1 DEF Live, Left, Due, Threshold
<1>5. Bounded'
  BY <1>4 DEF SizeInv, Bounded
<1> QED BY <1>2, <1>3, <1>5 DEF SizeInv

\* At first there is nothing.
LEMMA SizeInitLemma ==
  ASSUME SessionInit
  PROVE  SizeInv
<1>1. LruInv
  BY LruInitLemma
<1>2. stack = <<>> /\ emitting = FALSE /\ touched = {}
  BY DEF SessionInit
<1>3. DOMAIN stack = {}
  BY <1>2, EmptySeq, LenProperties
<1>4. Bus /\ Interrupted /\ CalledBack
  BY <1>2, <1>3 DEF Bus, Interrupted, CalledBack
<1>5. Bounded
  <2>1. Live = {} /\ Left = {} /\ ~Due
    BY <1>2 DEF SessionInit, Live, InMap, Left, Due
  <2>2. Cardinality(Live) = 0 /\ Cardinality(Left) = 0
    BY <2>1, FS_EmptySet
  <2>3. 0 <= MaxSessions + Threshold + 0 + 0
    BY ThresholdLemma
  <2> QED BY <2>1, <2>2, <2>3 DEF Bounded
<1> QED BY <1>1, <1>4, <1>5 DEF SizeInv

\* Every step keeps the invariant of the bound.
LEMMA SizeStepLemma ==
  ASSUME SizeInv, [SessionNext]_sessionVars
  PROVE  SizeInv'
<1>1. LruInv'
  BY LruStepLemma DEF SizeInv
<1>2. CASE SessionCalls
  BY <1>2, CallSize
<1>3. CASE Evict
  BY <1>3, EvictSize
<1>4. CASE Delete
  BY <1>4, DeleteSize
<1>5. CASE Collect
  BY <1>5, CollectSize
<1>6. CASE EmitStep
  BY <1>6, EmitSize
<1>7. CASE Handled
  BY <1>7, HandledSize
<1>8. CASE Drain
  BY <1>8, DrainSize
<1>9. ASSUME NEW s \in Ids, Age(s) PROVE SizeInv'
  <2>1. /\ stack' = stack /\ emitting' = emitting /\ touched' = touched
        /\ status' = status /\ order' = order /\ locked' = locked
    BY <1>9 DEF Age, bus
  <2> QED BY <1>1, <2>1, StillSize
<1>10. CASE UNCHANGED sessionVars
  <2>1. /\ stack' = stack /\ emitting' = emitting /\ touched' = touched
        /\ status' = status /\ order' = order /\ locked' = locked
    BY <1>10 DEF sessionVars, core, bus
  <2> QED BY <1>1, <2>1, StillSize
<1> QED BY <1>2, <1>3, <1>4, <1>5, <1>6, <1>7, <1>8, <1>9, <1>10 DEF SessionNext, Step

\* Between calls the map holds at most maxSessions and the threshold, and one more
\* for each session that a handler called back on while it was evicted.
THEOREM SessionSizeBound == SessionSpec => []SizeBound
<1>1. SessionInit => SizeInv
  BY SizeInitLemma
<1>2. SizeInv /\ [SessionNext]_sessionVars => SizeInv'
  BY SizeStepLemma
<1>3. SizeInv => SizeBound
  <2>1. SUFFICES ASSUME SizeInv, stack = <<>>
                 PROVE  Cardinality(InMap) <= MaxSessions + Threshold + Cardinality(touched)
    BY DEF SizeBound, Idle
  <2>2. Evicting = {} /\ ~Due
    BY <2>1, ListsLemma DEF Evicting, Due
  <2>3. Live = InMap
    BY <2>2 DEF Live
  <2>4. touched \subseteq Ids /\ Left \in SUBSET touched
    BY <2>1 DEF SizeInv, LruInv, SessionTypes, Left
  <2>5. touched \in SUBSET Ids /\ Left \in SUBSET Ids /\ InMap \in SUBSET Ids
    BY <2>4 DEF InMap
  <2>6. IsFiniteSet(touched) /\ Cardinality(touched) \in Nat /\ Cardinality(Left) \in Nat
        /\ Cardinality(InMap) \in Nat
    BY <2>5, IdsLemma
  <2>7. Cardinality(Left) <= Cardinality(touched)
    BY <2>4, <2>6, FS_Subset
  <2>8. Cardinality(InMap) <= MaxSessions + Threshold + Cardinality(Left) + 0
    BY <2>1, <2>2, <2>3 DEF SizeInv, Bounded
  <2>9. Threshold \in Nat /\ MaxSessions \in Nat
    BY ThresholdLemma
  <2> QED BY <2>6, <2>7, <2>8, <2>9
<1> QED BY <1>1, <1>2, <1>3, PTL DEF SessionSpec

-----------------------------------------------------------------------------
\* The file memory store.

Active == {"first", "index", "replace", "sweep"}
Writes == {c \in Calls : op[c] # None /\ op[c].kind = "write"}

\* The lock: the calls under way queue once each, and only the first of them has
\* got past its first step.
LineInv == /\ IsInjective(line)
           /\ \A c \in Calls : c \in ToSet(line) <=> pc[c] \in Active
           /\ \A c \in Calls : pc[c] \in {"index", "replace", "sweep"} => Inside(c)

\* What a call was made with, and the steps its kind goes through.
OpInv ==
  \A c \in Calls :
    /\ op[c] = None <=> pc[c] = "new"
    /\ op[c] # None => /\ op[c].kind = "write" => op[c].key \in Keys /\ op[c].at <= clock
                       /\ op[c].kind \in {"update", "delete"} => op[c].id \in Writes
    /\ pc[c] = "index" => op[c].kind \in {"write", "delete"}
    /\ pc[c] = "replace" => op[c].kind \in {"write", "update", "delete"}
    /\ pc[c] = "sweep" => op[c].kind \in {"compact", "clear"}

\* An entry file is that of a write() past its first step; the file of a call
\* that has still to change the index is there, or no longer there.
FileInv ==
  /\ \A i \in Files : /\ i \in Writes /\ pc[i] # "first"
                      /\ file[i].key = op[i].key /\ file[i].updatedAt <= clock
  /\ \A c \in Calls : pc[c] \in {"index", "replace"} =>
       /\ op[c].kind = "write" => c \in Files
       /\ op[c].kind = "delete" => op[c].id \notin Files

\* What the call inside has read is still what the disk says.
MemInv ==
  \A c \in Calls :
    /\ pc[c] = "replace" => mem[c] = IF op[c].kind = "update" THEN file[op[c].id] ELSE index
    /\ pc[c] = "replace" /\ op[c].kind = "update" => op[c].id \in Files
    /\ pc[c] = "sweep" => /\ mem[c] \in [left : SUBSET Calls, kept : SUBSET Calls]
                          /\ mem[c].left \cap mem[c].kept = {}
                          /\ mem[c].left \cup mem[c].kept = Files

\* The index while a call is inside: what it says of the entries that this call
\* is not about; a sweep may leave it as wrong as it likes, for it rebuilds it.
Sweeping == \E c \in Calls : pc[c] = "sweep"
Deleting(i) == \E c \in Calls : /\ pc[c] \in {"index", "replace"}
                                /\ op[c].kind = "delete" /\ op[c].id = i
Adding(i) == pc[i] \in {"index", "replace"}
Sole(i) == \A c \in Writes : op[c].key = op[i].key => c = i

IndexInv == ~dirty /\ ~Sweeping =>
  \A k \in Keys : index[k] # None =>
    Deleting(index[k]) \/ (index[k] \in Files /\ file[index[k]].key = k)
KeyInv == ~dirty /\ ~Sweeping =>
  \A i \in Files : Sole(i) => Adding(i) \/ index[file[i].key] = i

\* A successful update is in the entry; its entry is not written a second time.
UpdateInv == \A c \in Calls : pc[c] = "ok" /\ op[c].kind = "update" =>
  /\ pc[op[c].id] # "first"
  /\ op[c].id \in Files => c \in file[op[c].id].applied

FileStoreInv == /\ TypeOK /\ LineInv /\ OpInv /\ FileInv /\ MemInv
                /\ IndexInv /\ KeyInv /\ UpdateInv

-----------------------------------------------------------------------------
\* A new store on an empty directory satisfies the invariant.
LEMMA FileStoreInit == Init => FileStoreInv
<1> SUFFICES ASSUME Init PROVE FileStoreInv
  OBVIOUS
<1>1. <<>> \in Seq(Calls) /\ ToSet(<<>>) = {} /\ IsInjective(<<>>)
  BY NoneLemma
<1>2. TypeOK
  BY <1>1 DEF Init, TypeOK, NoIndex, Memory, Steps
<1>3. Files = {} /\ \A c \in Calls : pc[c] = "new" /\ op[c] = None
  BY DEF Init, Files
<1>4. LineInv /\ OpInv /\ FileInv
  BY <1>1, <1>3 DEF Init, LineInv, OpInv, FileInv, Active
<1>5. MemInv /\ IndexInv /\ KeyInv /\ UpdateInv
  BY <1>3 DEF Init, MemInv, IndexInv, KeyInv, UpdateInv, NoIndex
<1> QED BY <1>2, <1>4, <1>5 DEF FileStoreInv

\* The call inside is the only one past its first step.
LEMMA InsideAlone ==
  ASSUME LineInv, NEW c \in Calls, Inside(c), NEW d \in Calls, d # c
  PROVE  pc[d] \notin {"index", "replace", "sweep"}
  BY DEF LineInv, Inside

\* When the call inside ends, the lock passes on and nobody is past its first step.
LEMMA EndLemma ==
  ASSUME TypeOK, LineInv, NEW c \in Calls, Inside(c),
         NEW result \in {"ok", "failed"}, End(c, result)
  PROVE  /\ line' \in Seq(Calls) /\ pc' \in [Calls -> Steps] /\ LineInv'
         /\ pc[c] \in Active /\ pc'[c] = result
         /\ \A d \in Calls \ {c} : pc'[d] = pc[d] /\ pc[d] \notin {"index", "replace", "sweep"}
<1>1. /\ line' \in Seq(Calls) /\ IsInjective(line')
      /\ ToSet(line') = ToSet(line) \ {c}
  BY SpliceLemma DEF TypeOK, LineInv, End
<1>2. /\ pc' \in [Calls -> Steps] /\ pc'[c] = result
      /\ \A d \in Calls \ {c} : pc'[d] = pc[d]
  BY DEF TypeOK, End, Steps
<1>3. \A d \in Calls \ {c} : pc[d] \notin {"index", "replace", "sweep"}
  BY InsideAlone
<1>4. c \in ToSet(line)
  BY ShiftLemma DEF TypeOK, LineInv, Inside
<1>5. LineInv'
  BY <1>1, <1>2, <1>3 DEF LineInv, Active
<1> QED BY <1>1, <1>2, <1>3, <1>4, <1>5 DEF LineInv

\* When the call inside goes on, it stays inside.
LEMMA GotoLemma ==
  ASSUME TypeOK, LineInv, NEW c \in Calls, Inside(c),
         NEW step \in {"index", "replace", "sweep"}, Goto(c, step)
  PROVE  /\ line' \in Seq(Calls) /\ pc' \in [Calls -> Steps] /\ LineInv'
         /\ pc'[c] = step
         /\ \A d \in Calls \ {c} : pc'[d] = pc[d] /\ pc[d] \notin {"index", "replace", "sweep"}
<1>1. /\ line' = line /\ pc' \in [Calls -> Steps] /\ pc'[c] = step
      /\ \A d \in Calls \ {c} : pc'[d] = pc[d]
  BY DEF TypeOK, Goto, Steps
<1>2. \A d \in Calls \ {c} : pc[d] \notin {"index", "replace", "sweep"}
  BY InsideAlone
<1>3. c \in ToSet(line)
  BY ShiftLemma DEF TypeOK, LineInv, Inside
<1>4. LineInv'
  BY <1>1, <1>2, <1>3 DEF LineInv, Active, Inside
<1> QED BY <1>1, <1>2, <1>4 DEF TypeOK

\* Of finitely many entries the latest is one of them: their times are bounded.
LEMMA LatestLemma ==
  ASSUME TypeOK, FileInv, NEW S \in SUBSET Files, S # {}
  PROVE  Latest(S) \in S
<1> DEFINE ages == {clock - file[i].updatedAt : i \in S}
<1>1. \A i \in S : /\ file[i].updatedAt \in Nat /\ clock \in Nat
                   /\ file[i].updatedAt <= clock
  BY DEF TypeOK, FileInv, Files, Entry
<1>2. ages \in SUBSET Nat /\ ages # {}
  BY <1>1
<1>3. PICK n \in ages : \A m \in ages : n <= m
  BY <1>2, LeastLemma
<1>4. PICK i \in S : n = clock - file[i].updatedAt
  BY <1>3
<1>5. ASSUME NEW j \in S PROVE file[j].updatedAt <= file[i].updatedAt
  <2>1. n <= clock - file[j].updatedAt
    BY <1>3
  <2> HIDE DEF ages
  <2> QED BY <1>1, <1>4, <2>1
<1> QED BY <1>4, <1>5 DEF Latest

-----------------------------------------------------------------------------
\* A call that starts changes nothing but its own place: it is behind the others,
\* and a write() of a key only makes fewer writes the sole one of theirs.
LEMMA StartKeeps ==
  ASSUME FileStoreInv, NEW c \in Calls, Start(c)
  PROVE  FileStoreInv'
<1> USE DEF FileStoreInv
<1>1. /\ pc[c] = "new" /\ op[c] = None
      /\ pc' = [pc EXCEPT ![c] = "first"] /\ line' = Append(line, c)
      /\ UNCHANGED <<file, index, mem, dirty>>
  BY DEF Start, OpInv, disk
<1>2. PICK kind \in Kinds, key \in Keys, id \in Calls :
        /\ op' = [op EXCEPT ![c] = [kind |-> kind,
                                    key |-> IF kind = "write" THEN key ELSE None,
                                    id |-> IF kind \in {"update", "delete"} THEN id ELSE None,
                                    at |-> IF kind = "write" THEN clock ELSE 0]]
        /\ kind \in {"update", "delete"} => op[id] # None /\ op[id].kind = "write"
        /\ clock' = IF kind = "write" THEN clock + 1 ELSE clock
  BY DEF Start
<1>3. c \notin ToSet(line)
  BY <1>1 DEF LineInv, Active
<1>4. /\ line' \in Seq(Calls) /\ ToSet(line') = ToSet(line) \cup {c} /\ IsInjective(line')
      /\ line # <<>> => line' # <<>> /\ Head(line') = Head(line)
  <2>1. /\ Append(line, c) \in Seq(Calls) /\ ToSet(Append(line, c)) = ToSet(line) \cup {c}
        /\ IsInjective(Append(line, c))
    BY <1>3, PushLemma DEF TypeOK, LineInv
  <2>2. line # <<>> => Append(line, c) # <<>> /\ Head(Append(line, c)) = Head(line)
    BY HeadTailAppend, AppendProperties DEF TypeOK
  <2> QED BY <1>1, <2>1, <2>2
<1>5. /\ op' \in [Calls -> Arguments \cup {None}] /\ op'[c] # None
      /\ \A d \in Calls \ {c} : op'[d] = op[d] /\ pc'[d] = pc[d]
      /\ pc'[c] = "first" /\ pc' \in [Calls -> Steps]
      /\ clock' \in Nat /\ clock <= clock'
      /\ op'[c].kind = kind
      /\ kind = "write" => op'[c].key = key /\ op'[c].at <= clock'
      /\ kind \in {"update", "delete"} => op'[c].id = id
  <2>1. op'[c] \in Arguments
    BY <1>2 DEF Arguments, TypeOK
  <2> QED BY <1>1, <1>2, <2>1, FileStoreAssumption DEF TypeOK, Steps
<1>6. TypeOK'
  BY <1>1, <1>4, <1>5 DEF TypeOK, Steps
<1>7. LineInv'
  BY <1>1, <1>4, <1>5 DEF LineInv, Active, Inside
<1>8. Writes \subseteq Writes' /\ Files' = Files /\ c \notin Files /\ c \notin Writes
  BY <1>1, <1>5 DEF Writes, Files, FileInv
<1>9. OpInv'
  <2>1. kind \in {"update", "delete"} => id \in Writes
    BY <1>2 DEF Writes
  <2>2. ASSUME NEW d \in Calls \ {c}
        PROVE  /\ op'[d] = None <=> pc'[d] = "new"
               /\ op'[d] # None =>
                    /\ op'[d].kind = "write" => op'[d].key \in Keys /\ op'[d].at <= clock'
                    /\ op'[d].kind \in {"update", "delete"} => op'[d].id \in Writes'
               /\ pc'[d] = "index" => op'[d].kind \in {"write", "delete"}
               /\ pc'[d] = "replace" => op'[d].kind \in {"write", "update", "delete"}
               /\ pc'[d] = "sweep" => op'[d].kind \in {"compact", "clear"}
    <3>1. op[d] # None /\ op[d].kind = "write" => op[d].at \in Nat /\ op[d].at <= clock
      BY DEF OpInv, TypeOK, Arguments
    <3>2. op[d] # None /\ op[d].kind = "write" => op[d].at <= clock'
      BY <3>1, <1>5 DEF TypeOK
    <3> QED BY <1>5, <1>8, <3>2 DEF OpInv
  <2> QED BY <1>5, <1>8, <2>1, <2>2 DEF OpInv
<1>10. FileInv'
  <2>1. ASSUME NEW i \in Files PROVE file[i].updatedAt <= clock'
    BY <1>5 DEF FileInv, TypeOK, Files, Entry
  <2>2. ASSUME NEW i \in Files
        PROVE  i \in Writes' /\ pc'[i] # "first" /\ file'[i].key = op'[i].key
    BY <1>1, <1>5, <1>8 DEF FileInv, Files
  <2>3. ASSUME NEW d \in Calls, pc'[d] \in {"index", "replace"}
        PROVE  /\ op'[d].kind = "write" => d \in Files
               /\ op'[d].kind = "delete" => op'[d].id \notin Files
    BY <2>3, <1>5 DEF FileInv
  <2> QED BY <1>1, <1>8, <2>1, <2>2, <2>3 DEF FileInv
<1>11. MemInv'
  BY <1>1, <1>5, <1>8 DEF MemInv
<1>12. Sweeping' = Sweeping /\ \A i \in Calls : Deleting(i)' = Deleting(i)
  BY <1>1, <1>5 DEF Sweeping, Deleting
<1>13. IndexInv'
  BY <1>1, <1>8, <1>12 DEF IndexInv, TypeOK
<1>14. KeyInv'
  <2>1. ASSUME NEW i \in Files, Sole(i)' PROVE Sole(i)
    <3>1. \A d \in Writes : op'[d].key = op'[i].key => d = i
      BY <2>1, <1>8 DEF Sole
    <3>2. i # c /\ \A d \in Writes : d # c
      BY <1>8
    <3> QED BY <3>1, <3>2, <1>5 DEF Sole, Writes, Files
  <2>2. \A i \in Files : Adding(i)' <=> Adding(i)
    BY <1>5, <1>8 DEF Adding, Files
  <2> QED BY <1>1, <1>8, <1>12, <2>1, <2>2 DEF KeyInv
<1>15. UpdateInv'
  <2>1. \A d \in Calls : pc'[d] = "ok" => d # c /\ pc[d] = "ok"
    BY <1>5
  <2>2. \A d \in Calls : pc[d] = "ok" /\ op[d].kind = "update" =>
          op[d].id \in Writes /\ op[d].id # c
    BY <1>8 DEF OpInv, Writes
  <2> QED BY <1>1, <1>5, <1>8, <2>1, <2>2 DEF UpdateInv, Writes
<1> QED BY <1>6, <1>7, <1>9, <1>10, <1>11, <1>13, <1>14, <1>15

\* What a step of the call inside does to the arguments of the calls: nothing.
LEMMA OpKeeps ==
  ASSUME FileStoreInv, NEW c \in Calls, UNCHANGED op, clock' \in Nat, clock <= clock',
         pc[c] # "new", pc'[c] # "new", \A d \in Calls \ {c} : pc'[d] = pc[d],
         pc'[c] = "index" => op[c].kind \in {"write", "delete"},
         pc'[c] = "replace" => op[c].kind \in {"write", "update", "delete"},
         pc'[c] = "sweep" => op[c].kind \in {"compact", "clear"}
  PROVE  OpInv' /\ Writes' = Writes /\ \A i \in Calls : Sole(i)' <=> Sole(i)
<1> USE DEF FileStoreInv
<1>1. Writes' = Writes /\ \A i \in Calls : Sole(i)' <=> Sole(i)
  BY DEF Writes, Sole
<1>2. ASSUME NEW d \in Calls, op[d] # None, op[d].kind = "write" PROVE op[d].at <= clock'
  <2>1. op[d].at \in Nat /\ op[d].at <= clock /\ clock \in Nat
    BY <1>2 DEF OpInv, TypeOK, Arguments
  <2> QED BY <2>1
<1>3. OpInv'
  BY <1>1, <1>2 DEF OpInv
<1> QED BY <1>1, <1>3

\* After a call has ended none is past its first step, so that nothing is owed to
\* what a call has read, and the index stands for all entries.
LEMMA EndKeeps ==
  ASSUME FileStoreInv, NEW c \in Calls, Inside(c),
         NEW result \in {"ok", "failed"}, End(c, result),
         UNCHANGED op, clock' \in Nat, clock <= clock'
  PROVE  /\ line' \in Seq(Calls) /\ pc' \in [Calls -> Steps]
         /\ LineInv' /\ OpInv' /\ MemInv'
         /\ Writes' = Writes /\ \A i \in Calls : Sole(i)' <=> Sole(i)
         /\ ~Sweeping' /\ \A i \in Calls : ~Deleting(i)' /\ ~Adding(i)'
         /\ pc'[c] = result
         /\ \A d \in Calls \ {c} : pc'[d] = pc[d] /\ pc[d] \notin {"index", "replace", "sweep"}
         /\ \A d \in Calls : pc'[d] \notin {"index", "replace", "sweep"}
<1> USE DEF FileStoreInv
<1>1. /\ line' \in Seq(Calls) /\ pc' \in [Calls -> Steps] /\ LineInv'
      /\ pc[c] \in Active /\ pc'[c] = result
      /\ \A d \in Calls \ {c} : pc'[d] = pc[d] /\ pc[d] \notin {"index", "replace", "sweep"}
  BY EndLemma
<1>2. \A d \in Calls : pc'[d] \notin {"index", "replace", "sweep"}
  BY <1>1
<1>3. OpInv' /\ Writes' = Writes /\ \A i \in Calls : Sole(i)' <=> Sole(i)
  BY <1>1, OpKeeps DEF Active
<1>4. MemInv' /\ ~Sweeping' /\ \A i \in Calls : ~Deleting(i)' /\ ~Adding(i)'
  BY <1>2 DEF MemInv, Sweeping, Deleting, Adding
<1> QED BY <1>1, <1>2, <1>3, <1>4

\* And a call that goes on is the only one past its first step.
LEMMA GotoKeeps ==
  ASSUME FileStoreInv, NEW c \in Calls, Inside(c), pc[c] # "new",
         NEW step \in {"index", "replace", "sweep"}, Goto(c, step), UNCHANGED <<op, clock>>,
         step = "index" => op[c].kind \in {"write", "delete"},
         step = "replace" => op[c].kind \in {"write", "update", "delete"},
         step = "sweep" => op[c].kind \in {"compact", "clear"}
  PROVE  /\ line' \in Seq(Calls) /\ pc' \in [Calls -> Steps]
         /\ LineInv' /\ OpInv'
         /\ Writes' = Writes /\ \A i \in Calls : Sole(i)' <=> Sole(i)
         /\ pc'[c] = step
         /\ \A d \in Calls \ {c} : pc'[d] = pc[d] /\ pc[d] \notin {"index", "replace", "sweep"}
<1> USE DEF FileStoreInv
<1>1. /\ line' \in Seq(Calls) /\ pc' \in [Calls -> Steps] /\ LineInv'
      /\ pc'[c] = step
      /\ \A d \in Calls \ {c} : pc'[d] = pc[d] /\ pc[d] \notin {"index", "replace", "sweep"}
  BY GotoLemma
<1>2. clock' \in Nat /\ clock <= clock'
  BY DEF TypeOK
<1>3. OpInv' /\ Writes' = Writes /\ \A i \in Calls : Sole(i)' <=> Sole(i)
  BY <1>1, <1>2, OpKeeps
<1> QED BY <1>1, <1>3

\* write() puts the entry on disk: an entry no index names.
LEMMA WriteEntryKeeps ==
  ASSUME FileStoreInv, NEW c \in Calls, WriteEntry(c)
  PROVE  FileStoreInv'
<1> USE DEF FileStoreInv
<1> DEFINE e == [key |-> op[c].key, applied |-> {}, updatedAt |-> op[c].at]
<1>1. /\ pc[c] = "first" /\ Inside(c) /\ op[c].kind = "write" /\ Goto(c, "index")
      /\ file' = [file EXCEPT ![c] = e] /\ UNCHANGED <<index, op, mem, clock, dirty>>
  BY DEF WriteEntry, At
<1>2. c \in Writes /\ op[c] \in Arguments /\ op[c].key \in Keys /\ op[c].at <= clock
  BY <1>1 DEF OpInv, TypeOK, Writes
<1>3. e \in Entry /\ e # None
  BY <1>2, FileStoreAssumption DEF Arguments, Entry
<1>4. /\ line' \in Seq(Calls) /\ pc' \in [Calls -> Steps] /\ LineInv' /\ OpInv'
      /\ Writes' = Writes /\ \A i \in Calls : Sole(i)' <=> Sole(i)
      /\ pc'[c] = "index"
      /\ \A d \in Calls \ {c} : pc'[d] = pc[d] /\ pc[d] \notin {"index", "replace", "sweep"}
  BY <1>1, GotoKeeps
<1>5. /\ file' \in [Calls -> Entry \cup {None}] /\ file'[c] = e
      /\ \A i \in Calls \ {c} : file'[i] = file[i]
  BY <1>1, <1>3 DEF TypeOK
<1>6. c \notin Files /\ Files' = Files \cup {c}
  BY <1>1, <1>3, <1>5 DEF FileInv, Files
<1>7. TypeOK'
  BY <1>1, <1>4, <1>5 DEF TypeOK, Steps
<1>8. FileInv'
  <2>1. ASSUME NEW i \in Files'
        PROVE  /\ i \in Writes' /\ pc'[i] # "first"
               /\ file'[i].key = op'[i].key /\ file'[i].updatedAt <= clock'
    BY <1>1, <1>2, <1>4, <1>5, <1>6 DEF FileInv, Files
  <2>2. ASSUME NEW d \in Calls, pc'[d] \in {"index", "replace"}
        PROVE  /\ op'[d].kind = "write" => d \in Files'
               /\ op'[d].kind = "delete" => op'[d].id \notin Files'
    BY <2>2, <1>1, <1>4, <1>6
  <2> QED BY <2>1, <2>2 DEF FileInv
<1>9. MemInv'
  BY <1>4 DEF MemInv
<1>10. /\ ~Sweeping /\ ~Sweeping'
       /\ \A i \in Calls : ~Deleting(i) /\ (i # c => ~Adding(i)) /\ (Adding(i)' <=> i = c)
  BY <1>1, <1>4 DEF Sweeping, Deleting, Adding
<1>11. IndexInv'
  BY <1>1, <1>5, <1>6, <1>10 DEF IndexInv, TypeOK
<1>12. KeyInv'
  BY <1>1, <1>4, <1>5, <1>6, <1>10 DEF KeyInv, Files
<1>13. UpdateInv'
  <2>1. ASSUME NEW d \in Calls, pc'[d] = "ok", op[d].kind = "update"
        PROVE  pc'[op[d].id] # "first" /\ (op[d].id \in Files' => d \in file'[op[d].id].applied)
    <3>1. d # c /\ pc[d] = "ok"
      BY <2>1, <1>4
    <3>2. op[d].id \in Calls /\ op[d].id # c
      BY <2>1, <3>1, <1>1 DEF UpdateInv, OpInv, Writes
    <3> QED BY <2>1, <3>1, <3>2, <1>4, <1>5, <1>6 DEF UpdateInv
  <2> QED BY <2>1, <1>1 DEF UpdateInv
<1> QED BY <1>4, <1>7, <1>8, <1>9, <1>11, <1>12, <1>13

\* write() and delete() read the index: nothing on disk changes.
LEMMA ReadIndexKeeps ==
  ASSUME FileStoreInv, NEW c \in Calls, ReadIndex(c)
  PROVE  FileStoreInv'
<1> USE DEF FileStoreInv
<1>1. /\ pc[c] = "index" /\ Inside(c) /\ op[c].kind \in {"write", "delete"}
      /\ Goto(c, "replace") /\ mem' = [mem EXCEPT ![c] = index]
      /\ UNCHANGED <<file, index, op, clock, dirty>>
  BY DEF ReadIndex, At, disk
<1>2. /\ line' \in Seq(Calls) /\ pc' \in [Calls -> Steps] /\ LineInv' /\ OpInv'
      /\ Writes' = Writes /\ \A i \in Calls : Sole(i)' <=> Sole(i)
      /\ pc'[c] = "replace"
      /\ \A d \in Calls \ {c} : pc'[d] = pc[d] /\ pc[d] \notin {"index", "replace", "sweep"}
  BY <1>1, GotoKeeps
<1>3. Files' = Files /\ mem'[c] = index /\ \A d \in Calls \ {c} : mem'[d] = mem[d]
  BY <1>1 DEF Files, TypeOK
<1>4. TypeOK'
  BY <1>1, <1>2 DEF TypeOK, Memory
<1>5. FileInv'
  <2>1. ASSUME NEW i \in Files
        PROVE  /\ i \in Writes' /\ pc'[i] # "first"
               /\ file[i].key = op[i].key /\ file[i].updatedAt <= clock
    BY <1>2 DEF FileInv, Files
  <2>2. ASSUME NEW d \in Calls, pc'[d] \in {"index", "replace"}
        PROVE  /\ op[d].kind = "write" => d \in Files
               /\ op[d].kind = "delete" => op[d].id \notin Files
    BY <2>2, <1>1, <1>2 DEF FileInv
  <2> QED BY <1>1, <1>3, <2>1, <2>2 DEF FileInv
<1>6. MemInv'
  BY <1>1, <1>2, <1>3 DEF MemInv
<1>7. /\ Sweeping' <=> Sweeping
      /\ \A i \in Calls : (Deleting(i)' <=> Deleting(i)) /\ (Adding(i)' <=> Adding(i))
  BY <1>1, <1>2 DEF Sweeping, Deleting, Adding
<1>8. IndexInv' /\ KeyInv'
  BY <1>1, <1>2, <1>3, <1>7 DEF IndexInv, KeyInv, TypeOK, Files
<1>9. UpdateInv'
  BY <1>1, <1>2, <1>3 DEF UpdateInv, OpInv, Writes
<1> QED BY <1>2, <1>4, <1>5, <1>6, <1>8, <1>9

\* write() replaces the index it has read: its key leads to its entry.
LEMMA AddKeyKeeps ==
  ASSUME FileStoreInv, NEW c \in Calls, AddKey(c)
  PROVE  FileStoreInv'
<1> USE DEF FileStoreInv
<1>1. /\ pc[c] = "replace" /\ Inside(c) /\ op[c].kind = "write" /\ End(c, "ok")
      /\ index' = [mem[c] EXCEPT ![op[c].key] = c]
      /\ UNCHANGED <<file, op, mem, clock, dirty>>
  BY DEF AddKey, At
<1>2. /\ line' \in Seq(Calls) /\ pc' \in [Calls -> Steps] /\ LineInv' /\ OpInv' /\ MemInv'
      /\ Writes' = Writes /\ \A i \in Calls : Sole(i)' <=> Sole(i)
      /\ ~Sweeping' /\ \A i \in Calls : ~Deleting(i)' /\ ~Adding(i)'
      /\ pc'[c] = "ok"
      /\ \A d \in Calls \ {c} : pc'[d] = pc[d] /\ pc[d] \notin {"index", "replace", "sweep"}
      /\ \A d \in Calls : pc'[d] \notin {"index", "replace", "sweep"}
  BY <1>1, EndKeeps DEF TypeOK
<1>3. /\ c \in Writes /\ op[c].key \in Keys /\ mem[c] = index
      /\ c \in Files /\ file[c].key = op[c].key
  BY <1>1 DEF OpInv, MemInv, FileInv, Writes
<1>4. /\ index' \in [Keys -> Calls \cup {None}] /\ index'[op[c].key] = c
      /\ \A k \in Keys \ {op[c].key} : index'[k] = index[k]
  BY <1>1, <1>3 DEF TypeOK
<1>5. TypeOK'
  BY <1>1, <1>2, <1>4 DEF TypeOK
<1>6. Files' = Files
  BY <1>1 DEF Files
<1>7. FileInv'
  BY <1>1, <1>2, <1>6 DEF FileInv, Files
<1>8. ~Sweeping /\ \A i \in Calls : ~Deleting(i) /\ (i # c => ~Adding(i))
  BY <1>1, <1>2 DEF Sweeping, Deleting, Adding
<1>9. IndexInv'
  BY <1>1, <1>3, <1>4, <1>6, <1>8 DEF IndexInv, TypeOK
<1>10. KeyInv'
  <2>1. ASSUME ~dirty, NEW i \in Files, Sole(i) PROVE index'[file[i].key] = i
    <3>1. i \in Calls /\ file[i].key = op[i].key /\ file[i].key \in Keys
      BY DEF FileInv, Files, TypeOK, Entry
    <3>2. CASE i = c
      BY <3>2, <1>3, <1>4
    <3>3. CASE i # c
      <4>1. file[i].key # op[c].key
        BY <2>1, <3>1, <3>3, <1>3 DEF Sole
      <4>2. index[file[i].key] = i
        BY <2>1, <3>1, <3>3, <1>8 DEF KeyInv
      <4> QED BY <3>1, <4>1, <4>2, <1>4
    <3> QED BY <3>2, <3>3
  <2> QED BY <2>1, <1>1, <1>2, <1>6 DEF KeyInv, Files
<1>11. UpdateInv'
  BY <1>1, <1>2, <1>6 DEF UpdateInv, OpInv, Writes
<1> QED BY <1>2, <1>5, <1>7, <1>9, <1>10, <1>11

\* update() reads the entry, or fails for want of one.
LEMMA ReadEntryKeeps ==
  ASSUME FileStoreInv, NEW c \in Calls, ReadEntry(c)
  PROVE  FileStoreInv'
<1> USE DEF FileStoreInv
<1>1. /\ pc[c] = "first" /\ Inside(c) /\ op[c].kind = "update"
      /\ UNCHANGED <<file, index, op, clock, dirty>>
  BY DEF ReadEntry, At, disk
<1>2. op[c].id \in Calls /\ Files' = Files
  BY <1>1 DEF OpInv, Writes, Files
<1>3. CASE /\ file[op[c].id] # None
           /\ mem' = [mem EXCEPT ![c] = file[op[c].id]]
           /\ Goto(c, "replace")
  <2>1. /\ line' \in Seq(Calls) /\ pc' \in [Calls -> Steps] /\ LineInv' /\ OpInv'
        /\ Writes' = Writes /\ \A i \in Calls : Sole(i)' <=> Sole(i)
        /\ pc'[c] = "replace"
        /\ \A d \in Calls \ {c} : pc'[d] = pc[d] /\ pc[d] \notin {"index", "replace", "sweep"}
    BY <1>1, <1>3, GotoKeeps
  <2>2. /\ op[c].id \in Files /\ file[op[c].id] \in Entry
        /\ mem'[c] = file[op[c].id] /\ mem' \in [Calls -> Memory]
    BY <1>2, <1>3 DEF Files, TypeOK, Memory
  <2>3. TypeOK'
    BY <1>1, <2>1, <2>2 DEF TypeOK
  <2>4. FileInv'
    <3>1. ASSUME NEW i \in Files PROVE i \in Writes' /\ pc'[i] # "first"
      BY <2>1 DEF FileInv, Files
    <3> QED BY <1>1, <1>2, <2>1, <3>1 DEF FileInv
  <2>5. MemInv'
    BY <1>1, <1>2, <2>1, <2>2 DEF MemInv
  <2>6. /\ ~Sweeping /\ ~Sweeping'
        /\ \A i \in Calls : ~Deleting(i) /\ ~Deleting(i)' /\ ~Adding(i)
    BY <1>1, <2>1 DEF Sweeping, Deleting, Adding
  <2>7. IndexInv' /\ KeyInv'
    BY <1>1, <1>2, <2>1, <2>6 DEF IndexInv, KeyInv, TypeOK, Files
  <2>8. UpdateInv'
    BY <1>1, <1>2, <2>1 DEF UpdateInv, OpInv, Writes
  <2> QED BY <2>1, <2>3, <2>4, <2>5, <2>7, <2>8
<1>4. CASE End(c, "failed") /\ mem' = mem
  <2>1. /\ line' \in Seq(Calls) /\ pc' \in [Calls -> Steps] /\ LineInv' /\ OpInv' /\ MemInv'
        /\ Writes' = Writes /\ \A i \in Calls : Sole(i)' <=> Sole(i)
        /\ ~Sweeping' /\ \A i \in Calls : ~Deleting(i)' /\ ~Adding(i)'
        /\ pc'[c] = "failed"
        /\ \A d \in Calls \ {c} : pc'[d] = pc[d] /\ pc[d] \notin {"index", "replace", "sweep"}
        /\ \A d \in Calls : pc'[d] \notin {"index", "replace", "sweep"}
    BY <1>1, <1>4, EndKeeps DEF TypeOK
  <2>2. TypeOK'
    BY <1>1, <1>4, <2>1 DEF TypeOK
  <2>3. FileInv'
    BY <1>1, <1>2, <2>1 DEF FileInv, Files
  <2>4. ~Sweeping /\ \A i \in Calls : ~Deleting(i) /\ ~Adding(i)
    BY <1>1, <2>1 DEF Sweeping, Deleting, Adding
  <2>5. IndexInv' /\ KeyInv'
    BY <1>1, <1>2, <2>1, <2>4 DEF IndexInv, KeyInv, TypeOK, Files
  <2>6. UpdateInv'
    BY <1>1, <1>2, <2>1 DEF UpdateInv, OpInv, Writes
  <2> QED BY <2>1, <2>2, <2>3, <2>5, <2>6
<1> QED BY <1>3, <1>4 DEF ReadEntry

\* update() writes the entry it has read, with itself merged in: nobody has
\* touched the entry since.
LEMMA ReplaceEntryKeeps ==
  ASSUME FileStoreInv, NEW c \in Calls, ReplaceEntry(c)
  PROVE  FileStoreInv'
<1> USE DEF FileStoreInv
<1> DEFINE u == op[c].id
           e == [mem[c] EXCEPT !.applied = mem[c].applied \cup {c}, !.updatedAt = clock]
<1>1. /\ pc[c] = "replace" /\ Inside(c) /\ op[c].kind = "update" /\ End(c, "ok")
      /\ file' = [file EXCEPT ![u] = e] /\ clock' = clock + 1
      /\ UNCHANGED <<index, op, mem, dirty>>
  BY DEF ReplaceEntry, At
<1>2. clock' \in Nat /\ clock <= clock' /\ clock \in Nat
  BY <1>1 DEF TypeOK
<1>3. /\ line' \in Seq(Calls) /\ pc' \in [Calls -> Steps] /\ LineInv' /\ OpInv' /\ MemInv'
      /\ Writes' = Writes /\ \A i \in Calls : Sole(i)' <=> Sole(i)
      /\ ~Sweeping' /\ \A i \in Calls : ~Deleting(i)' /\ ~Adding(i)'
      /\ pc'[c] = "ok"
      /\ \A d \in Calls \ {c} : pc'[d] = pc[d] /\ pc[d] \notin {"index", "replace", "sweep"}
      /\ \A d \in Calls : pc'[d] \notin {"index", "replace", "sweep"}
  BY <1>1, <1>2, EndKeeps
<1>4. u \in Files /\ u \in Calls /\ mem[c] = file[u] /\ file[u] \in Entry
  BY <1>1 DEF MemInv, Files, TypeOK
<1>5. /\ e \in Entry /\ e # None /\ e.key = file[u].key
      /\ e.applied = file[u].applied \cup {c} /\ e.updatedAt = clock
  <2>1. /\ e \in Entry /\ e.key = file[u].key
        /\ e.applied = file[u].applied \cup {c} /\ e.updatedAt = clock
    BY <1>2, <1>4 DEF Entry
  <2> HIDE DEF e
  <2>2. e # None
    BY <2>1, FileStoreAssumption
  <2> QED BY <2>1, <2>2
<1> HIDE DEF e
<1>6. /\ file' \in [Calls -> Entry \cup {None}] /\ file'[u] = e
      /\ \A i \in Calls \ {u} : file'[i] = file[i]
  BY <1>1, <1>4, <1>5 DEF TypeOK
<1>7. Files' = Files
  BY <1>4, <1>5, <1>6 DEF Files
<1>8. TypeOK'
  BY <1>1, <1>2, <1>3, <1>6 DEF TypeOK
<1>9. FileInv'
  <2>1. ASSUME NEW i \in Files
        PROVE  /\ i \in Writes /\ pc'[i] # "first"
               /\ file'[i].key = op[i].key /\ file'[i].updatedAt <= clock'
    <3>1. /\ i \in Calls /\ i \in Writes /\ file[i].key = op[i].key /\ pc[i] # "first"
          /\ file[i].updatedAt <= clock /\ file[i].updatedAt \in Nat
      BY DEF FileInv, Files, TypeOK, Entry
    <3>2. file'[i].key = op[i].key /\ pc'[i] # "first"
      BY <3>1, <1>3, <1>5, <1>6
    <3>3. file'[i].updatedAt <= clock'
      BY <3>1, <1>1, <1>2, <1>5, <1>6
    <3> QED BY <3>1, <3>2, <3>3
  <2> QED BY <2>1, <1>1, <1>3, <1>7 DEF FileInv
<1>10. ~Sweeping /\ \A i \in Calls : ~Deleting(i) /\ (i # c => ~Adding(i))
  BY <1>1, <1>3 DEF Sweeping, Deleting, Adding
<1>11. c \notin Files /\ \A i \in Files : i \in Calls /\ file'[i].key = file[i].key
  BY <1>1, <1>5, <1>6 DEF FileInv, Writes, Files
<1>12. IndexInv' /\ KeyInv'
  BY <1>1, <1>3, <1>7, <1>10, <1>11 DEF IndexInv, KeyInv, TypeOK
<1>13. UpdateInv'
  <2>1. ASSUME NEW d \in Calls, pc'[d] = "ok", op[d].kind = "update"
        PROVE  /\ pc'[op[d].id] # "first"
               /\ op[d].id \in Files => d \in file'[op[d].id].applied
    <3>1. CASE d = c
      BY <3>1, <1>3, <1>4, <1>5, <1>6 DEF FileInv
    <3>2. CASE d # c
      <4>1. pc[d] = "ok" /\ op[d].id \in Calls
        BY <2>1, <3>2, <1>3 DEF OpInv, Writes
      <4>2. /\ pc[op[d].id] # "first"
            /\ op[d].id \in Files => d \in file[op[d].id].applied
        BY <2>1, <4>1 DEF UpdateInv
      <4> QED BY <4>1, <4>2, <1>3, <1>5, <1>6
    <3> QED BY <3>1, <3>2
  <2> QED BY <2>1, <1>1, <1>7 DEF UpdateInv
<1> QED BY <1>3, <1>8, <1>9, <1>12, <1>13

\* delete() removes the file, or finds none.
LEMMA UnlinkKeeps ==
  ASSUME FileStoreInv, NEW c \in Calls, Unlink(c)
  PROVE  FileStoreInv'
<1> USE DEF FileStoreInv
<1> DEFINE u == op[c].id
<1>1. /\ pc[c] = "first" /\ Inside(c) /\ op[c].kind = "delete"
      /\ UNCHANGED <<index, op, mem, clock, dirty>>
  BY DEF Unlink, At
<1>2. u \in Writes /\ u \in Calls
  BY <1>1 DEF OpInv, Writes
<1>3. CASE file[u] # None /\ file' = [file EXCEPT ![u] = None] /\ Goto(c, "index")
  <2>1. /\ line' \in Seq(Calls) /\ pc' \in [Calls -> Steps] /\ LineInv' /\ OpInv'
        /\ Writes' = Writes /\ \A i \in Calls : Sole(i)' <=> Sole(i)
        /\ pc'[c] = "index"
        /\ \A d \in Calls \ {c} : pc'[d] = pc[d] /\ pc[d] \notin {"index", "replace", "sweep"}
    BY <1>1, <1>3, GotoKeeps
  <2>2. /\ file' \in [Calls -> Entry \cup {None}] /\ file'[u] = None
        /\ \A i \in Calls \ {u} : file'[i] = file[i]
    BY <1>2, <1>3 DEF TypeOK
  <2>3. Files' = Files \ {u}
    BY <1>2, <2>2 DEF Files
  <2>4. TypeOK'
    BY <1>1, <2>1, <2>2 DEF TypeOK
  <2>5. FileInv'
    <3>1. ASSUME NEW i \in Files \ {u}
          PROVE  /\ i \in Writes /\ pc'[i] # "first"
                 /\ file'[i].key = op[i].key /\ file'[i].updatedAt <= clock
      BY <2>1, <2>2 DEF FileInv, Files
    <3>2. \A d \in Calls : pc'[d] \in {"index", "replace"} => d = c
      BY <2>1
    <3> QED BY <1>1, <2>1, <2>3, <3>1, <3>2 DEF FileInv
  <2>6. MemInv'
    BY <2>1 DEF MemInv
  <2>7. /\ ~Sweeping /\ ~Sweeping'
        /\ \A i \in Calls : ~Deleting(i) /\ ~Adding(i) /\ (Deleting(i)' <=> i = u)
    BY <1>1, <2>1 DEF Sweeping, Deleting, Adding
  <2>8. IndexInv'
    BY <1>1, <2>2, <2>3, <2>7 DEF IndexInv, TypeOK
  <2>9. KeyInv'
    BY <1>1, <2>1, <2>2, <2>3, <2>7 DEF KeyInv, Files
  <2>10. UpdateInv'
    <3>1. ASSUME NEW d \in Calls, pc'[d] = "ok", op[d].kind = "update"
          PROVE  /\ pc'[op[d].id] # "first"
                 /\ op[d].id \in Files' => d \in file'[op[d].id].applied
      <4>1. pc[d] = "ok" /\ op[d].id \in Calls
        BY <3>1, <2>1 DEF OpInv, Writes
      <4> QED BY <3>1, <4>1, <2>1, <2>2, <2>3 DEF UpdateInv
    <3> QED BY <1>1, <3>1 DEF UpdateInv
  <2> QED BY <2>1, <2>4, <2>5, <2>6, <2>8, <2>9, <2>10
<1>4. CASE End(c, "failed") /\ file' = file
  <2>1. /\ line' \in Seq(Calls) /\ pc' \in [Calls -> Steps] /\ LineInv' /\ OpInv' /\ MemInv'
        /\ Writes' = Writes /\ \A i \in Calls : Sole(i)' <=> Sole(i)
        /\ ~Sweeping' /\ \A i \in Calls : ~Deleting(i)' /\ ~Adding(i)'
        /\ pc'[c] = "failed"
        /\ \A d \in Calls \ {c} : pc'[d] = pc[d] /\ pc[d] \notin {"index", "replace", "sweep"}
        /\ \A d \in Calls : pc'[d] \notin {"index", "replace", "sweep"}
    BY <1>1, <1>4, EndKeeps DEF TypeOK
  <2>2. TypeOK' /\ Files' = Files
    BY <1>1, <1>4, <2>1 DEF TypeOK, Files
  <2>3. FileInv'
    <3>1. \A i \in Files : i \in Writes /\ pc'[i] # "first"
      BY <2>1 DEF FileInv, Files
    <3> QED BY <1>1, <1>4, <2>1, <2>2, <3>1 DEF FileInv
  <2>4. ~Sweeping /\ \A i \in Calls : ~Deleting(i) /\ ~Adding(i)
    BY <1>1, <2>1 DEF Sweeping, Deleting, Adding
  <2>5. IndexInv' /\ KeyInv'
    BY <1>1, <1>4, <2>1, <2>2, <2>4 DEF IndexInv, KeyInv, TypeOK, Files
  <2>6. UpdateInv'
    BY <1>1, <1>4, <2>1, <2>2 DEF UpdateInv, OpInv, Writes
  <2> QED BY <2>1, <2>2, <2>3, <2>5, <2>6
<1> QED BY <1>3, <1>4 DEF Unlink

\* delete() replaces the index it has read, without the entry it removed.
LEMMA DropKeyKeeps ==
  ASSUME FileStoreInv, NEW c \in Calls, DropKey(c)
  PROVE  FileStoreInv'
<1> USE DEF FileStoreInv
<1> DEFINE u == op[c].id
<1>1. /\ pc[c] = "replace" /\ Inside(c) /\ op[c].kind = "delete" /\ End(c, "ok")
      /\ index' = [k \in Keys |-> IF mem[c][k] = u THEN None ELSE mem[c][k]]
      /\ UNCHANGED <<file, op, mem, clock, dirty>>
  BY DEF DropKey, At
<1>2. /\ line' \in Seq(Calls) /\ pc' \in [Calls -> Steps] /\ LineInv' /\ OpInv' /\ MemInv'
      /\ Writes' = Writes /\ \A i \in Calls : Sole(i)' <=> Sole(i)
      /\ ~Sweeping' /\ \A i \in Calls : ~Deleting(i)' /\ ~Adding(i)'
      /\ pc'[c] = "ok"
      /\ \A d \in Calls \ {c} : pc'[d] = pc[d] /\ pc[d] \notin {"index", "replace", "sweep"}
      /\ \A d \in Calls : pc'[d] \notin {"index", "replace", "sweep"}
  BY <1>1, EndKeeps DEF TypeOK
<1>3. mem[c] = index /\ u \notin Files /\ Files' = Files
  BY <1>1 DEF MemInv, FileInv, Files
<1>4. /\ index' \in [Keys -> Calls \cup {None}]
      /\ \A k \in Keys : index'[k] = IF index[k] = u THEN None ELSE index[k]
  BY <1>1, <1>3 DEF TypeOK
<1>5. TypeOK'
  BY <1>1, <1>2, <1>4 DEF TypeOK
<1>6. FileInv'
  BY <1>1, <1>2, <1>3 DEF FileInv, Files
<1>7. ~Sweeping /\ \A i \in Calls : (Deleting(i) => i = u) /\ (i # c => ~Adding(i))
  BY <1>1, <1>2 DEF Sweeping, Deleting, Adding
<1>8. IndexInv'
  BY <1>1, <1>3, <1>4, <1>7 DEF IndexInv, TypeOK
<1>9. KeyInv'
  <2>1. c \notin Files
    BY <1>1 DEF FileInv, Writes
  <2>2. \A i \in Files : i \in Calls /\ file[i].key \in Keys
    BY DEF Files, TypeOK, Entry
  <2> QED BY <1>1, <1>2, <1>3, <1>4, <1>7, <2>1, <2>2 DEF KeyInv
<1>10. UpdateInv'
  BY <1>1, <1>2, <1>3 DEF UpdateInv, OpInv, Writes
<1> QED BY <1>2, <1>5, <1>6, <1>8, <1>9, <1>10

\* compact() and clear() choose what to remove and what to keep of the files.
LEMMA ChooseKeeps ==
  ASSUME FileStoreInv, NEW c \in Calls, Choose(c) \/ ChooseAll(c)
  PROVE  FileStoreInv'
<1> USE DEF FileStoreInv
<1>1. /\ pc[c] = "first" /\ Inside(c) /\ op[c].kind \in {"compact", "clear"}
      /\ Goto(c, "sweep") /\ UNCHANGED <<file, index, op, clock, dirty>>
  BY DEF Choose, ChooseAll, At, disk
<1>2. PICK victims \in SUBSET Files :
        mem' = [mem EXCEPT ![c] = [left |-> victims, kept |-> Files \ victims]]
  <2>1. Files \ Files = {} /\ Files \in SUBSET Files
    OBVIOUS
  <2> QED BY <2>1 DEF Choose, ChooseAll
<1>3. /\ mem'[c] = [left |-> victims, kept |-> Files \ victims]
      /\ mem'[c] \in [left : SUBSET Calls, kept : SUBSET Calls]
      /\ mem'[c].left \cap mem'[c].kept = {} /\ mem'[c].left \cup mem'[c].kept = Files
      /\ mem' \in [Calls -> Memory]
  BY <1>2 DEF Files, TypeOK, Memory
<1>4. /\ line' \in Seq(Calls) /\ pc' \in [Calls -> Steps] /\ LineInv' /\ OpInv'
      /\ Writes' = Writes /\ \A i \in Calls : Sole(i)' <=> Sole(i)
      /\ pc'[c] = "sweep"
      /\ \A d \in Calls \ {c} : pc'[d] = pc[d] /\ pc[d] \notin {"index", "replace", "sweep"}
  BY <1>1, GotoKeeps
<1>5. TypeOK' /\ Files' = Files
  BY <1>1, <1>3, <1>4 DEF TypeOK, Files
<1>6. FileInv'
  <2>1. ASSUME NEW i \in Files PROVE i \in Writes' /\ pc'[i] # "first"
    BY <1>4 DEF FileInv, Files
  <2> QED BY <1>1, <1>4, <1>5, <2>1 DEF FileInv
<1>7. MemInv'
  BY <1>3, <1>4, <1>5 DEF MemInv
<1>8. IndexInv' /\ KeyInv'
  BY <1>4 DEF IndexInv, KeyInv, Sweeping
<1>9. UpdateInv'
  BY <1>1, <1>4, <1>5 DEF UpdateInv, OpInv, Writes
<1> QED BY <1>4, <1>5, <1>6, <1>7, <1>8, <1>9

\* One removal succeeds, or fails and keeps its entry: what is left and what is
\* kept are still the files, whatever becomes of the index meanwhile.
LEMMA SweepKeeps ==
  ASSUME FileStoreInv, NEW c \in Calls, Sweep(c)
  PROVE  FileStoreInv'
<1> USE DEF FileStoreInv
<1> DEFINE m == mem[c]
<1>1. /\ pc[c] = "sweep" /\ Inside(c) /\ op[c].kind \in {"compact", "clear"}
      /\ UNCHANGED <<index, line, pc, op, clock, dirty>>
  BY DEF Sweep, At
<1>2. /\ m \in [left : SUBSET Calls, kept : SUBSET Calls]
      /\ m.left \cap m.kept = {} /\ m.left \cup m.kept = Files
  BY <1>1 DEF MemInv
<1>3. PICK i \in m.left :
        \/ /\ file' = [file EXCEPT ![i] = None]
           /\ mem' = [mem EXCEPT ![c].left = m.left \ {i}]
        \/ /\ mem' = [mem EXCEPT ![c].left = m.left \ {i}, ![c].kept = m.kept \cup {i}]
           /\ file' = file
  BY DEF Sweep
<1>4. i \in Files /\ i \in Calls /\ i \notin m.kept
  BY <1>2
<1>5. /\ file' \in [Calls -> Entry \cup {None}]
      /\ \A j \in Calls \ {i} : file'[j] = file[j]
      /\ file'[i] \in {file[i], None}
  BY <1>3, <1>4 DEF TypeOK
<1>6. Files' \subseteq Files /\ \A j \in Files' : file'[j] = file[j]
  BY <1>4, <1>5 DEF Files
<1>7. /\ mem'[c] \in [left : SUBSET Calls, kept : SUBSET Calls]
      /\ mem'[c].left \cap mem'[c].kept = {} /\ mem'[c].left \cup mem'[c].kept = Files'
      /\ mem' \in [Calls -> Memory]
  <2>1. CASE /\ file' = [file EXCEPT ![i] = None]
             /\ mem' = [mem EXCEPT ![c].left = m.left \ {i}]
    <3>1. mem'[c] = [left |-> m.left \ {i}, kept |-> m.kept]
      BY <2>1, <1>2 DEF TypeOK
    <3>2. Files' = Files \ {i}
      BY <2>1, <1>4 DEF Files, TypeOK
    <3>3. /\ mem'[c] \in [left : SUBSET Calls, kept : SUBSET Calls]
          /\ mem'[c].left \cap mem'[c].kept = {} /\ mem'[c].left \cup mem'[c].kept = Files'
      BY <3>1, <3>2, <1>2, <1>4
    <3>4. mem' = [mem EXCEPT ![c] = mem'[c]]
      BY <2>1 DEF TypeOK
    <3> QED BY <3>3, <3>4 DEF TypeOK, Memory
  <2>2. CASE /\ mem' = [mem EXCEPT ![c].left = m.left \ {i}, ![c].kept = m.kept \cup {i}]
             /\ file' = file
    <3>1. mem'[c] = [left |-> m.left \ {i}, kept |-> m.kept \cup {i}]
      BY <2>2, <1>2 DEF TypeOK
    <3>2. Files' = Files
      BY <2>2 DEF Files
    <3>3. /\ mem'[c] \in [left : SUBSET Calls, kept : SUBSET Calls]
          /\ mem'[c].left \cap mem'[c].kept = {} /\ mem'[c].left \cup mem'[c].kept = Files'
      BY <3>1, <3>2, <1>2, <1>4
    <3>4. mem' = [mem EXCEPT ![c] = mem'[c]]
      BY <2>2 DEF TypeOK
    <3> QED BY <3>3, <3>4 DEF TypeOK, Memory
  <2> QED BY <1>3, <2>1, <2>2
<1>8. \A d \in Calls \ {c} : pc[d] \notin {"index", "replace", "sweep"}
  BY <1>1, InsideAlone
<1>9. TypeOK' /\ LineInv'
  BY <1>1, <1>5, <1>7 DEF TypeOK, LineInv, Inside
<1>10. OpInv' /\ Writes' = Writes
  BY <1>1 DEF OpInv, Writes
<1>11. FileInv'
  BY <1>1, <1>6, <1>8, <1>10 DEF FileInv
<1>12. MemInv'
  BY <1>1, <1>7, <1>8 DEF MemInv
<1>13. IndexInv' /\ KeyInv'
  BY <1>1 DEF IndexInv, KeyInv, Sweeping
<1>14. UpdateInv'
  BY <1>1, <1>6 DEF UpdateInv
<1> QED BY <1>9, <1>10, <1>11, <1>12, <1>13, <1>14

\* An index that leads from each key of an entry to an entry with that key.
RebuiltIndex == /\ index \in [Keys -> Calls \cup {None}]
                /\ \A k \in Keys : index[k] # None => index[k] \in Files /\ file[index[k]].key = k
                /\ \A i \in Files : index[file[i].key] \in Files
                                    /\ file[index[file[i].key]].key = file[i].key

\* A call that ends with such an index restores all that is said of the index.
LEMMA RebuiltKeeps ==
  ASSUME FileStoreInv, NEW c \in Calls, Inside(c), End(c, "ok"),
         op[c].kind \in {"compact", "clear", "reconcile"},
         RebuiltIndex', dirty' = FALSE, UNCHANGED <<file, op, mem, clock>>
  PROVE  FileStoreInv'
<1> USE DEF FileStoreInv
<1>1. /\ line' \in Seq(Calls) /\ pc' \in [Calls -> Steps] /\ LineInv' /\ OpInv' /\ MemInv'
      /\ Writes' = Writes /\ \A i \in Calls : Sole(i)' <=> Sole(i)
      /\ ~Sweeping' /\ \A i \in Calls : ~Deleting(i)' /\ ~Adding(i)'
      /\ pc'[c] = "ok"
      /\ \A d \in Calls \ {c} : pc'[d] = pc[d] /\ pc[d] \notin {"index", "replace", "sweep"}
      /\ \A d \in Calls : pc'[d] \notin {"index", "replace", "sweep"}
  BY EndKeeps DEF TypeOK
<1>2. TypeOK' /\ Files' = Files
  BY <1>1 DEF TypeOK, Files, RebuiltIndex
<1>3. FileInv'
  <2>1. \A i \in Files : i \in Writes /\ pc'[i] # "first"
    BY <1>1 DEF FileInv, Files
  <2> QED BY <1>1, <1>2, <2>1 DEF FileInv
<1>4. IndexInv'
  BY DEF IndexInv, RebuiltIndex
<1>5. KeyInv'
  <2>1. ASSUME NEW i \in Files, Sole(i) PROVE index'[file[i].key] = i
    <3>1. /\ index'[file[i].key] \in Files
          /\ file[index'[file[i].key]].key = file[i].key
      BY <1>2 DEF RebuiltIndex
    <3>2. /\ index'[file[i].key] \in Writes
          /\ op[index'[file[i].key]].key = op[i].key
      BY <3>1 DEF FileInv
    <3> QED BY <2>1, <3>2 DEF Sole
  <2> QED BY <1>1, <1>2, <2>1 DEF KeyInv, Files
<1>6. UpdateInv'
  BY <1>1, <1>2 DEF UpdateInv, OpInv, Writes
<1> QED BY <1>1, <1>2, <1>3, <1>4, <1>5, <1>6

\* compact() and clear() rebuild the index from what was kept, which is what is
\* on disk: the index is right again, also after a crash.
LEMMA RebuildKeeps ==
  ASSUME FileStoreInv, NEW c \in Calls, Rebuild(c)
  PROVE  FileStoreInv'
<1> USE DEF FileStoreInv
<1>1. /\ pc[c] = "sweep" /\ Inside(c) /\ op[c].kind \in {"compact", "clear"}
      /\ mem[c].left = {} /\ End(c, "ok") /\ dirty' = FALSE
      /\ UNCHANGED <<file, op, mem, clock>>
  BY DEF Rebuild, At
<1>2. mem[c].kept = Files
  BY <1>1 DEF MemInv
<1>3. PICK last \in [(SUBSET Files) \ {{}} -> Files] :
        /\ \A S \in (SUBSET Files) \ {{}} : last[S] \in S
        /\ index' = IndexOf(Files, LAMBDA S : last[S])
  BY <1>2 DEF Rebuild
<1> DEFINE same(k) == {i \in Files : file[i].key = k}
<1>4. \A k \in Keys : index'[k] = IF same(k) = {} THEN None ELSE last[same(k)]
  BY <1>3 DEF IndexOf
<1>5. \A k \in Keys : /\ same(k) = {} => index'[k] = None
                      /\ same(k) # {} => index'[k] \in same(k)
  BY <1>3, <1>4
<1>6. index' \in [Keys -> Calls \cup {None}]
  <2>1. DOMAIN index' = Keys /\ index' = [k \in Keys |-> index'[k]]
    BY <1>3 DEF IndexOf
  <2> QED BY <1>5, <2>1 DEF Files
<1>7. RebuiltIndex'
  <2>1. \A k \in Keys : index'[k] # None => index'[k] \in same(k)
    BY <1>5
  <2>2. \A i \in Files : file[i].key \in Keys /\ i \in same(file[i].key)
    BY DEF TypeOK, Files, Entry
  <2>3. \A i \in Files : index'[file[i].key] \in same(file[i].key)
    BY <1>5, <2>2
  <2> QED BY <1>1, <1>6, <2>1, <2>3 DEF RebuiltIndex, Files
<1> QED BY <1>1, <1>7, RebuiltKeeps

\* reconcileIndex() rebuilds it with the latest entry of each key.
LEMMA ReconcileKeeps ==
  ASSUME FileStoreInv, NEW c \in Calls, Reconcile(c)
  PROVE  FileStoreInv'
<1> USE DEF FileStoreInv
<1>1. /\ pc[c] = "first" /\ Inside(c) /\ op[c].kind = "reconcile"
      /\ End(c, "ok") /\ dirty' = FALSE /\ UNCHANGED <<file, op, mem, clock>>
      /\ index' = IndexOf(Files, Latest)
  BY DEF Reconcile, At
<1> DEFINE same(k) == {i \in Files : file[i].key = k}
<1>2. \A k \in Keys : index'[k] = IF same(k) = {} THEN None ELSE Latest(same(k))
  BY <1>1 DEF IndexOf
<1>3. \A k \in Keys : same(k) # {} => Latest(same(k)) \in same(k)
  <2>1. ASSUME NEW k \in Keys, same(k) # {} PROVE Latest(same(k)) \in same(k)
    <3>1. same(k) \in SUBSET Files
      OBVIOUS
    <3> HIDE DEF same
    <3> QED BY <2>1, <3>1, LatestLemma
  <2> QED BY <2>1
<1>4. index' \in [Keys -> Calls \cup {None}]
  <2>1. DOMAIN index' = Keys /\ index' = [k \in Keys |-> index'[k]]
    BY <1>1 DEF IndexOf
  <2>2. \A k \in Keys : index'[k] \in Calls \cup {None}
    BY <1>2, <1>3 DEF Files
  <2> QED BY <2>1, <2>2
<1>5. RebuiltIndex'
  <2>1. \A k \in Keys : index'[k] # None => index'[k] \in same(k)
    BY <1>2, <1>3
  <2>2. \A i \in Files : file[i].key \in Keys /\ i \in same(file[i].key)
    BY DEF TypeOK, Files, Entry
  <2>3. \A i \in Files : index'[file[i].key] \in same(file[i].key)
    BY <1>2, <1>3, <2>2
  <2> QED BY <1>1, <1>4, <2>1, <2>3 DEF RebuiltIndex, Files
<1> QED BY <1>1, <1>5, RebuiltKeeps

\* A disk operation fails: if the call was halfway the index is not answered for.
LEMMA FailKeeps ==
  ASSUME FileStoreInv, NEW c \in Calls, Fail(c)
  PROVE  FileStoreInv'
<1> USE DEF FileStoreInv
<1>1. /\ Inside(c) /\ End(c, "failed") /\ dirty' = (dirty \/ Halfway(c))
      /\ UNCHANGED <<file, index, op, mem, clock>>
  BY DEF Fail, disk
<1>2. /\ line' \in Seq(Calls) /\ pc' \in [Calls -> Steps] /\ LineInv' /\ OpInv' /\ MemInv'
      /\ Writes' = Writes /\ \A i \in Calls : Sole(i)' <=> Sole(i)
      /\ ~Sweeping' /\ \A i \in Calls : ~Deleting(i)' /\ ~Adding(i)'
      /\ pc'[c] = "failed"
      /\ \A d \in Calls \ {c} : pc'[d] = pc[d] /\ pc[d] \notin {"index", "replace", "sweep"}
      /\ \A d \in Calls : pc'[d] \notin {"index", "replace", "sweep"}
  BY <1>1, EndKeeps DEF TypeOK
<1>3. TypeOK' /\ Files' = Files
  BY <1>1, <1>2 DEF TypeOK, Files, Halfway
<1>4. FileInv'
  <2>1. \A i \in Files : i \in Writes /\ pc'[i] # "first"
    BY <1>2 DEF FileInv, Files
  <2> QED BY <1>1, <1>2, <1>3, <2>1 DEF FileInv
<1>5. Halfway(c) => IndexInv' /\ KeyInv'
  BY <1>1 DEF IndexInv, KeyInv
<1>6. ~Halfway(c) => ~Sweeping /\ \A i \in Calls : ~Deleting(i) /\ (i \in Writes => ~Adding(i))
  BY <1>2 DEF Sweeping, Deleting, Adding, Halfway, OpInv, Writes
<1>7. ~Halfway(c) => IndexInv' /\ KeyInv'
  BY <1>1, <1>2, <1>3, <1>6 DEF IndexInv, KeyInv, TypeOK, Files, FileInv
<1>8. UpdateInv'
  BY <1>1, <1>2, <1>3 DEF UpdateInv, OpInv, Writes
<1> QED BY <1>2, <1>3, <1>4, <1>5, <1>7, <1>8

\* The process dies: the disk stays, and so does what it promised.
LEMMA CrashKeeps ==
  ASSUME FileStoreInv, Crash
  PROVE  FileStoreInv'
<1> USE DEF FileStoreInv
<1>1. /\ dirty' = (dirty \/ \E c \in ToSet(line) : Halfway(c))
      /\ pc' = [c \in Calls |-> IF c \in ToSet(line) THEN "dead" ELSE pc[c]]
      /\ line' = <<>> /\ UNCHANGED <<file, index, op, mem, clock>>
  BY DEF Crash, disk
<1>2. <<>> \in Seq(Calls) /\ ToSet(<<>>) = {} /\ IsInjective(<<>>)
  BY NoneLemma
<1>3. \A c \in Calls : /\ pc[c] \in Active => pc'[c] = "dead"
                       /\ pc[c] \notin Active => pc'[c] = pc[c]
                       /\ pc'[c] \notin Active
  BY <1>1 DEF LineInv, Active
<1>4. TypeOK' /\ Files' = Files /\ Writes' = Writes
  BY <1>1, <1>2, <1>3 DEF TypeOK, Steps, Files, Writes
<1>5. LineInv' /\ OpInv' /\ MemInv'
  <2>1. LineInv' /\ MemInv'
    BY <1>1, <1>2, <1>3 DEF LineInv, MemInv, Active
  <2>2. OpInv'
    BY <1>1, <1>3, <1>4 DEF OpInv, Active
  <2> QED BY <2>1, <2>2
<1>6. FileInv'
  <2>1. \A i \in Files : i \in Writes /\ pc'[i] # "first"
    BY <1>3 DEF FileInv, Files, Active
  <2> QED BY <1>1, <1>3, <1>4, <2>1 DEF FileInv, Active
<1>7. (\E c \in ToSet(line) : Halfway(c)) => IndexInv' /\ KeyInv'
  BY <1>1 DEF IndexInv, KeyInv
<1>8. ASSUME ~\E c \in ToSet(line) : Halfway(c) PROVE IndexInv' /\ KeyInv'
  <2>1. \A c \in Calls : pc[c] \in Active => c \in ToSet(line)
    BY DEF LineInv
  <2>2. \A c \in Calls : pc[c] \in Active => ~Halfway(c)
    BY <2>1, <1>8
  <2>3. ~Sweeping /\ \A i \in Calls : ~Deleting(i) /\ (i \in Writes => ~Adding(i))
    BY <2>2 DEF Sweeping, Deleting, Adding, Halfway, OpInv, Writes, Active
  <2>4. \A i \in Files : i \in Writes /\ file[i].key \in Keys
    BY DEF FileInv, TypeOK, Files, Entry
  <2>5. \A i \in Calls : Sole(i)' <=> Sole(i)
    BY <1>1, <1>4 DEF Sole
  <2>6. IndexInv'
    BY <1>1, <1>4, <2>3 DEF IndexInv, TypeOK
  <2>7. KeyInv'
    BY <1>1, <1>4, <2>3, <2>4, <2>5 DEF KeyInv, Files
  <2> QED BY <2>6, <2>7
<1>9. UpdateInv'
  <2>1. \A c \in Calls : pc'[c] = "ok" => pc[c] = "ok"
    BY <1>3 DEF Active
  <2>2. \A c \in Calls : pc'[c] # "first"
    BY <1>3 DEF Active
  <2> QED BY <1>1, <1>4, <2>1, <2>2 DEF UpdateInv, OpInv, Writes
<1> QED BY <1>4, <1>5, <1>6, <1>7, <1>8, <1>9

-----------------------------------------------------------------------------
\* Every step of the store keeps the invariant.
LEMMA FileStoreStep == FileStoreInv /\ [Next]_vars => FileStoreInv'
<1> SUFFICES ASSUME FileStoreInv, [Next]_vars PROVE FileStoreInv'
  OBVIOUS
<1>1. CASE Crash
  BY <1>1, CrashKeeps
<1>2. ASSUME NEW c \in Calls, Start(c) PROVE FileStoreInv'
  BY <1>2, StartKeeps
<1>3. ASSUME NEW c \in Calls, Work(c) PROVE FileStoreInv'
  BY <1>3, WriteEntryKeeps, ReadIndexKeeps, AddKeyKeeps, ReadEntryKeeps,
     ReplaceEntryKeeps, UnlinkKeeps, DropKeyKeeps, ChooseKeeps, SweepKeeps,
     RebuildKeeps, ReconcileKeeps, FailKeeps DEF Work
<1>4. CASE UNCHANGED vars
  BY <1>4 DEF vars, disk, FileStoreInv, TypeOK, LineInv, Inside, OpInv, Writes, FileInv,
     Files, MemInv, Sweeping, Deleting, Adding, Sole, IndexInv, KeyInv, UpdateInv
<1> QED BY <1>1, <1>2, <1>3, <1>4 DEF Next

\* The invariant holds in every reachable state of the store and its disk.
THEOREM FileStoreInvariance == Spec => []FileStoreInv
<1>1. Init => FileStoreInv
  BY FileStoreInit
<1>2. FileStoreInv /\ [Next]_vars => FileStoreInv'
  BY FileStoreStep
<1> QED BY <1>1, <1>2, PTL DEF Spec

\* The state is well typed, and between calls, unless one broke off halfway since
\* the last rebuild, each key of the index leads to an entry with that key.
THEOREM FileStoreIndexTrue == Spec => []IndexTrue
<1>1. FileStoreInv => IndexTrue
  <2> SUFFICES ASSUME FileStoreInv, Quiet, ~dirty, NEW k \in Keys, index[k] # None
               PROVE  index[k] \in Files /\ file[index[k]].key = k
    BY DEF IndexTrue, FileStoreInv
  <2>1. \A c \in Calls : pc[c] \notin Active
    BY NoneLemma DEF Quiet, FileStoreInv, LineInv
  <2>2. ~Sweeping /\ ~Deleting(index[k])
    BY <2>1 DEF Sweeping, Deleting, Active
  <2> QED BY <2>2 DEF FileStoreInv, IndexInv
<1> QED BY <1>1, FileStoreInvariance, PTL

\* And an entry on disk is found by its key, if its key was written only once.
THEOREM FileStoreKeyKnown == Spec => []KeyKnown
<1>1. FileStoreInv => KeyKnown
  <2> SUFFICES ASSUME FileStoreInv, Quiet, ~dirty, NEW i \in Files,
                      Cardinality(Written(file[i].key)) = 1
               PROVE  index[file[i].key] = i
    BY DEF KeyKnown
  <2>1. \A c \in Calls : pc[c] \notin Active
    BY NoneLemma DEF Quiet, FileStoreInv, LineInv
  <2>2. ~Sweeping /\ ~Adding(i)
    BY <2>1 DEF Sweeping, Adding, Active, Files
  <2>3. i \in Writes /\ file[i].key = op[i].key
    BY DEF FileStoreInv, FileInv
  <2>4. Sole(i)
    <3>1. IsFiniteSet(Written(file[i].key))
      BY FS_Subset, FileStoreAssumption DEF Written
    <3>2. PICK w : Written(file[i].key) = {w}
      BY <3>1, FS_Singleton
    <3> QED BY <3>2, <2>3 DEF Sole, Writes, Written
  <2> QED BY <2>2, <2>4 DEF FileStoreInv, KeyInv
<1> QED BY <1>1, FileStoreInvariance, PTL

\* No successful update() is lost while its entry exists, whatever other calls,
\* failures and crashes come between its read and its write.
THEOREM FileStoreNoLostUpdate == Spec => []NoLostUpdate
<1>1. FileStoreInv => NoLostUpdate
  BY DEF FileStoreInv, UpdateInv, NoLostUpdate
<1> QED BY <1>1, FileStoreInvariance, PTL
=============================================================================
