------------------------------ MODULE Sessions ------------------------------
(***************************************************************************)
(* session/manager.ts with session-lru.ts, session-event-bus.ts and        *)
(* session-gc.ts. Every call is synchronous, but an event calls handlers in*)
(* the middle of it, and a handler may call the manager again: `stack` is  *)
(* what the calls in progress still have to do, the innermost first.       *)
(***************************************************************************)
EXTENDS Naturals, Sequences, FiniteSets, SequencesExt, FiniteSetsExt

CONSTANTS N,            \* bound: sessions ever created; ids are drawn in order
          Holders,      \* lock() calls whose unlock closure is kept
          NoSession,    \* no session
          MaxSessions,  \* maxSessions
          MaxPending,   \* MAX_PENDING_EVENTS
          Nested        \* bound: calls a handler makes while it handles one event

ASSUME SessionsAssumption == /\ N \in Nat /\ MaxPending \in Nat /\ Nested \in Nat
                             /\ MaxSessions \in Nat \ {0}
                             /\ NoSession \notin 1..N

Ids == 1..N

VARIABLES status,       \* of each session; "new" and "gone" are not in `sessions`
          old,          \* sessions last accessed more than ttlMs ago
          order,        \* `unlockedOrder`, the least recently used first
          locked,       \* `lockedIds`
          holds,        \* the session each unlock closure was made for
          listening,    \* a handler is registered
          emitting,     \* `emitting`
          pending,      \* `pendingEvents`
          stack,        \* what is left to do, the innermost call first
          touched       \* sessions a handler called back on while they were evicted

core == <<status, old, order, locked, holds>>
bus == <<listening, emitting, pending>>
sessionVars == <<core, bus, stack, touched>>

Low == {"accessed", "locked", "unlocked"}
High == {"created", "destroyed", "expired", "evicted"}
Events == [type : Low \cup High, id : Ids]

InMap == {s \in Ids : status[s] \in {"active", "locked", "expired"}}
IsExpired(s) == status[s] = "expired" \/ (status[s] = "active" /\ s \in old)

\* What a call in progress may still have to do.
Frames == [do : {"emit"}, event : Events] \cup [do : {"evict"}, size : Nat]
          \cup [do : {"delete"}, id : Ids] \cup [do : {"gc"}, at : 0..N]
          \cup [do : {"handle"}, event : Events, left : Nat] \cup [do : {"drain"}]

SessionTypes ==
  /\ status \in [Ids -> {"new", "active", "locked", "expired", "gone"}]
  /\ old \subseteq Ids
  /\ order \in Seq(Ids) /\ locked \subseteq Ids
  /\ holds \in [Holders -> Ids \cup {NoSession}]
  /\ listening \in BOOLEAN /\ emitting \in BOOLEAN
  /\ pending \in Seq(Events)
  /\ stack \in Seq(Frames)
  /\ touched \subseteq Ids

SessionInit ==
  /\ status = [s \in Ids |-> "new"]
  /\ old = {}
  /\ order = <<>>
  /\ locked = {}
  /\ holds = [h \in Holders |-> NoSession]
  /\ listening = TRUE
  /\ emitting = FALSE
  /\ pending = <<>>
  /\ stack = <<>>
  /\ touched = {}

Emit(t, s) == [do |-> "emit", event |-> [type |-> t, id |-> s]]
Without(s) == RemoveFirst(order, s)
Newest(s) == Append(Without(s), s)

-----------------------------------------------------------------------------
Rest == Tail(stack)
NextIs(do) == stack # <<>> /\ Head(stack).do = do

\* A call comes from outside, or from a handler that has calls left.
InHandler == stack # <<>> /\ Head(stack).do = "handle" /\ Head(stack).left > 0
CanCall == stack = <<>> \/ InHandler

\* The handler makes a call: its steps come before the rest of the handler.
Push(steps) ==
  stack' = IF stack = <<>> THEN steps
           ELSE steps \o <<[Head(stack) EXCEPT !.left = @ - 1]>> \o Tail(stack)

\* The sessions between their `evicted` event and their removal.
Deletes(q) == {q[i].id : i \in {j \in DOMAIN q : q[j].do = "delete"}}
Evicting == Deletes(stack)
\* Nothing is kept of sessions that left: their closures do nothing but throw.
Forget(S) == /\ old' = old \ S
             /\ holds' = [h \in Holders |-> IF holds[h] \in S THEN NoSession ELSE holds[h]]

Touch(s) == touched' = touched \cup ({s} \cap Evicting)

Threshold == Max({1, MaxSessions \div 20})

\* Mutant: the size handed to evictExcess() does not count the new session.
CreateCountedEarly(s) ==
  LET size == Cardinality(InMap) IN
  /\ CanCall
  /\ s \in Ids /\ s = Cardinality({x \in Ids : status[x] # "new"}) + 1
  /\ ~(Cardinality(InMap) >= MaxSessions /\ order = <<>>)
  /\ status' = [status EXCEPT ![s] = "active"]
  /\ order' = Append(order, s)
  /\ Push((IF size > MaxSessions + Threshold
             THEN <<[do |-> "evict", size |-> size]>> ELSE <<>>)
          \o <<Emit("created", s)>>)
  /\ UNCHANGED <<old, locked, holds, bus, touched>>

\* create(): refused when the cap is reached and every session is locked; past
\* the threshold it evicts before it tells of the new session.
Create(s) ==
  LET size == Cardinality(InMap) + 1 IN
  /\ CanCall
  /\ s \in Ids /\ s = Cardinality({x \in Ids : status[x] # "new"}) + 1
  /\ ~(Cardinality(InMap) >= MaxSessions /\ order = <<>>)
  /\ status' = [status EXCEPT ![s] = "active"]
  /\ order' = Append(order, s)
  /\ Push((IF size > MaxSessions + Threshold
             THEN <<[do |-> "evict", size |-> size]>> ELSE <<>>)
          \o <<Emit("created", s)>>)
  /\ UNCHANGED <<old, locked, holds, bus, touched>>

\* get() of a session that has expired since.
Get(s) == /\ CanCall
          /\ status[s] = "active" /\ s \in old
          /\ status' = [status EXCEPT ![s] = "expired"]
          /\ Push(<<Emit("expired", s)>>)
          /\ UNCHANGED <<old, order, locked, holds, bus, touched>>

\* access(): an expired session throws and emits nothing, a live one is renewed.
Access(s) ==
  /\ CanCall
  /\ \/ /\ status[s] = "active" /\ s \in old
        /\ status' = [status EXCEPT ![s] = "expired"]
        /\ Push(<<>>)
        /\ UNCHANGED <<old, order, touched>>
     \/ /\ status[s] = "active" /\ s \notin old
        /\ order' = IF s \in locked THEN order ELSE Newest(s)
        /\ Push(<<Emit("accessed", s)>>)
        /\ Touch(s)
        /\ UNCHANGED <<status, old>>
  /\ UNCHANGED <<locked, holds, bus>>

\* Mutant: the locked session stays in the eviction order.
LockInOrder(h, s) ==
  /\ CanCall
  /\ s \in InMap /\ ~IsExpired(s)
  /\ holds[h] = NoSession
  /\ status' = [status EXCEPT ![s] = "locked"]
  /\ locked' = locked \cup {s}
  /\ holds' = [holds EXCEPT ![h] = s]
  /\ Push(<<Emit("locked", s)>>)
  /\ Touch(s)
  /\ UNCHANGED <<old, order, bus>>

\* lock(): it does not ask whether the session is locked already.
Lock(h, s) ==
  /\ CanCall
  /\ s \in InMap /\ ~IsExpired(s)
  /\ holds[h] = NoSession
  /\ status' = [status EXCEPT ![s] = "locked"]
  /\ order' = Without(s)
  /\ locked' = locked \cup {s}
  /\ holds' = [holds EXCEPT ![h] = s]
  /\ Push(<<Emit("locked", s)>>)
  /\ Touch(s)
  /\ UNCHANGED <<old, bus>>

\* lock() of an expired session throws, and tells of it every time.
LockExpired(s) ==
  /\ CanCall
  /\ IsExpired(s)
  /\ status' = [status EXCEPT ![s] = "expired"]
  /\ Push(<<Emit("expired", s)>>)
  /\ UNCHANGED <<old, order, locked, holds, bus, touched>>

\* An unlock closure, called once or again, by the last holder or a former one:
\* it does something whenever the session is locked.
Unlock(h) ==
  LET s == holds[h] IN
  /\ CanCall
  /\ s # NoSession /\ status[s] = "locked"
  /\ status' = [status EXCEPT ![s] = "active"]
  /\ old' = old \ {s}
  /\ order' = Newest(s)
  /\ locked' = locked \ {s}
  /\ Push(<<Emit("unlocked", s)>>)
  /\ Touch(s)
  /\ UNCHANGED <<holds, bus>>

\* Mutant: destroy() leaves the session in the eviction order.
DestroyInOrder(s) ==
  /\ CanCall
  /\ status[s] # "new"
  /\ status' = [status EXCEPT ![s] = "gone"]
  /\ locked' = locked \ {s}
  /\ Push(<<Emit("destroyed", s)>>)
  /\ Forget({s})
  /\ UNCHANGED <<order, bus, touched>>

\* destroy(): of any session, locked ones and former ones too.
Destroy(s) ==
  /\ CanCall
  /\ status[s] # "new"
  /\ status' = [status EXCEPT ![s] = "gone"]
  /\ order' = Without(s)
  /\ locked' = locked \ {s}
  /\ Push(<<Emit("destroyed", s)>>)
  /\ Forget({s})
  /\ UNCHANGED <<bus, touched>>

\* list() marks every session that has expired, then tells of each, in the order of
\* the map.
List == LET newly == {s \in Ids : status[s] = "active" /\ s \in old}
            n == Cardinality(newly) IN
        /\ CanCall /\ newly # {}
        /\ status' = [s \in Ids |-> IF s \in newly THEN "expired" ELSE status[s]]
        /\ \E seq \in [1..n -> newly] :
             /\ \A i, j \in 1..n : i < j => seq[i] < seq[j]
             /\ Push([i \in 1..n |-> Emit("expired", seq[i])])
        /\ UNCHANGED <<old, order, locked, holds, bus, touched>>

\* The GC timer, or gc() called by hand.
GC == /\ CanCall
      /\ Push(<<[do |-> "gc", at |-> 0]>>)
      /\ \E s \in Ids : IsExpired(s)
      /\ UNCHANGED <<core, bus, touched>>

\* dispose(): sessions, order, handlers and pending events go, the timer stops.
Dispose == /\ CanCall /\ listening
           /\ status' = [s \in Ids |-> IF s \in InMap THEN "gone" ELSE status[s]]
           /\ order' = <<>>
           /\ locked' = {}
           /\ listening' = FALSE
           /\ pending' = <<>>
           /\ Push(<<>>)
           /\ Forget(Ids)
           /\ UNCHANGED <<emitting, touched>>

\* Time passes: ttlMs since the last access. Only what a call or gc() does next reads
\* the clock, and only for active sessions (a locked one is renewed by its unlock), so
\* that it need not pass elsewhere.
Age(s) == /\ CanCall \/ NextIs("gc")
          /\ status[s] = "active" /\ s \notin old
          /\ old' = old \cup {s}
          /\ UNCHANGED <<status, order, locked, holds, bus, stack, touched>>

-----------------------------------------------------------------------------
\* evictExcess(): the oldest unlocked session, while the count it was given is
\* above the cap; the session is told of before it leaves the map.
Evict ==
  LET n == Head(stack).size IN
  /\ NextIs("evict")
  /\ \/ /\ n > MaxSessions /\ order # <<>>
        /\ order' = Tail(order)
        /\ LET more == [do |-> "evict", size |-> n - 1]
           IN stack' = (IF Head(order) \in InMap
                          THEN <<Emit("evicted", Head(order)),
                                 [do |-> "delete", id |-> Head(order)],
                                 Emit("destroyed", Head(order)), more>>
                          ELSE <<more>>) \o Rest
     \/ /\ n <= MaxSessions \/ order = <<>>
        /\ stack' = Rest
        /\ order' = order
  /\ UNCHANGED <<status, old, locked, holds, bus, touched>>

Delete == /\ NextIs("delete")
          /\ status' = [status EXCEPT ![Head(stack).id] = "gone"]
          /\ stack' = Rest
          /\ Forget({Head(stack).id})
          /\ UNCHANGED <<order, locked, bus, touched>>

\* gc() walks the live map: the next session that is expired by now leaves.
Collect ==
  LET dead == {s \in Ids : s > Head(stack).at /\ IsExpired(s)}
      s == Min(dead) IN
  /\ NextIs("gc")
  /\ \/ /\ dead # {}
        /\ status' = [status EXCEPT ![s] = "gone"]
        /\ order' = Without(s)
        /\ locked' = locked \ {s}
        /\ Forget({s})
        /\ stack' = <<Emit("destroyed", s), [do |-> "gc", at |-> s]>> \o Rest
     \/ dead = {} /\ stack' = Rest /\ UNCHANGED core
  /\ UNCHANGED <<bus, touched>>

\* The event bus while it is emitting: it queues, and a full queue gives up its
\* oldest low event for a high one, or the new event.
Queued(e) ==
  LET lows == {i \in DOMAIN pending : pending[i].type \in Low} IN
  IF Len(pending) < MaxPending THEN Append(pending, e)
  ELSE IF e.type \in High /\ lows # {}
       THEN Append(RemoveAt(pending, Min(lows)), e)
       ELSE pending

Handle(e) == [do |-> "handle", event |-> e, left |-> Nested]

EmitStep ==
  LET e == Head(stack).event IN
  /\ NextIs("emit")
  /\ \/ /\ emitting
        /\ pending' = Queued(e)
        /\ stack' = Rest
        /\ emitting' = emitting
     \/ /\ ~emitting
        /\ emitting' = TRUE
        /\ LET drain == [do |-> "drain"]
           IN stack' = (IF listening THEN <<Handle(e), drain>> ELSE <<drain>>) \o Rest
        /\ pending' = pending
  /\ UNCHANGED <<core, listening, touched>>

\* The handler returns.
Handled == /\ NextIs("handle")
           /\ stack' = Rest
           /\ UNCHANGED <<core, bus, touched>>

\* The bus delivers what was queued, oldest first, and then stops emitting.
Drain ==
  /\ NextIs("drain")
  /\ \/ /\ pending # <<>>
        /\ pending' = Tail(pending)
        /\ stack' = IF listening THEN <<Handle(Head(pending)), Head(stack)>> \o Rest
                                 ELSE stack
        /\ emitting' = emitting
     \/ pending = <<>> /\ emitting' = FALSE /\ stack' = Rest /\ pending' = pending
  /\ UNCHANGED <<core, listening, touched>>

Step == Evict \/ Delete \/ Collect \/ EmitStep \/ Handled \/ Drain

SessionCalls ==
  \/ \E s \in Ids : \/ Create(s) \/ Get(s) \/ Access(s) \/ LockExpired(s) \/ Destroy(s)
                    \/ \E h \in Holders : Lock(h, s)
  \/ \E h \in Holders : Unlock(h)
  \/ List \/ GC \/ Dispose

SessionNext == SessionCalls \/ Step \/ \E s \in Ids : Age(s)

SessionSpec == SessionInit /\ [][SessionNext]_sessionVars

-----------------------------------------------------------------------------
Idle == stack = <<>>

\* A locked session is never evicted nor collected: it leaves by destroy() or
\* dispose(), unless a handler locked it in the middle of its own eviction.
LockedStays ==
  [][\A s \in Ids \ touched : status[s] = "locked" /\ status'[s] = "gone"
                                => Destroy(s) \/ Dispose]_sessionVars

\* Between calls the two structures of the LRU and the map agree, up to sessions
\* a handler called back on while they were evicted: a locked session is in the
\* one, any other in the other, once, and nothing that left is in either.
LruAgrees ==
  /\ SessionTypes
  /\ Idle => /\ \A s \in Ids \ touched : /\ s \in locked <=> status[s] = "locked"
                                         /\ s \in ToSet(order)
                                              <=> status[s] \in {"active", "expired"}
             /\ IsInjective(order)
             /\ locked \cap ToSet(order) = {}

\* Between calls the manager holds at most maxSessions and the threshold, with
\* creations in handlers, evictions that over-count and sessions that are locked;
\* but a session a handler called back on while it was evicted is left behind in
\* the order, and an eviction that meets it there lets a live one stay.
SizeBound == Idle => Cardinality(InMap) <= MaxSessions + Threshold + Cardinality(touched)

=============================================================================
