----------------------------- MODULE AgentPool -----------------------------
(***************************************************************************)
(* orchestration/agent-pool.ts with its pending queue                      *)
(* (pool-pending-acquire.ts). Agents are numbered in the order of their    *)
(* creation, which is the order of the `entries` map, so those past maxAge *)
(* are 1..old. acquire, acquireAsync, release and resize each run without  *)
(* a suspension; dispose() is suspended after each entry it tears down.    *)
(***************************************************************************)
EXTENDS Naturals, Sequences, FiniteSets, FiniteSetsExt, SequencesExt

CONSTANTS Calls,        \* the acquire() and acquireAsync() calls
          MaxCreated,   \* bound on the agents ever created
          MinSize, MaxSize, MaxPending,
          Ageing,       \* TRUE: maxAge is configured
          Targets       \* what resize() is called with

ASSUME PoolAssumption == /\ {MaxCreated, MinSize, MaxSize, MaxPending} \subseteq Nat
                         /\ Targets \subseteq Nat
                         /\ Ageing \in BOOLEAN

PooledAgents == 1..MaxCreated

\* warmUp does not look at max: with a min above it the pool may grow to min.
Most == Max({MinSize, MaxSize})

VARIABLES entries,       \* each agent: not created, in the map and its state, deleted
          timers,        \* agents whose idle timer is armed
          warmedUp, recycled, pendingQueue,
          poolDisposed,  \* the latch of dispose()
          doomed,        \* the agents dispose() has still to tear down
          old,           \* agents 1..old are past maxAge
          call, held,    \* each call: how it stands, the agent it was given
          disposals,     \* history: how often each loop was disposed
          stale          \* history: agents a former holder has released again

clock == <<old>>
teardown == <<poolDisposed, doomed>>
callers == <<call, held>>
poolVars == <<entries, timers, warmedUp, recycled, pendingQueue, teardown, clock, callers,
              disposals, stale>>

PoolTypes ==
  /\ entries \in [PooledAgents -> {"unborn", "idle", "active", "gone"}]
  /\ timers \in SUBSET PooledAgents
  /\ recycled \in Nat
  /\ pendingQueue \in Seq(Calls)
  /\ {warmedUp, poolDisposed} \subseteq BOOLEAN
  /\ doomed \in SUBSET PooledAgents
  /\ old \in 0..MaxCreated
  /\ call \in [Calls -> {"new", "waiting", "holding", "returned", "rejected"}]
  /\ held \in [Calls -> 0..MaxCreated]
  /\ disposals \in [PooledAgents -> Nat]
  /\ stale \in SUBSET PooledAgents

PoolInit ==
  /\ entries = [a \in PooledAgents |-> "unborn"]
  /\ timers = {} /\ warmedUp = FALSE /\ recycled = 0 /\ pendingQueue = <<>>
  /\ poolDisposed = FALSE /\ doomed = {} /\ old = 0
  /\ call = [c \in Calls |-> "new"]
  /\ held = [c \in Calls |-> 0]
  /\ disposals = [a \in PooledAgents |-> 0]
  /\ stale = {}

-----------------------------------------------------------------------------
Created(e) == {a \in PooledAgents : e[a] # "unborn"}
Live(e) == {a \in PooledAgents : e[a] \in {"idle", "active"}}
Idle(e) == {a \in PooledAgents : e[a] = "idle"}
Expired == {a \in PooledAgents : Ageing /\ a <= old}

Put(e, S, state) == [a \in PooledAgents |-> IF a \in S THEN state ELSE e[a]]

\* The agents createEntry makes to bring the map from its size to n.
Born(e, n) == {a \in PooledAgents \ Created(e) :
                 Cardinality(Live(e)) + a - Cardinality(Created(e)) <= n}

\* The bound on created agents leaves room for what an operation creates.
RoomFor(e, n) == Cardinality(Created(e)) + n <= MaxCreated

\* warmUp: the first acquire creates idle agents up to min.
Warm == IF warmedUp THEN {} ELSE Born(entries, MinSize)
Warmed == Put(entries, Warm, "idle")

\* disposeEntrySync, and totalRecycled++, of each agent in S.
Recycle(S) == /\ recycled' = recycled + Cardinality(S)
              /\ disposals' = [a \in PooledAgents |->
                                 IF a \in S THEN disposals[a] + 1 ELSE disposals[a]]

Hand(c, a) == /\ call' = [call EXCEPT ![c] = "holding"]
              /\ held' = [held EXCEPT ![c] = a]

Reject(c) == call' = [call EXCEPT ![c] = "rejected"] /\ UNCHANGED held

\* What acquireSync finds once it is warm: the scan, from the oldest agent, throws
\* away the expired ones among the idle. All of these come before the others.
Stale == Idle(Warmed) \cap Expired
Fresh == Idle(Warmed) \ Expired
Scanned == Put(Warmed, Stale, "gone")

Acquiring(c) == /\ call[c] = "new" /\ ~poolDisposed
                /\ RoomFor(entries, MinSize + 1)
                /\ warmedUp' = TRUE

AcquireIdle(c) ==
  /\ Acquiring(c)
  /\ Fresh # {}
  /\ LET a == Min(Fresh)
     IN /\ entries' = Put(Scanned, {a}, "active")
        /\ timers' = (timers \cup Warm) \ (Stale \cup {a})
        /\ Hand(c, a)
  /\ Recycle(Stale)
  /\ UNCHANGED <<pendingQueue, teardown, clock>>

\* Mutant: the size is compared with max after the new agent is counted in.
AcquireNewOver(c) ==
  /\ Acquiring(c)
  /\ Fresh = {}
  /\ Cardinality(Live(Scanned)) <= MaxSize
  /\ LET a == Cardinality(Created(Scanned)) + 1
     IN entries' = Put(Scanned, {a}, "active") /\ Hand(c, a)
  /\ timers' = (timers \cup Warm) \ Stale
  /\ Recycle(Stale)
  /\ UNCHANGED <<pendingQueue, teardown, clock>>

AcquireNew(c) ==
  /\ Acquiring(c)
  /\ Fresh = {}
  /\ Cardinality(Live(Scanned)) < MaxSize
  /\ LET a == Cardinality(Created(Scanned)) + 1
     IN entries' = Put(Scanned, {a}, "active") /\ Hand(c, a)
  /\ timers' = (timers \cup Warm) \ Stale
  /\ Recycle(Stale)
  /\ UNCHANGED <<pendingQueue, teardown, clock>>

\* factory() throws in acquireSync, after the scan: the call fails.
CreateFails(c) ==
  /\ Acquiring(c)
  /\ Fresh = {}
  /\ Cardinality(Live(Scanned)) < MaxSize
  /\ entries' = Scanned
  /\ timers' = (timers \cup Warm) \ Stale
  /\ Recycle(Stale)
  /\ Reject(c)
  /\ UNCHANGED <<pendingQueue, teardown, clock>>

\* Or in warmUp, which does not run again: the agents made so far stay.
WarmUpFails(c) ==
  /\ Acquiring(c) /\ ~warmedUp
  /\ \E n \in Cardinality(Live(entries))..(MinSize - 1) :
       LET born == Born(entries, n)
       IN entries' = Put(entries, born, "idle") /\ timers' = timers \cup born
  /\ Reject(c)
  /\ UNCHANGED <<recycled, pendingQueue, teardown, clock, disposals>>

\* POOL_EXHAUSTED: acquire() throws, acquireAsync() queues the call or, with the
\* queue full, rejects it.
Exhausted(c) ==
  /\ Acquiring(c)
  /\ Fresh = {}
  /\ Cardinality(Live(Scanned)) >= MaxSize
  /\ entries' = Scanned
  /\ timers' = (timers \cup Warm) \ Stale
  /\ Recycle(Stale)
  /\ \/ Reject(c) /\ UNCHANGED pendingQueue
     \/ /\ Len(pendingQueue) < MaxPending
        /\ pendingQueue' = Append(pendingQueue, c)
        /\ call' = [call EXCEPT ![c] = "waiting"] /\ UNCHANGED held
  /\ UNCHANGED <<teardown, clock>>

\* acquireAsync with a signal that is aborted already: it has warmed the pool.
AcquireAborted(c) == /\ Acquiring(c)
                     /\ entries' = Warmed /\ timers' = timers \cup Warm
                     /\ Reject(c)
                     /\ UNCHANGED <<recycled, pendingQueue, teardown, clock, disposals>>

AcquireRefused(c) == /\ call[c] = "new" /\ poolDisposed
                     /\ Reject(c)
                     /\ UNCHANGED <<entries, timers, warmedUp, recycled, pendingQueue,
                                    teardown, clock, disposals>>

\* The timer or the abort signal of a queued call.
Cancel(c) == /\ c \in ToSet(pendingQueue)
             /\ pendingQueue' = RemoveFirst(pendingQueue, c)
             /\ Reject(c)
             /\ UNCHANGED <<entries, timers, warmedUp, recycled, teardown, clock, disposals>>

-----------------------------------------------------------------------------
\* fulfillPending on the map e: waiters get the idle agents, both in their order.
Spare(e) == Idle(e) \ Expired
Served(e) == Min({Len(pendingQueue), Cardinality(Spare(e))})
Handouts(e) == {give \in [1..Served(e) -> Spare(e)] :
                  \A i \in 1..Served(e) :
                    {b \in Spare(e) : b < give[i]} = {give[j] : j \in 1..(i - 1)}}

\* release() of an agent that is not active.
ReleaseNothing(c, a) == /\ entries[a] # "active"
                        /\ call' = [call EXCEPT ![c] = "returned"]
                        /\ UNCHANGED <<entries, timers, warmedUp, recycled, pendingQueue,
                                       teardown, clock, held, disposals>>

\* Of one that has expired: fulfillPending looks for other idle agents, the expired
\* ones among which it throws away when anybody waits.
ReleaseExpired(c, a) ==
  /\ entries[a] = "active" /\ a \in Expired
  /\ LET e == Put(entries, {a}, "gone")
         swept == IF pendingQueue = <<>> THEN {} ELSE Idle(e) \cap Expired
         n == Served(e)
         winners == {pendingQueue[i] : i \in 1..n}
     IN \E give \in Handouts(e) :
          LET granted == {give[i] : i \in 1..n}
          IN /\ entries' = Put(Put(e, swept, "gone"), granted, "active")
             /\ timers' = timers \ (swept \cup granted)
             /\ Recycle({a} \cup swept)
             /\ pendingQueue' = SubSeq(pendingQueue, n + 1, Len(pendingQueue))
             /\ call' = [d \in Calls |-> IF d = c THEN "returned"
                                         ELSE IF d \in winners THEN "holding" ELSE call[d]]
             /\ held' = [d \in Calls |-> IF d \in winners
                                         THEN give[CHOOSE i \in 1..n : pendingQueue[i] = d]
                                         ELSE held[d]]
  /\ UNCHANGED <<warmedUp, teardown, clock>>

\* Mutant: the idle timer is armed also when the agent goes to a waiter.
ReleaseToTimed(c, a) ==
  /\ entries[a] = "active" /\ a \notin Expired
  /\ pendingQueue # <<>>
  /\ pendingQueue' = Tail(pendingQueue)
  /\ call' = [call EXCEPT ![c] = "returned", ![Head(pendingQueue)] = "holding"]
  /\ held' = [held EXCEPT ![Head(pendingQueue)] = a]
  /\ timers' = timers \cup {a}
  /\ UNCHANGED <<entries, warmedUp, recycled, teardown, clock, disposals>>

\* Of one that a waiter takes over: it stays active.
ReleaseTo(c, a) ==
  /\ entries[a] = "active" /\ a \notin Expired
  /\ pendingQueue # <<>>
  /\ pendingQueue' = Tail(pendingQueue)
  /\ call' = [call EXCEPT ![c] = "returned", ![Head(pendingQueue)] = "holding"]
  /\ held' = [held EXCEPT ![Head(pendingQueue)] = a]
  /\ UNCHANGED <<entries, timers, warmedUp, recycled, teardown, clock, disposals>>

ReleaseIdle(c, a) ==
  /\ entries[a] = "active" /\ a \notin Expired
  /\ pendingQueue = <<>>
  /\ entries' = Put(entries, {a}, "idle")
  /\ timers' = IF poolDisposed THEN timers ELSE timers \cup {a}
  /\ call' = [call EXCEPT ![c] = "returned"]
  /\ UNCHANGED <<warmedUp, recycled, pendingQueue, teardown, clock, held, disposals>>

\* release() of the agent a caller was given, by the holder or once more after it
\* has returned it: the pool does not know who calls.
Release(c) == /\ call[c] \in {"holding", "returned"}
              /\ stale' = IF call[c] = "returned" /\ entries[held[c]] = "active"
                            THEN stale \cup {held[c]} ELSE stale
              /\ \/ ReleaseNothing(c, held[c]) \/ ReleaseExpired(c, held[c])
                 \/ ReleaseTo(c, held[c]) \/ ReleaseIdle(c, held[c])

\* An idle timer fires: whatever the pool's size, min included. None fires while
\* dispose() is at work: AgentLoop.dispose() is synchronous, so it awaits no timer.
IdleTimeout(a) == /\ a \in timers /\ ~poolDisposed
                  /\ entries[a] = "idle"
                  /\ entries' = Put(entries, {a}, "gone")
                  /\ timers' = timers \ {a}
                  /\ Recycle({a})
                  /\ UNCHANGED <<warmedUp, pendingQueue, teardown, clock, callers>>

\* Mutant: agents are trimmed whether idle or active.
TrimAny(target) ==
  /\ ~poolDisposed
  /\ Cardinality(Live(entries)) > target
  /\ LET excess == Cardinality(Live(entries)) - target
         trimmed == {a \in Live(entries) : Cardinality({b \in Live(entries) : b < a}) < excess}
     IN /\ entries' = Put(entries, trimmed, "gone")
        /\ timers' = timers \ trimmed
        /\ Recycle(trimmed)
  /\ UNCHANGED <<warmedUp, pendingQueue, teardown, clock, callers>>

\* resize() below the size: the oldest idle agents go, as many as are too many.
Trim(target) ==
  /\ ~poolDisposed
  /\ Cardinality(Live(entries)) > target
  /\ LET excess == Cardinality(Live(entries)) - target
         trimmed == {a \in Idle(entries) : Cardinality({b \in Idle(entries) : b < a}) < excess}
     IN /\ entries' = Put(entries, trimmed, "gone")
        /\ timers' = timers \ trimmed
        /\ Recycle(trimmed)
  /\ UNCHANGED <<warmedUp, pendingQueue, teardown, clock, callers>>

\* resize() above the size: idle agents up to the target and max, or fewer if factory()
\* throws; no waiter is served.
Grow(target) ==
  /\ ~poolDisposed
  /\ Cardinality(Live(entries)) < target
  /\ RoomFor(entries, MaxSize)
  /\ \E n \in Cardinality(Live(entries))..Min({target, MaxSize}) :
     LET born == Born(entries, n)
     IN entries' = Put(entries, born, "idle") /\ timers' = timers \cup born
  /\ UNCHANGED <<warmedUp, recycled, pendingQueue, teardown, clock, callers, disposals>>

\* disposeEntry of the oldest agent of S.
TearDown(S) == LET a == Min(S)
               IN /\ entries' = Put(entries, {a}, "gone")
                  /\ timers' = timers \ {a}
                  /\ disposals' = [disposals EXCEPT ![a] = @ + 1]
                  /\ doomed' = S \ {a}

\* Mutant: only the idle agents are torn down.
DisposeIdle ==
  /\ ~poolDisposed
  /\ poolDisposed' = TRUE
  /\ call' = [c \in Calls |-> IF call[c] = "waiting" THEN "rejected" ELSE call[c]]
  /\ pendingQueue' = <<>>
  /\ IF Idle(entries) = {} THEN UNCHANGED <<entries, timers, disposals, doomed>>
                          ELSE TearDown(Idle(entries))
  /\ UNCHANGED <<warmedUp, recycled, clock, held>>

\* dispose(), by the caller or at the end of drain(): the latch, the waiters, and
\* the first entry of the snapshot it takes of the map.
PoolDispose ==
  /\ ~poolDisposed
  /\ poolDisposed' = TRUE
  /\ call' = [c \in Calls |-> IF call[c] = "waiting" THEN "rejected" ELSE call[c]]
  /\ pendingQueue' = <<>>
  /\ IF Live(entries) = {} THEN UNCHANGED <<entries, timers, disposals, doomed>>
                          ELSE TearDown(Live(entries))
  /\ UNCHANGED <<warmedUp, recycled, clock, held>>

DisposeNext == /\ doomed # {}
               /\ TearDown(doomed)
               /\ UNCHANGED <<warmedUp, recycled, pendingQueue, poolDisposed, clock, callers>>

\* The oldest agent that is not past maxAge passes it.
Age == /\ Ageing /\ old < Cardinality(Created(entries))
       /\ old' = old + 1
       /\ UNCHANGED <<entries, timers, warmedUp, recycled, pendingQueue, teardown, callers,
                      disposals>>

Others == \/ \E c \in Calls : \/ AcquireIdle(c) \/ AcquireNew(c) \/ Exhausted(c)
                              \/ CreateFails(c) \/ WarmUpFails(c)
                              \/ AcquireAborted(c) \/ AcquireRefused(c) \/ Cancel(c)
          \/ \E a \in PooledAgents : IdleTimeout(a)
          \/ \E target \in Targets : Trim(target) \/ Grow(target)
          \/ PoolDispose \/ DisposeNext \/ Age

PoolNext == \/ \E c \in Calls : Release(c)
            \/ Others /\ UNCHANGED stale

PoolSpec == PoolInit /\ [][PoolNext]_poolVars

-----------------------------------------------------------------------------
Holding == {c \in Calls : call[c] = "holding"}

\* An agent is in one caller's hands at most, and until dispose() it stays active
\* and its loop alive there: no timer, trim, sweep or hand-off takes it away, but
\* for a former holder that releases it again while another holds it.
ExclusiveAgent ==
  /\ \A c, d \in Holding : held[c] = held[d] => c = d \/ held[c] \in stale
  /\ ~poolDisposed => \A c \in Holding :
                    held[c] \notin stale =>
                      entries[held[c]] = "active" /\ disposals[held[c]] = 0

\* The pool never holds more than max agents (min, if that is more), and each that has left was disposed
\* once and counted once: until dispose(), created = size + recycled.
PoolLedger ==
  /\ Cardinality(Live(entries)) <= Most
  /\ ~poolDisposed =>
       /\ Cardinality(Created(entries)) = Cardinality(Live(entries)) + recycled
       /\ \A a \in PooledAgents : disposals[a] = IF entries[a] = "gone" THEN 1 ELSE 0

\* The queue holds each waiting call once, within its bound; none waits on a
\* disposed pool.
PoolQueue == /\ ToSet(pendingQueue) = {c \in Calls : call[c] = "waiting"}
             /\ IsInjective(pendingQueue)
             /\ Len(pendingQueue) <= MaxPending
             /\ poolDisposed => pendingQueue = <<>>

\* Agents and waiters are all accounted for, and the state is well typed.
PoolBooks == PoolTypes /\ PoolLedger /\ PoolQueue

\* Idle agents and only they have a timer, until dispose().
IdleTimed == /\ timers \subseteq Idle(entries)
             /\ ~poolDisposed => Idle(entries) \subseteq timers

\* When dispose() is done no agent and no timer is left, nor ever comes back.
NothingLeft == poolDisposed /\ doomed = {} => Live(entries) = {} /\ timers = {}

=============================================================================
