---------------------------- MODULE InfraProofs -----------------------------
(***************************************************************************)
(* Two components of infra/ for any number of calls: the lock              *)
(* (async-lock.ts), with the refinement of the FIFO semaphore, and the     *)
(* circuit breaker (circuit-breaker.ts). They share no state.              *)
(***************************************************************************)
EXTENDS AsyncLock, CircuitBreaker, SeqLemmas, FiniteSetTheorems

-----------------------------------------------------------------------------
(***************************************************************************)
(* The lock, for any set of acquire() calls: the inductive invariant, what *)
(* follows from it about single steps, and the refinement.                 *)
(***************************************************************************)
\* The conjuncts support one another: a free lock has an empty queue, so a
\* newcomer that finds `held` false is not barging; and a listener belongs to a
\* queued call, so an abort never touches an owner.
LockInv == /\ TypeOK
           /\ MutualExclusion
           /\ HeldIffOwned
           /\ NoLostWakeup
           /\ ListenersAreWaiters

\* A new lock satisfies the invariant.
LEMMA LockInit == Init => LockInv
<1> SUFFICES ASSUME Init PROVE LockInv
  OBVIOUS
<1>1. <<>> \in Seq(Requests) /\ ToSet(<<>>) = {} /\ IsInjective(<<>>)
  BY NoneLemma
<1>2. \A r \in Requests : phase[r] = "new"
  BY DEF Init
<1>3. TypeOK
  BY <1>1 DEF Init, TypeOK, Phases
<1>4. MutualExclusion /\ HeldIffOwned
  BY <1>2 DEF Init, MutualExclusion, HeldIffOwned, Owners
<1>5. NoLostWakeup /\ ListenersAreWaiters
  BY <1>1, <1>2, AbortableAssumption DEF Init, NoLostWakeup, ListenersAreWaiters
<1> QED BY <1>3, <1>4, <1>5 DEF LockInv

\* handoff() after the release of r restores the invariant.
LEMMA ReleaseKeeps ==
  ASSUME LockInv, NEW r \in Requests, Release(r)
  PROVE  LockInv'
<1> USE DEF TypeOK, Phases, Owners, MutualExclusion, HeldIffOwned, NoLostWakeup,
            ListenersAreWaiters
<1> DEFINE ph == [phase EXCEPT ![r] = "released"]
<1>1. CASE phase[r] = "released"
  BY <1>1 DEF Release, vars, LockInv
<1>2. CASE phase[r] # "released"
  <2>1. /\ phase[r] \in {"granted", "inside"} /\ Handoff(ph)
        /\ UNCHANGED <<disposed, fired>>
    BY <1>2 DEF Release
  <2>2. \A s \in Requests : phase[s] \in {"granted", "inside"} => s = r
    BY <2>1 DEF LockInv
  <2>3. held
    BY <2>1 DEF LockInv
  <2>4. CASE queue # <<>>
    <3> DEFINE h == Head(queue)
    <3>1. /\ h \in Requests /\ Tail(queue) \in Seq(Requests) /\ h \in ToSet(queue)
          /\ ToSet(Tail(queue)) = ToSet(queue) \ {h} /\ IsInjective(Tail(queue))
      BY <2>4, ShiftLemma DEF LockInv
    <3>2. phase[h] = "waiting" /\ h # r
      BY <3>1, <2>1 DEF LockInv
    <3>3. /\ held' = TRUE /\ queue' = Tail(queue)
          /\ phase' = [ph EXCEPT ![h] = "granted"] /\ listening' = listening \ {h}
      BY <2>1, <2>4 DEF Handoff
    <3> HIDE DEF h
    <3>4. /\ phase'[h] = "granted" /\ phase'[r] = "released"
          /\ \A s \in Requests \ {h, r} : phase'[s] = phase[s]
          /\ phase' \in [Requests -> Phases]
      BY <3>1, <3>2, <3>3 DEF LockInv
    <3>5. TypeOK'
      BY <3>1, <3>3, <3>4, <2>1 DEF LockInv
    <3>6. MutualExclusion' /\ HeldIffOwned'
      BY <3>1, <3>3, <3>4, <2>2
    <3>7. NoLostWakeup'
      BY <3>1, <3>2, <3>3, <3>4, <2>1 DEF LockInv
    <3>8. ListenersAreWaiters'
      <4>1. \A s \in Requests : phase'[s] = "waiting" <=> phase[s] = "waiting" /\ s # h
        BY <3>2, <3>4, <2>1
      <4>2. listening = {s \in Abortable : phase[s] = "waiting"}
        BY DEF LockInv
      <4> QED BY <4>1, <4>2, <3>3, AbortableAssumption
    <3> QED BY <3>5, <3>6, <3>7, <3>8 DEF LockInv
  <2>5. CASE queue = <<>>
    <3>1. /\ held' = FALSE /\ queue' = queue /\ phase' = ph
          /\ listening' = listening
      BY <2>1, <2>5 DEF Handoff
    <3>2. /\ phase'[r] = "released" /\ phase' \in [Requests -> Phases]
          /\ \A s \in Requests \ {r} : phase'[s] = phase[s]
      BY <3>1 DEF LockInv
    <3>3. TypeOK'
      BY <3>1, <3>2, <2>1 DEF LockInv
    <3>4. MutualExclusion' /\ HeldIffOwned'
      BY <3>1, <3>2, <2>2
    <3>5. NoLostWakeup' /\ ListenersAreWaiters'
      BY <3>1, <3>2, <2>1, <2>5 DEF LockInv
    <3> QED BY <3>3, <3>4, <3>5 DEF LockInv
  <2> QED BY <2>4, <2>5
<1> QED BY <1>1, <1>2

\* Every step of the lock keeps the invariant.
LEMMA LockStep == LockInv /\ [Next]_vars => LockInv'
<1> SUFFICES ASSUME LockInv, [Next]_vars PROVE LockInv'
  OBVIOUS
<1> USE DEF TypeOK, Phases, Owners, MutualExclusion, HeldIffOwned, NoLostWakeup,
            ListenersAreWaiters
<1>1. ASSUME NEW r \in Requests, AcquireRefused(r) PROVE LockInv'
  BY <1>1 DEF LockInv, AcquireRefused, lockVars
<1>2. ASSUME NEW r \in Requests, AcquireFree(r) PROVE LockInv'
  BY <1>2 DEF LockInv, AcquireFree
<1>3. ASSUME NEW r \in Requests, AcquireQueued(r) PROVE LockInv'
  <2>1. r \notin ToSet(queue)
    BY <1>3 DEF LockInv, AcquireQueued
  <2>2. /\ queue' \in Seq(Requests) /\ ToSet(queue') = ToSet(queue) \cup {r}
        /\ IsInjective(queue')
    BY <1>3, <2>1, PushLemma DEF LockInv, AcquireQueued
  <2> QED BY <1>3, <2>1, <2>2 DEF LockInv, AcquireQueued
<1>4. ASSUME NEW r \in Requests, Enter(r) PROVE LockInv'
  BY <1>4 DEF LockInv, Enter, lockVars
<1>5. ASSUME NEW r \in Requests, Release(r) PROVE LockInv'
  BY <1>5, ReleaseKeeps
<1>6. ASSUME NEW r \in Requests, Abort(r) PROVE LockInv'
  <2>1. CASE r \in listening
    <3>1. phase[r] = "waiting"
      BY <2>1 DEF LockInv
    <3>2. /\ RemoveFirst(queue, r) \in Seq(Requests)
          /\ ToSet(RemoveFirst(queue, r)) = ToSet(queue) \ {r}
          /\ IsInjective(RemoveFirst(queue, r))
      BY SpliceLemma DEF LockInv
    <3>3. queue # <<>> /\ held
      BY <3>1, EmptySeq DEF LockInv, ToSet
    <3> QED BY <1>6, <2>1, <3>1, <3>2, <3>3 DEF LockInv, Abort
  <2>2. CASE r \notin listening
    BY <1>6, <2>2 DEF LockInv, Abort
  <2> QED BY <2>1, <2>2
<1>7. CASE Dispose
  <2>1. /\ queue' = <<>> /\ queue' \in Seq(Requests)
        /\ ToSet(queue') = {} /\ IsInjective(queue')
    BY <1>7, NoneLemma DEF Dispose
  <2>2. \A s \in Requests : phase'[s] = IF phase[s] = "waiting" THEN "rejected" ELSE phase[s]
    BY <1>7 DEF Dispose, LockInv
  <2>3. TypeOK'
    BY <1>7, <2>1 DEF Dispose, LockInv
  <2>4. MutualExclusion' /\ HeldIffOwned'
    BY <1>7, <2>2 DEF Dispose, LockInv
  <2>5. NoLostWakeup'
    BY <2>1, <2>2
  <2>6. ListenersAreWaiters'
    BY <1>7, <2>2, AbortableAssumption DEF Dispose, LockInv
  <2> QED BY <2>3, <2>4, <2>5, <2>6 DEF LockInv
<1>8. CASE UNCHANGED vars
  BY <1>8 DEF vars, LockInv
<1> QED BY <1>1, <1>2, <1>3, <1>4, <1>5, <1>6, <1>7, <1>8 DEF Next

\* The invariant holds in every reachable state of the lock.
THEOREM LockInvariance == Spec => []LockInv
<1>1. Init => LockInv
  BY LockInit
<1>2. LockInv /\ [Next]_vars => LockInv'
  BY LockStep
<1> QED BY <1>1, <1>2, PTL DEF Spec

\* The state is well typed, for any constants.
THEOREM LockTypeOK == Spec => []TypeOK
<1>1. LockInv => TypeOK
  BY DEF LockInv
<1> QED BY <1>1, LockInvariance, PTL

\* Two withLock() sections never overlap.
THEOREM LockMutualExclusion == Spec => []MutualExclusion
<1>1. LockInv => MutualExclusion
  BY DEF LockInv
<1> QED BY <1>1, LockInvariance, PTL

\* A caller in the queue always has an owner ahead of it.
THEOREM LockNoLostWakeup == Spec => []NoLostWakeup
<1>1. LockInv => NoLostWakeup
  BY DEF LockInv
<1> QED BY <1>1, LockInvariance, PTL

\* No abort listener outlives the wait it was registered for.
THEOREM LockListeners == Spec => []ListenersAreWaiters
<1>1. LockInv => ListenersAreWaiters
  BY DEF LockInv
<1> QED BY <1>1, LockInvariance, PTL

-----------------------------------------------------------------------------
\* When a step makes a call the owner, nobody was waiting or it was the oldest.
THEOREM LockNoBarging == Spec => NoBarging
<1>1. LockInv /\ [Next]_vars
        => [\A r \in Requests : r \in Owners' \ Owners => \/ queue = <<>>
                                                          \/ r = Head(queue)]_vars
  <2> SUFFICES ASSUME LockInv, Next, NEW r \in Requests, r \in Owners' \ Owners,
                      queue # <<>>
               PROVE  r = Head(queue)
    BY DEF Owners
  <2>0. held /\ phase \in [Requests -> Phases]
    BY DEF LockInv, NoLostWakeup, TypeOK
  <2>1. ASSUME NEW s \in Requests, Release(s) PROVE r = Head(queue)
    BY <2>0, <2>1 DEF Release, Handoff, Owners, vars
  <2>2. ASSUME NEW s \in Requests, \/ AcquireRefused(s) \/ AcquireFree(s)
                                   \/ AcquireQueued(s) \/ Enter(s) \/ Abort(s)
        PROVE  FALSE
    BY <2>0, <2>2 DEF AcquireRefused, AcquireFree, AcquireQueued, Enter, Abort, Owners
  <2>3. CASE Dispose
    BY <2>0, <2>3 DEF Dispose, Owners
  <2> QED BY <2>1, <2>2, <2>3 DEF Next
<1> QED BY <1>1, LockInvariance, PTL DEF Spec, NoBarging

\* The lock implements the FIFO semaphore of one unit.
THEOREM LockRefinement == Spec => Refinement
<1>1. Init => Abstract!Init
  BY DEF Init, Abstract!Init, Owners
<1>2. LockInv /\ [Next]_vars => [Abstract!Next]_(Abstract!vars)
  <2> SUFFICES ASSUME LockInv, [Next]_vars
               PROVE  Abstract!Next \/ UNCHANGED Abstract!vars
    OBVIOUS
  <2> DEFINE Seen == {r \in Requests : phase[r] # "new"}
  <2> USE DEF TypeOK, Phases, Owners, HeldIffOwned, NoLostWakeup, ListenersAreWaiters
  <2>0. Abstract!Cardinality(Owners) = Cardinality(Owners)
    BY DEF Abstract!Cardinality, Cardinality
  <2>1. ASSUME NEW r \in Requests, AcquireRefused(r) PROVE Abstract!Refuse(r)
    BY <2>1 DEF LockInv, AcquireRefused, lockVars, Abstract!Refuse
  <2>2. ASSUME NEW r \in Requests, AcquireFree(r) PROVE Abstract!Take(r)
    <3>1. Owners = {} /\ Cardinality(Owners) = 0
      BY <2>2, FS_EmptySet DEF LockInv, AcquireFree
    <3>2. Owners' = Owners \cup {r} /\ Seen' = Seen \cup {r}
      BY <2>2 DEF LockInv, AcquireFree
    <3> QED BY <2>0, <2>2, <3>1, <3>2 DEF LockInv, AcquireFree, Abstract!Take
  <2>3. ASSUME NEW r \in Requests, AcquireQueued(r) PROVE Abstract!Join(r)
    <3>1. PICK o \in Requests : Owners = {o}
      BY <2>3 DEF LockInv, AcquireQueued, MutualExclusion
    <3>2. Cardinality(Owners) = 1
      BY <3>1, FS_Singleton
    <3>3. Owners' = Owners /\ Seen' = Seen \cup {r}
      BY <2>3 DEF LockInv, AcquireQueued
    <3> QED BY <2>0, <2>3, <3>2, <3>3 DEF LockInv, AcquireQueued, Abstract!Join
  <2>4. ASSUME NEW r \in Requests, Enter(r) PROVE UNCHANGED Abstract!vars
    BY <2>4 DEF LockInv, Enter, lockVars, Abstract!vars
  <2>5. ASSUME NEW r \in Requests, Release(r)
        PROVE  Abstract!Pass(r) \/ UNCHANGED Abstract!vars
    <3>1. CASE phase[r] = "released"
      BY <2>5, <3>1 DEF Release, vars, Abstract!vars
    <3>2. CASE phase[r] \in {"granted", "inside"}
      <4>1. Owners = {r}
        BY <3>2 DEF LockInv, MutualExclusion
      <4>2. CASE queue = <<>>
        BY <2>5, <3>2, <4>1, <4>2 DEF LockInv, Release, Handoff, Abstract!Pass
      <4>3. CASE queue # <<>>
        <5>1. /\ Head(queue) \in Requests /\ phase[Head(queue)] = "waiting"
          BY <4>3, ShiftLemma DEF LockInv
        <5> QED BY <2>5, <3>2, <4>1, <4>3, <5>1
                DEF LockInv, Release, Handoff, Abstract!Pass
      <4> QED BY <4>2, <4>3
    <3> QED BY <2>5, <3>1, <3>2 DEF Release
  <2>6. ASSUME NEW r \in Requests, Abort(r)
        PROVE  Abstract!Leave(r) \/ UNCHANGED Abstract!vars
    <3>1. CASE r \in listening
      <4>1. phase[r] = "waiting" /\ r \in ToSet(queue)
        BY <3>1 DEF LockInv
      <4>2. \E k \in 1..Len(queue) :
              queue[k] = r /\ RemoveFirst(queue, r) = RemoveAt(queue, k)
        BY <4>1, SpliceLemma DEF LockInv
      <4>3. UNCHANGED <<Owners, Seen, disposed>>
        BY <2>6, <3>1, <4>1 DEF LockInv, Abort
      <4> QED BY <2>6, <3>1, <4>2, <4>3 DEF Abort, RemoveAt, Abstract!Leave
    <3>2. CASE r \notin listening
      <4>1. UNCHANGED <<queue, phase, disposed>>
        BY <2>6, <3>2 DEF Abort
      <4> QED BY <4>1 DEF Abstract!vars
    <3> QED BY <3>1, <3>2
  <2>7. ASSUME Dispose PROVE Abstract!Close
    <3>1. \A s \in Requests :
            phase'[s] = IF phase[s] = "waiting" THEN "rejected" ELSE phase[s]
      BY <2>7 DEF Dispose, LockInv
    <3>2. UNCHANGED <<Owners, Seen>>
      BY <3>1
    <3> QED BY <2>7, <3>2 DEF Dispose, Abstract!Close
  <2>8. CASE UNCHANGED vars
    BY <2>8 DEF vars, Abstract!vars
  <2>9. ASSUME NEW r \in Requests,
               \/ AcquireRefused(r) \/ AcquireFree(r) \/ AcquireQueued(r)
               \/ Enter(r) \/ Release(r) \/ Abort(r)
        PROVE  Abstract!Next \/ UNCHANGED Abstract!vars
    <3>1. \/ Abstract!Take(r) \/ Abstract!Join(r) \/ Abstract!Refuse(r)
          \/ Abstract!Leave(r) \/ Abstract!Pass(r) \/ UNCHANGED Abstract!vars
      BY <2>1, <2>2, <2>3, <2>4, <2>5, <2>6, <2>9
    <3> QED BY <3>1 DEF Abstract!Next
  <2>10. CASE Dispose
    BY <2>7, <2>10 DEF Abstract!Next
  <2> QED BY <2>8, <2>9, <2>10 DEF Next
<1> QED BY <1>1, <1>2, LockInvariance, PTL DEF Spec, Refinement, Abstract!Spec

-----------------------------------------------------------------------------
(***************************************************************************)
(* The breaker, for any calls and any threshold.                           *)
(***************************************************************************)
\* In HALF_OPEN the calls admitted during the stay are the holder of the slot,
\* if the slot is filled, and nobody otherwise; in the other states there is no
\* stay. With it, one stay admits one call because a second must find the slot
\* empty, and whatever empties it also ends the stay.
PeriodIsSlot == period = IF halfOpenProbe = NoCall THEN {} ELSE {halfOpenProbe}

BreakerInv == BreakerTypes /\ TripsExactly /\ SlotIsLive /\ PeriodIsSlot

\* A new breaker satisfies the invariant.
LEMMA BreakerStart == BreakerInit => BreakerInv
  BY BreakerAssumption
  DEF BreakerInit, BreakerInv, BreakerTypes, TripsExactly, SlotIsLive, PeriodIsSlot

\* Recording an outcome keeps the invariant: the slot is emptied, and the count
\* passes the threshold exactly when the circuit leaves or has left CLOSED.
LEMMA RecordKeeps ==
  ASSUME BreakerInv, RecordSuccess \/ RecordFailure,
         progress' \in [Calls -> {"new", "running", "ok", "failed", "rejected"}]
  PROVE  BreakerInv'
<1> USE BreakerAssumption
        DEF BreakerInv, BreakerTypes, TripsExactly, SlotIsLive, PeriodIsSlot
<1>1. CASE RecordSuccess
  BY <1>1 DEF RecordSuccess
<1>2. CASE RecordFailure
  <2>1. /\ consecutiveFailures' = consecutiveFailures + 1 /\ consecutiveFailures \in Nat
        /\ halfOpenProbe' = NoCall /\ period' = {} /\ elapsed' = FALSE
        /\ state' = IF state = "half_open" \/ consecutiveFailures + 1 >= FailureThreshold
                      THEN "open" ELSE state
    BY <1>2 DEF RecordFailure
  <2>2. BreakerTypes'
    <3>1. state' \in {"closed", "open", "half_open"} /\ consecutiveFailures' \in Nat
      BY <2>1
    <3>2. halfOpenProbe' \in Calls \cup {NoCall} /\ elapsed' \in BOOLEAN
      BY <2>1
    <3>3. period' \in SUBSET Calls
      BY <2>1
    <3> QED BY <3>1, <3>2, <3>3
  <2>3. state = "half_open" => consecutiveFailures >= FailureThreshold
    OBVIOUS
  <2>4. TripsExactly'
    BY <2>1, <2>3
  <2>5. SlotIsLive' /\ PeriodIsSlot'
    BY <2>1
  <2> QED BY <2>2, <2>4, <2>5
<1> QED BY <1>1, <1>2

\* Every step of the breaker keeps the invariant.
LEMMA BreakerStep == BreakerInv /\ [BreakerNext]_breakerVars => BreakerInv'
<1> SUFFICES ASSUME BreakerInv, [BreakerNext]_breakerVars PROVE BreakerInv'
  OBVIOUS
<1> USE BreakerAssumption DEF BreakerTypes, TripsExactly, SlotIsLive, PeriodIsSlot
<1>1. ASSUME NEW c \in Calls, Admit(c) PROVE BreakerInv'
  BY <1>1 DEF BreakerInv, Admit, Refreshed
<1>2. ASSUME NEW c \in Calls, Reject(c) PROVE BreakerInv'
  BY <1>2 DEF BreakerInv, Reject, Refreshed
<1>3. ASSUME NEW c \in Calls, Succeed(c) PROVE BreakerInv'
  BY <1>3, RecordKeeps DEF BreakerInv, Succeed
<1>4. ASSUME NEW c \in Calls, Fail(c) PROVE BreakerInv'
  BY <1>4, RecordKeeps DEF BreakerInv, Fail
<1>5. CASE ReadState
  BY <1>5 DEF BreakerInv, ReadState, Refreshed
<1>6. CASE ExternalSuccess \/ ExternalFailure
  BY <1>6, RecordKeeps DEF BreakerInv, ExternalSuccess, ExternalFailure
<1>7. CASE Tick
  BY <1>7 DEF BreakerInv, Tick
<1>8. CASE UNCHANGED breakerVars
  BY <1>8 DEF BreakerInv, breakerVars
<1> QED BY <1>1, <1>2, <1>3, <1>4, <1>5, <1>6, <1>7, <1>8 DEF BreakerNext

\* The invariant holds in every reachable state of the breaker.
THEOREM BreakerInvariance == BreakerSpec => []BreakerInv
<1>1. BreakerInit => BreakerInv
  BY BreakerStart
<1>2. BreakerInv /\ [BreakerNext]_breakerVars => BreakerInv'
  BY BreakerStep
<1> QED BY <1>1, <1>2, PTL DEF BreakerSpec

\* The state is well typed, for any constants.
THEOREM BreakerTypeOK == BreakerSpec => []BreakerTypes
<1>1. BreakerInv => BreakerTypes
  BY DEF BreakerInv
<1> QED BY <1>1, BreakerInvariance, PTL

\* The circuit is away from CLOSED exactly while the count is at the threshold.
THEOREM BreakerTrips == BreakerSpec => []TripsExactly
<1>1. BreakerInv => TripsExactly
  BY DEF BreakerInv
<1> QED BY <1>1, BreakerInvariance, PTL

\* A filled probe slot belongs to a call in flight, so the breaker cannot wedge.
THEOREM BreakerSlot == BreakerSpec => []SlotIsLive
<1>1. BreakerInv => SlotIsLive
  BY DEF BreakerInv
<1> QED BY <1>1, BreakerInvariance, PTL

\* One stay in HALF_OPEN admits at most one call.
THEOREM BreakerOneProbe == BreakerSpec => []OneProbePerPeriod
<1>1. BreakerInv => OneProbePerPeriod
  BY FS_EmptySet, FS_Singleton DEF BreakerInv, PeriodIsSlot, OneProbePerPeriod
<1> QED BY <1>1, BreakerInvariance, PTL
=============================================================================
