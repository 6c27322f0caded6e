-------------------------- MODULE ModelCallProofs ---------------------------
(***************************************************************************)
(* What stands between the callers and the model adapters, for any calls:  *)
(* the permits of the admission controller (infra/admission-controller.ts) *)
(* and the switch of the fallback adapter (core/fallback-adapter.ts). They *)
(* share no state.                                                         *)
(***************************************************************************)
EXTENDS AdmissionController, Fallback, SeqLemmas, FiniteSetTheorems

-----------------------------------------------------------------------------
(***************************************************************************)
(* The admission controller, for any tenants and any maxInflight.          *)
(***************************************************************************)
\* The permits of a tenant are finitely many, so that they can be counted: only
\* one call becomes a holder at a time.
FiniteHolders == \A t \in Tenants : IsFiniteSet(Holders(t))

\* Budget and NoIdlePermit need each other: a newcomer is admitted by its test
\* of `inflight` alone, which proves that nobody waits; and release() may keep
\* `inflight` as it is because the head of the queue takes the permit's place.
AdmissionInv == /\ TypeOK
                /\ Budget
                /\ NoIdlePermit
                /\ QueueIsPending
                /\ ArmedIsPending
                /\ FiniteHolders

\* A new controller has no holder and no waiter.
LEMMA AdmissionInit == Init => AdmissionInv
<1> SUFFICES ASSUME Init PROVE AdmissionInv
  OBVIOUS
<1>1. <<>> \in Seq(Calls) /\ ToSet(<<>>) = {} /\ IsInjective(<<>>)
  BY NoneLemma
<1>2. \A t \in Tenants : Holders(t) = {}
  BY DEF Init, Holders
<1>3. TypeOK
  BY <1>1 DEF Init, TypeOK, Phases
<1>4. Budget /\ FiniteHolders
  <2>1. ASSUME NEW t \in Tenants
        PROVE  /\ IsFiniteSet(Holders(t))
               /\ inflight[t] = Cardinality(Holders(t)) /\ inflight[t] <= MaxInflight
    <3>1. inflight[t] = 0 /\ 0 <= MaxInflight
      BY AdmissionAssumption DEF Init
    <3>2. IsFiniteSet(Holders(t)) /\ Cardinality(Holders(t)) = 0
      BY <1>2, FS_EmptySet
    <3> QED BY <3>1, <3>2
  <2> QED BY <2>1 DEF Budget, FiniteHolders
<1>5. NoIdlePermit /\ QueueIsPending /\ ArmedIsPending
  BY <1>1 DEF Init, NoIdlePermit, QueueIsPending, ArmedIsPending
<1> QED BY <1>3, <1>4, <1>5 DEF AdmissionInv

\* A step that leaves the set of holders of every tenant and `inflight` alone
\* leaves the budget alone.
LEMMA SameHolders ==
  ASSUME Budget, FiniteHolders, UNCHANGED inflight,
         \A t \in Tenants : Holders(t)' = Holders(t)
  PROVE  Budget' /\ FiniteHolders'
  BY DEF Budget, FiniteHolders

\* Admitting a call to a free permit keeps the invariant.
LEMMA FreeKeeps ==
  ASSUME AdmissionInv, NEW c \in Calls, AcquireFree(c)
  PROVE  AdmissionInv'
<1> DEFINE t == TenantOf[c]
<1> USE DEF TypeOK, Phases
<1>1. /\ t \in Tenants /\ phase[c] = "new" /\ inflight[t] < MaxInflight
      /\ inflight' = [inflight EXCEPT ![t] = @ + 1]
      /\ phase' = [phase EXCEPT ![c] = "granted"]
      /\ UNCHANGED <<queue, fired, armed>>
  BY AdmissionAssumption DEF AcquireFree
<1> HIDE DEF t
<1>2. TypeOK'
  BY <1>1 DEF AdmissionInv
<1>3. /\ Holders(t)' = Holders(t) \cup {c} /\ c \notin Holders(t)
      /\ \A u \in Tenants \ {t} : Holders(u)' = Holders(u)
  BY <1>1 DEF Holders, AdmissionInv, t
<1>4. Budget' /\ FiniteHolders'
  <2>1. /\ IsFiniteSet(Holders(t)')
        /\ Cardinality(Holders(t)') = Cardinality(Holders(t)) + 1
    <3>1. IsFiniteSet(Holders(t))
      BY <1>1 DEF AdmissionInv, FiniteHolders
    <3>2. /\ IsFiniteSet(Holders(t) \cup {c})
          /\ Cardinality(Holders(t) \cup {c}) = Cardinality(Holders(t)) + 1
      BY <3>1, <1>3, FS_AddElement
    <3> QED BY <3>2, <1>3
  <2>2. /\ inflight'[t] = inflight[t] + 1 /\ inflight[t] \in Nat
        /\ \A u \in Tenants \ {t} : inflight'[u] = inflight[u]
    BY <1>1 DEF AdmissionInv
  <2>3. inflight'[t] <= MaxInflight
    BY <1>1, <2>2, AdmissionAssumption
  <2> QED BY <1>1, <1>3, <2>1, <2>2, <2>3 DEF AdmissionInv, Budget, FiniteHolders
<1>5. NoIdlePermit'
  BY <1>1 DEF AdmissionInv, NoIdlePermit
<1>6. QueueIsPending' /\ ArmedIsPending'
  BY <1>1 DEF AdmissionInv, QueueIsPending, ArmedIsPending
<1> QED BY <1>2, <1>4, <1>5, <1>6 DEF AdmissionInv

\* Queueing a call keeps the invariant.
LEMMA QueuedKeeps ==
  ASSUME AdmissionInv, NEW c \in Calls, AcquireQueued(c)
  PROVE  AdmissionInv'
<1> DEFINE t == TenantOf[c]
<1> USE DEF TypeOK, Phases
<1>1. /\ t \in Tenants /\ phase[c] = "new" /\ inflight[t] >= MaxInflight
      /\ queue' = [queue EXCEPT ![t] = Append(@, c)]
      /\ phase' = [phase EXCEPT ![c] = "waiting"]
      /\ armed' = armed \cup {c} /\ UNCHANGED <<inflight, fired>>
  BY AdmissionAssumption DEF AcquireQueued
<1>2. c \notin ToSet(queue[t])
  BY <1>1 DEF AdmissionInv, QueueIsPending
<1>3. /\ queue'[t] \in Seq(Calls) /\ ToSet(queue'[t]) = ToSet(queue[t]) \cup {c}
      /\ IsInjective(queue'[t]) /\ queue' \in [Tenants -> Seq(Calls)]
      /\ \A u \in Tenants \ {t} : queue'[u] = queue[u]
  BY <1>1, <1>2, PushLemma DEF AdmissionInv, QueueIsPending
<1>4. TypeOK'
  BY <1>1, <1>3 DEF AdmissionInv
<1>5. \A u \in Tenants : Holders(u)' = Holders(u)
  BY <1>1 DEF Holders, AdmissionInv
<1>6. Budget' /\ FiniteHolders'
  BY <1>1, <1>5, SameHolders DEF AdmissionInv
<1>7. NoIdlePermit'
  BY <1>1, <1>3, AdmissionAssumption DEF AdmissionInv, NoIdlePermit, Budget
<1>8. QueueIsPending'
  BY <1>1, <1>3 DEF AdmissionInv, QueueIsPending
<1>9. ArmedIsPending'
  BY <1>1 DEF AdmissionInv, ArmedIsPending
<1> QED BY <1>4, <1>6, <1>7, <1>8, <1>9 DEF AdmissionInv

\* A timeout or an abort of a waiter keeps the invariant.
LEMMA CancelKeeps ==
  ASSUME AdmissionInv, NEW c \in armed, Cancel(c), UNCHANGED inflight,
         fired' \in SUBSET Abortable
  PROVE  AdmissionInv'
<1> DEFINE t == TenantOf[c]
<1> USE DEF TypeOK, Phases
<1>1. /\ c \in Calls /\ t \in Tenants /\ phase[c] = "waiting"
      /\ queue' = [queue EXCEPT ![t] = RemoveFirst(@, c)]
      /\ phase' = [phase EXCEPT ![c] = "rejected"] /\ armed' = armed \ {c}
  BY AdmissionAssumption DEF Cancel, AdmissionInv, ArmedIsPending
<1>2. /\ RemoveFirst(queue[t], c) \in Seq(Calls)
      /\ ToSet(RemoveFirst(queue[t], c)) = ToSet(queue[t]) \ {c}
      /\ IsInjective(RemoveFirst(queue[t], c))
  <2>1. queue[t] \in Seq(Calls) /\ IsInjective(queue[t])
    BY <1>1 DEF AdmissionInv, QueueIsPending
  <2> QED BY <2>1, SpliceLemma
<1>3. /\ queue'[t] = RemoveFirst(queue[t], c)
      /\ queue' \in [Tenants -> Seq(Calls)]
      /\ \A u \in Tenants \ {t} : queue'[u] = queue[u]
  BY <1>1, <1>2 DEF AdmissionInv
<1>4. TypeOK'
  BY <1>1, <1>3 DEF AdmissionInv
<1>5. \A u \in Tenants : Holders(u)' = Holders(u)
  BY <1>1 DEF Holders, AdmissionInv
<1>6. Budget' /\ FiniteHolders'
  BY <1>5, SameHolders DEF AdmissionInv
<1>7. NoIdlePermit'
  <2>1. queue[t] # <<>>
    BY <1>1, NoneLemma DEF AdmissionInv, QueueIsPending
  <2> QED BY <1>1, <1>3, <2>1 DEF AdmissionInv, NoIdlePermit
<1>8. QueueIsPending'
  BY <1>1, <1>2, <1>3 DEF AdmissionInv, QueueIsPending
<1>9. ArmedIsPending'
  BY <1>1 DEF AdmissionInv, ArmedIsPending
<1> QED BY <1>4, <1>6, <1>7, <1>8, <1>9 DEF AdmissionInv

\* Releasing a permit keeps the invariant: the head of the queue replaces the
\* released call among the holders, or the count drops by one.
LEMMA ReleaseKeepsAdmission ==
  ASSUME AdmissionInv, NEW c \in Calls, Release(c)
  PROVE  AdmissionInv'
<1> DEFINE t == TenantOf[c]
           ph == [phase EXCEPT ![c] = "released"]
<1> USE DEF TypeOK, Phases
<1>1. CASE phase[c] = "released"
  <2>1. UNCHANGED vars
    BY <1>1 DEF Release
  <2> QED BY <2>1 DEF vars, AdmissionInv, Budget, Holders, NoIdlePermit,
              QueueIsPending, ArmedIsPending, FiniteHolders
<1>2. CASE phase[c] # "released"
  <2>1. /\ t \in Tenants /\ phase[c] \in {"granted", "inside"}
        /\ Serve(t, ph) /\ UNCHANGED fired
    BY <1>2, AdmissionAssumption DEF Release
  <2>2. c \in Holders(t) /\ IsFiniteSet(Holders(t))
    BY <2>1 DEF Holders, AdmissionInv, FiniteHolders
  <2>3. /\ IsFiniteSet(Holders(t) \ {c})
        /\ Cardinality(Holders(t) \ {c}) = Cardinality(Holders(t)) - 1
    BY <2>2, FS_RemoveElement
  <2>4. /\ inflight[t] \in Nat /\ inflight[t] = Cardinality(Holders(t))
        /\ inflight[t] <= MaxInflight
    BY <2>1 DEF AdmissionInv, Budget
  <2>5. CASE queue[t] = <<>>
    <3>1. /\ inflight' = [inflight EXCEPT ![t] = @ - 1] /\ phase' = ph
          /\ UNCHANGED <<queue, armed>>
      BY <2>1, <2>5 DEF Serve
    <3>2. /\ Holders(t)' = Holders(t) \ {c}
          /\ \A u \in Tenants \ {t} : Holders(u)' = Holders(u)
      BY <3>1, <2>1 DEF Holders, AdmissionInv
    <3>3. inflight[t] # 0
      BY <2>2, <2>4, FS_EmptySet
    <3>4. /\ inflight'[t] = inflight[t] - 1 /\ inflight' \in [Tenants -> Nat]
          /\ \A u \in Tenants \ {t} : inflight'[u] = inflight[u]
      BY <3>1, <3>3, <2>1, <2>4 DEF AdmissionInv
    <3> HIDE DEF t, ph
    <3>5. TypeOK'
      BY <3>1, <3>4, <2>1 DEF AdmissionInv, ph
    <3>6. inflight'[t] = Cardinality(Holders(t)') /\ IsFiniteSet(Holders(t)')
      BY <3>2, <3>4, <2>3, <2>4
    <3>7. inflight'[t] <= MaxInflight
      BY <3>4, <2>4, AdmissionAssumption
    <3>8. Budget' /\ FiniteHolders'
      BY <3>2, <3>4, <3>6, <3>7 DEF AdmissionInv, Budget, FiniteHolders
    <3>9. NoIdlePermit'
      BY <3>1, <3>4, <2>5 DEF AdmissionInv, NoIdlePermit
    <3>10. QueueIsPending' /\ ArmedIsPending'
      BY <3>1, <2>1 DEF AdmissionInv, QueueIsPending, ArmedIsPending, ph
    <3> QED BY <3>5, <3>8, <3>9, <3>10 DEF AdmissionInv
  <2>6. CASE queue[t] # <<>>
    <3> DEFINE h == Head(queue[t])
    <3>1. /\ inflight' = inflight /\ phase' = [ph EXCEPT ![h] = "granted"]
          /\ queue' = [queue EXCEPT ![t] = Tail(@)] /\ armed' = armed \ {h}
      BY <2>1, <2>6 DEF Serve
    <3>2. queue[t] \in Seq(Calls) /\ IsInjective(queue[t])
      BY <2>1 DEF AdmissionInv, QueueIsPending
    <3>3. /\ h \in Calls /\ Tail(queue[t]) \in Seq(Calls) /\ h \in ToSet(queue[t])
          /\ ToSet(Tail(queue[t])) = ToSet(queue[t]) \ {h}
          /\ IsInjective(Tail(queue[t]))
      BY <3>2, <2>6, ShiftLemma
    <3>4. TenantOf[h] = t /\ phase[h] = "waiting" /\ h # c
      BY <3>3, <2>1 DEF AdmissionInv, QueueIsPending
    <3>5. /\ queue'[t] = Tail(queue[t]) /\ queue' \in [Tenants -> Seq(Calls)]
          /\ \A u \in Tenants \ {t} : queue'[u] = queue[u]
      BY <3>1, <3>3, <2>1 DEF AdmissionInv
    <3> HIDE DEF h
    <3>6. /\ phase' \in [Calls -> Phases] /\ phase'[h] = "granted"
          /\ phase'[c] = "released"
          /\ \A d \in Calls \ {c, h} : phase'[d] = phase[d]
      BY <3>1, <3>3, <3>4, <2>1 DEF AdmissionInv
    <3>7. TypeOK'
      BY <3>1, <3>5, <3>6, <2>1 DEF AdmissionInv
    <3>8. /\ Holders(t)' = (Holders(t) \ {c}) \cup {h} /\ h \notin Holders(t)
          /\ \A u \in Tenants \ {t} : Holders(u)' = Holders(u)
      BY <3>3, <3>4, <3>6, <2>1 DEF Holders, AdmissionInv
    <3> HIDE DEF t
    <3>9. /\ IsFiniteSet((Holders(t) \ {c}) \cup {h})
          /\ Cardinality((Holders(t) \ {c}) \cup {h}) = Cardinality(Holders(t) \ {c}) + 1
      BY <2>3, <3>8, FS_AddElement
    <3>10. inflight'[t] = Cardinality(Holders(t)') /\ IsFiniteSet(Holders(t)')
      BY <3>1, <3>8, <3>9, <2>3, <2>4
    <3>11. Budget' /\ FiniteHolders'
      BY <3>1, <3>8, <3>10 DEF AdmissionInv, Budget, FiniteHolders
    <3>12. NoIdlePermit'
      BY <3>1, <3>5, <2>1, <2>6 DEF AdmissionInv, NoIdlePermit
    <3>13. QueueIsPending'
      <4>1. \A d \in Calls : phase'[d] = "waiting" <=> phase[d] = "waiting" /\ d # h
        BY <3>4, <3>6, <2>1
      <4>2. \A u \in Tenants :
              /\ IsInjective(queue[u])
              /\ ToSet(queue[u]) = {d \in Calls : TenantOf[d] = u /\ phase[d] = "waiting"}
        BY DEF AdmissionInv, QueueIsPending
      <4>3. /\ IsInjective(queue'[t])
            /\ ToSet(queue'[t]) = {d \in Calls : TenantOf[d] = t /\ phase'[d] = "waiting"}
        BY <4>1, <4>2, <3>3, <3>5, <2>1
      <4>4. ASSUME NEW u \in Tenants \ {t}
            PROVE  /\ IsInjective(queue'[u])
                   /\ ToSet(queue'[u]) =
                        {d \in Calls : TenantOf[d] = u /\ phase'[d] = "waiting"}
        BY <4>1, <4>2, <3>4, <3>5
      <4> QED BY <4>3, <4>4 DEF QueueIsPending
    <3>14. ArmedIsPending'
      BY <3>1, <3>3, <3>4, <3>6, <2>1 DEF AdmissionInv, ArmedIsPending
    <3> QED BY <3>7, <3>11, <3>12, <3>13, <3>14 DEF AdmissionInv
  <2> QED BY <2>5, <2>6
<1> QED BY <1>1, <1>2

\* Every step of the controller keeps the invariant.
LEMMA AdmissionStep == AdmissionInv /\ [Next]_vars => AdmissionInv'
<1> SUFFICES ASSUME AdmissionInv, [Next]_vars PROVE AdmissionInv'
  OBVIOUS
<1>1. ASSUME NEW c \in Calls, AcquireFree(c) PROVE AdmissionInv'
  BY <1>1, FreeKeeps
<1>2. ASSUME NEW c \in Calls, AcquireQueued(c) PROVE AdmissionInv'
  BY <1>2, QueuedKeeps
<1>3. ASSUME NEW c \in Calls, Release(c) PROVE AdmissionInv'
  BY <1>3, ReleaseKeepsAdmission
<1>4. ASSUME NEW c \in Calls, Timeout(c) PROVE AdmissionInv'
  BY <1>4, CancelKeeps DEF Timeout, AdmissionInv, TypeOK
<1>5. ASSUME NEW c \in Calls, Abort(c) PROVE AdmissionInv'
  <2>1. fired' \in SUBSET Abortable /\ UNCHANGED inflight
    BY <1>5 DEF Abort, AdmissionInv, TypeOK
  <2>2. CASE c \in armed /\ Cancel(c)
    BY <2>1, <2>2, CancelKeeps
  <2>3. CASE UNCHANGED <<queue, phase, armed>>
    BY <2>1, <2>3 DEF AdmissionInv, TypeOK, Budget, Holders, NoIdlePermit,
       QueueIsPending, ArmedIsPending, FiniteHolders
  <2> QED BY <1>5, <2>2, <2>3 DEF Abort
<1>6. ASSUME NEW c \in Calls, AcquireAborted(c) \/ Enter(c) PROVE AdmissionInv'
  <2>1. /\ phase' \in [Calls -> Phases] /\ UNCHANGED <<inflight, queue, fired, armed>>
        /\ \A d \in Calls : phase'[d] = "waiting" <=> phase[d] = "waiting"
        /\ \A t \in Tenants : Holders(t)' = Holders(t)
    BY <1>6 DEF AcquireAborted, Enter, AdmissionInv, TypeOK, Phases, Holders
  <2>2. Budget' /\ FiniteHolders'
    BY <2>1, SameHolders DEF AdmissionInv
  <2>3. TypeOK' /\ NoIdlePermit' /\ QueueIsPending' /\ ArmedIsPending'
    BY <2>1 DEF AdmissionInv, TypeOK, NoIdlePermit, QueueIsPending, ArmedIsPending
  <2> QED BY <2>2, <2>3 DEF AdmissionInv
<1>7. CASE UNCHANGED vars
  BY <1>7 DEF vars, AdmissionInv, TypeOK, Budget, Holders, NoIdlePermit,
     QueueIsPending, ArmedIsPending, FiniteHolders
<1> QED BY <1>1, <1>2, <1>3, <1>4, <1>5, <1>6, <1>7 DEF Next

\* The invariant holds in every reachable state of the controller.
THEOREM AdmissionInvariance == Spec => []AdmissionInv
<1>1. Init => AdmissionInv
  BY AdmissionInit
<1>2. AdmissionInv /\ [Next]_vars => AdmissionInv'
  BY AdmissionStep
<1> QED BY <1>1, <1>2, PTL DEF Spec

\* The state is well typed, for any constants.
THEOREM AdmissionTypeOK == Spec => []TypeOK
<1>1. AdmissionInv => TypeOK
  BY DEF AdmissionInv
<1> QED BY <1>1, AdmissionInvariance, PTL

\* `inflight` counts the permits that are out and never passes maxInflight.
THEOREM AdmissionBudget == Spec => []Budget
<1>1. AdmissionInv => Budget
  BY DEF AdmissionInv
<1> QED BY <1>1, AdmissionInvariance, PTL

\* No permit lies idle beside a waiter of its tenant.
THEOREM AdmissionNoIdlePermit == Spec => []NoIdlePermit
<1>1. AdmissionInv => NoIdlePermit
  BY DEF AdmissionInv
<1> QED BY <1>1, AdmissionInvariance, PTL

\* A queue holds exactly the pending calls of its tenant.
THEOREM AdmissionQueue == Spec => []QueueIsPending
<1>1. AdmissionInv => QueueIsPending
  BY DEF AdmissionInv
<1> QED BY <1>1, AdmissionInvariance, PTL

-----------------------------------------------------------------------------
\* The calls of tenant t that have been answered or queued.
Seen(t) == {c \in Calls : TenantOf[c] = t /\ phase[c] # "new"}

\* A step that leaves the permits, the queue and the calls of a tenant alone is
\* no step of its semaphore.
LEMMA TenantStutters ==
  ASSUME NEW t \in Tenants, UNCHANGED <<Holders(t), queue[t], Seen(t)>>
  PROVE  UNCHANGED Tenant(t)!vars
  BY DEF Tenant!vars, Seen

\* The two modules count alike.
LEMMA TenantCounts ==
  ASSUME NEW t \in Tenants
  PROVE  Tenant(t)!Cardinality(Holders(t)) = Cardinality(Holders(t))
  BY DEF Tenant!Cardinality, Cardinality

\* What a call does is a step of the semaphore of its own tenant.
LEMMA OwnTenant ==
  ASSUME AdmissionInv, NEW c \in Calls, NEW t \in Tenants, t = TenantOf[c],
         \/ AcquireFree(c) \/ AcquireAborted(c) \/ AcquireQueued(c)
         \/ Enter(c) \/ Release(c) \/ Timeout(c) \/ Abort(c)
  PROVE  Tenant(t)!Next \/ UNCHANGED Tenant(t)!vars
<1> USE DEF TypeOK, Phases
<1>0. /\ t \in Tenants /\ queue[t] \in Seq(Calls) /\ IsInjective(queue[t])
      /\ ToSet(queue[t]) = {d \in Calls : TenantOf[d] = t /\ phase[d] = "waiting"}
      /\ inflight[t] = Cardinality(Holders(t)) /\ inflight[t] <= MaxInflight
      /\ inflight[t] \in Nat
      /\ (queue[t] # <<>> => inflight[t] = MaxInflight)
      /\ Tenant(t)!Cardinality(Holders(t)) = Cardinality(Holders(t))
      /\ phase \in [Calls -> Phases] /\ c \in {d \in Calls : TenantOf[d] = t}
      /\ queue \in [Tenants -> Seq(Calls)]
  BY AdmissionAssumption, TenantCounts
  DEF AdmissionInv, QueueIsPending, Budget, NoIdlePermit
<1>1. CASE AcquireFree(c)
  <2>1. /\ Holders(t)' = Holders(t) \cup {c} /\ Seen(t)' = Seen(t) \cup {c}
        /\ c \notin Seen(t) /\ inflight[t] < MaxInflight /\ queue' = queue
    BY <1>0, <1>1 DEF AcquireFree, Holders, Seen
  <2>2. queue[t] = <<>>
    BY <1>0, <2>1, AdmissionAssumption
  <2>3. Tenant(t)!Take(c)
    BY <1>0, <2>1, <2>2 DEF Tenant!Take, Seen
  <2> QED BY <1>0, <2>3 DEF Tenant!Next
<1>2. CASE AcquireAborted(c)
  <2>1. /\ Holders(t)' = Holders(t) /\ Seen(t)' = Seen(t) \cup {c} /\ c \notin Seen(t)
        /\ queue' = queue
    BY <1>0, <1>2 DEF AcquireAborted, Holders, Seen
  <2>2. Tenant(t)!Refuse(c)
    BY <2>1 DEF Tenant!Refuse, Seen
  <2> QED BY <1>0, <2>2 DEF Tenant!Next
<1>3. CASE AcquireQueued(c)
  <2>1. /\ Holders(t)' = Holders(t) /\ Seen(t)' = Seen(t) \cup {c} /\ c \notin Seen(t)
        /\ queue'[t] = Append(queue[t], c) /\ inflight[t] >= MaxInflight
    BY <1>0, <1>3 DEF AcquireQueued, Holders, Seen
  <2>2. Cardinality(Holders(t)) = MaxInflight
    BY <1>0, <2>1, AdmissionAssumption
  <2>3. Tenant(t)!Join(c)
    BY <1>0, <2>1, <2>2 DEF Tenant!Join, Seen
  <2> QED BY <1>0, <2>3 DEF Tenant!Next
<1>4. CASE Enter(c)
  <2>1. UNCHANGED <<Holders(t), queue[t], Seen(t)>>
    BY <1>0, <1>4 DEF Enter, Holders, Seen
  <2> QED BY <1>0, <2>1, TenantStutters
<1>5. CASE Release(c) /\ phase[c] = "released"
  <2>1. UNCHANGED vars
    BY <1>5 DEF Release
  <2>2. UNCHANGED <<Holders(t), queue[t], Seen(t)>>
    BY <2>1 DEF vars, Holders, Seen
  <2> QED BY <1>0, <2>2, TenantStutters
<1>6. CASE Release(c) /\ phase[c] # "released"
  <2> DEFINE ph == [phase EXCEPT ![c] = "released"]
             h == Head(queue[t])
  <2>1. phase[c] \in {"granted", "inside"} /\ Serve(t, ph) /\ c \in Holders(t)
    BY <1>0, <1>6 DEF Release, Holders
  <2>2. ASSUME queue[t] = <<>> PROVE Tenant(t)!Pass(c)
    <3>1. phase' = ph /\ queue' = queue
      BY <2>1, <2>2 DEF Serve
    <3>2. Holders(t)' = Holders(t) \ {c} /\ Seen(t)' = Seen(t)
      BY <1>0, <2>1, <3>1 DEF Holders, Seen
    <3> QED BY <2>1, <2>2, <3>1, <3>2 DEF Tenant!Pass, Seen
  <2>3. ASSUME queue[t] # <<>> PROVE Tenant(t)!Pass(c)
    <3>1. phase' = [ph EXCEPT ![h] = "granted"] /\ queue' = [queue EXCEPT ![t] = Tail(@)]
      BY <2>1, <2>3 DEF Serve
    <3>2. h \in Calls /\ h \in ToSet(queue[t])
      BY <1>0, <2>3, ShiftLemma
    <3>3. TenantOf[h] = t /\ phase[h] = "waiting" /\ h # c
      BY <1>0, <2>1, <3>2
    <3>4. queue'[t] = Tail(queue[t])
      BY <1>0, <3>1
    <3> HIDE DEF h
    <3>5. Holders(t)' = (Holders(t) \ {c}) \cup {h} /\ Seen(t)' = Seen(t)
      BY <1>0, <2>1, <3>1, <3>2, <3>3 DEF Holders, Seen
    <3> QED BY <2>1, <2>3, <3>4, <3>5 DEF Tenant!Pass, Seen, h
  <2>4. Tenant(t)!Pass(c)
    BY <2>2, <2>3
  <2> QED BY <1>0, <2>4 DEF Tenant!Next
<1>7. CASE c \in armed /\ Cancel(c)
  <2>1. phase[c] = "waiting" /\ c \in ToSet(queue[t])
    BY <1>0, <1>7 DEF AdmissionInv, ArmedIsPending
  <2> DEFINE q == queue[t]
  <2> HIDE DEF q
  <2>0. q \in Seq(Calls) /\ IsInjective(q) /\ c \in ToSet(q)
    BY <1>0, <2>1 DEF q
  <2>2. PICK k \in 1..Len(q) : q[k] = c /\ RemoveFirst(q, c) = RemoveAt(q, k)
    BY <2>0, SpliceLemma
  <2>3. queue'[t] = RemoveAt(queue[t], k) /\ k \in 1..Len(queue[t]) /\ queue[t][k] = c
    BY <1>0, <1>7, <2>2 DEF Cancel, q
  <2>4. Holders(t)' = Holders(t) /\ Seen(t)' = Seen(t)
    BY <1>0, <1>7, <2>1 DEF Cancel, Holders, Seen
  <2>5. Tenant(t)!Leave(c)
    BY <2>3, <2>4 DEF RemoveAt, Tenant!Leave, Seen
  <2> QED BY <1>0, <2>5 DEF Tenant!Next
<1>8. CASE UNCHANGED <<queue, phase>>
  <2>1. UNCHANGED <<Holders(t), queue[t], Seen(t)>>
    BY <1>8 DEF Holders, Seen
  <2> QED BY <1>0, <2>1, TenantStutters
<1> QED BY <1>1, <1>2, <1>3, <1>4, <1>5, <1>6, <1>7, <1>8 DEF Timeout, Abort

\* What a call does is no step of the semaphore of another tenant.
LEMMA OtherTenants ==
  ASSUME AdmissionInv, NEW c \in Calls, NEW t \in Tenants, t # TenantOf[c],
         \/ AcquireFree(c) \/ AcquireAborted(c) \/ AcquireQueued(c)
         \/ Enter(c) \/ Release(c) \/ Timeout(c) \/ Abort(c)
  PROVE  UNCHANGED Tenant(t)!vars
<1>1. /\ phase \in [Calls -> Phases] /\ queue \in [Tenants -> Seq(Calls)]
      /\ TenantOf[c] \in Tenants
  BY AdmissionAssumption DEF AdmissionInv, TypeOK
<1>2. CASE Release(c) /\ phase[c] # "released" /\ queue[TenantOf[c]] # <<>>
  <2> DEFINE h == Head(queue[TenantOf[c]])
  <2>1. /\ phase' = [[phase EXCEPT ![c] = "released"] EXCEPT ![h] = "granted"]
        /\ queue' = [queue EXCEPT ![TenantOf[c]] = Tail(@)]
    BY <1>2 DEF Release, Serve
  <2>2. h \in Calls /\ TenantOf[h] = TenantOf[c]
    <3>1. h \in ToSet(queue[TenantOf[c]])
      BY <1>1, <1>2, ShiftLemma DEF AdmissionInv, QueueIsPending
    <3> QED BY <1>1, <3>1 DEF AdmissionInv, QueueIsPending
  <2> HIDE DEF h
  <2>3. UNCHANGED <<Holders(t), queue[t], Seen(t)>>
    BY <1>1, <2>1, <2>2 DEF Holders, Seen
  <2> QED BY <2>3, TenantStutters
<1>3. CASE ~(Release(c) /\ phase[c] # "released" /\ queue[TenantOf[c]] # <<>>)
  <2>1. \/ UNCHANGED <<phase, queue>>
        \/ /\ \A d \in Calls \ {c} : phase'[d] = phase[d]
           /\ queue'[t] = queue[t]
    BY <1>1, <1>3 DEF AcquireFree, AcquireAborted, AcquireQueued, Enter, Release, Serve,
       Timeout, Abort, Cancel, vars
  <2>2. UNCHANGED <<Holders(t), queue[t], Seen(t)>>
    BY <2>1 DEF Holders, Seen
  <2> QED BY <2>2, TenantStutters
<1> QED BY <1>2, <1>3

\* Each tenant sees a FIFO semaphore of its own: each step of the controller is,
\* for every tenant at once, a step of its semaphore or none.
THEOREM AdmissionRefinement == Spec => Refinement
<1>1. Init => \A t \in Tenants : Tenant(t)!Init
  BY DEF Init, Tenant!Init, Holders
<1>2. AdmissionInv /\ [Next]_vars
        => [\A t \in Tenants : [Tenant(t)!Next]_(Tenant(t)!vars)]_vars
  <2> SUFFICES ASSUME AdmissionInv, Next, NEW t \in Tenants
               PROVE  Tenant(t)!Next \/ UNCHANGED Tenant(t)!vars
    OBVIOUS
  <2>1. PICK c \in Calls : \/ AcquireFree(c) \/ AcquireAborted(c) \/ AcquireQueued(c)
                           \/ Enter(c) \/ Release(c) \/ Timeout(c) \/ Abort(c)
    BY DEF Next
  <2>2. CASE t = TenantOf[c]
    BY <2>1, <2>2, OwnTenant
  <2>3. CASE t # TenantOf[c]
    BY <2>1, <2>3, OtherTenants
  <2> QED BY <2>2, <2>3
<1> QED BY <1>1, <1>2, AdmissionInvariance, PTL DEF Spec, Refinement

-----------------------------------------------------------------------------
(***************************************************************************)
(* The fallback adapter, for any adapters and any maxFailures: every       *)
(* switch is paid for.                                                     *)
(***************************************************************************)
Types == /\ current \in 1..Adapters
         /\ failures \in Nat
         /\ call \in [ChatCalls -> Doing]
         /\ failed \in [1..Adapters -> Nat]
         /\ \A c \in ChatCalls : call[c].at \in {"asking", "queued"} => call[c].on \in 1..Adapters

Queued == {c \in ChatCalls : call[c].at = "queued"}
LineInv == line \in Seq(ChatCalls) /\ IsInjective(line) /\ ToSet(line) = Queued

\* The failures of an adapter that wait in the line, and those in the count.
Unpaid(a) == {c \in Queued : ~call[c].good /\ call[c].on = a}
Charged(a) == IF a = current THEN failures ELSE 0

\* A failure is in the line or in the count, and in neither place twice: what is
\* charged to an adapter, or about to be, has failed on that adapter.
Ledger == \A a \in 1..Adapters : /\ IsFiniteSet(Unpaid(a))
                                 /\ Charged(a) + Cardinality(Unpaid(a)) <= failed[a]

FallbackInv == Types /\ LineInv /\ Ledger /\ SwitchPaid

\* Nothing has failed at the start.
LEMMA FallbackStart == FallbackInit => FallbackInv
<1> SUFFICES ASSUME FallbackInit PROVE FallbackInv
  OBVIOUS
<1>1. call \in [ChatCalls -> Doing]
  BY FallbackAssumption DEF FallbackInit, Doing
<1>2. \A c \in ChatCalls : call[c].at = "new"
  BY DEF FallbackInit
<1>3. Queued = {} /\ \A a \in 1..Adapters : Unpaid(a) = {}
  BY <1>2 DEF Queued, Unpaid
<1>4. Types
  BY <1>1, <1>2, FallbackAssumption DEF FallbackInit, Types
<1>5. LineInv
  BY <1>3, NoneLemma DEF FallbackInit, LineInv
<1>6. Ledger
  <2> SUFFICES ASSUME NEW a \in 1..Adapters
               PROVE  IsFiniteSet(Unpaid(a)) /\ Charged(a) + Cardinality(Unpaid(a)) <= failed[a]
    BY DEF Ledger
  <2>1. IsFiniteSet(Unpaid(a)) /\ Cardinality(Unpaid(a)) = 0
    BY <1>3, FS_EmptySet
  <2>2. Charged(a) = 0 /\ failed[a] = 0
    BY DEF FallbackInit, Charged
  <2> QED BY <2>1, <2>2
<1>7. SwitchPaid
  BY FallbackAssumption DEF FallbackInit, SwitchPaid
<1> QED BY <1>4, <1>5, <1>6, <1>7 DEF FallbackInv

\* A call that is in the line neither before nor after a step changes nothing.
LEMMA AsideKeeps ==
  ASSUME FallbackInv, NEW c \in ChatCalls, c \notin Queued, NEW now \in Doing,
         now.at # "queued", now.at = "asking" => now.on \in 1..Adapters,
         call' = [call EXCEPT ![c] = now], UNCHANGED <<current, failures, line, failed>>
  PROVE  FallbackInv'
<1>1. /\ call' \in [ChatCalls -> Doing] /\ call'[c] = now
      /\ \A d \in ChatCalls \ {c} : call'[d] = call[d]
  BY DEF FallbackInv, Types
<1>2. Queued' = Queued
  BY <1>1 DEF Queued
<1>3. \A a \in 1..Adapters : Unpaid(a)' = Unpaid(a)
  BY <1>1, <1>2 DEF Unpaid, Queued
<1>4. Types'
  BY <1>1 DEF FallbackInv, Types
<1>5. LineInv'
  BY <1>2 DEF FallbackInv, LineInv
<1>6. Ledger'
  BY <1>3 DEF FallbackInv, Ledger, Charged
<1> QED BY <1>4, <1>5, <1>6 DEF FallbackInv, SwitchPaid

\* A call that reports joins the line; a failure is counted for its adapter.
LEMMA ReportKeeps ==
  ASSUME FallbackInv, NEW c \in ChatCalls, c \notin Queued, NEW now \in Doing,
         now.on \in 1..Adapters, NEW ok \in BOOLEAN, Report(c, now, ok),
         UNCHANGED <<current, failures>>
  PROVE  FallbackInv'
<1> DEFINE new == [now EXCEPT !.at = "queued", !.good = ok]
<1>1. new \in Doing /\ new.at = "queued" /\ new.on = now.on /\ (new.good <=> ok)
  BY DEF Doing
<1>2. /\ call' = [call EXCEPT ![c] = new] /\ line' = Append(line, c)
      /\ failed' = IF ok THEN failed ELSE [failed EXCEPT ![now.on] = @ + 1]
  BY DEF Report
<1> HIDE DEF new
<1>3. /\ call' \in [ChatCalls -> Doing] /\ call'[c] = new
      /\ \A d \in ChatCalls \ {c} : call'[d] = call[d]
  BY <1>1, <1>2 DEF FallbackInv, Types
<1>4. Queued' = Queued \cup {c}
  BY <1>1, <1>3 DEF Queued
<1>5. LineInv'
  BY <1>2, <1>4, PushLemma DEF FallbackInv, LineInv
<1>6. failed' \in [1..Adapters -> Nat] /\ \A a \in 1..Adapters :
        failed'[a] = IF ~ok /\ a = now.on THEN failed[a] + 1 ELSE failed[a]
  BY <1>2 DEF FallbackInv, Types
<1>7. Types'
  BY <1>1, <1>3, <1>6 DEF FallbackInv, Types
<1>8. \A a \in 1..Adapters : Unpaid(a)' = IF ~ok /\ a = now.on THEN Unpaid(a) \cup {c}
                                                               ELSE Unpaid(a)
  BY <1>1, <1>3, <1>4 DEF Unpaid, Queued
<1>9. Ledger'
  <2> SUFFICES ASSUME NEW a \in 1..Adapters
               PROVE  /\ IsFiniteSet(Unpaid(a)')
                      /\ Charged(a) + Cardinality(Unpaid(a)') <= failed'[a]
    BY DEF Ledger, Charged
  <2>1. /\ IsFiniteSet(Unpaid(a)) /\ Cardinality(Unpaid(a)) \in Nat
        /\ Charged(a) \in Nat /\ failed[a] \in Nat
        /\ Charged(a) + Cardinality(Unpaid(a)) <= failed[a]
    BY FS_CardinalityType DEF FallbackInv, Ledger, Types, Charged
  <2>2. c \notin Unpaid(a)
    BY DEF Unpaid
  <2>3. CASE ~ok /\ a = now.on
    <3>1. /\ IsFiniteSet(Unpaid(a) \cup {c})
          /\ Cardinality(Unpaid(a) \cup {c}) = Cardinality(Unpaid(a)) + 1
      BY <2>1, <2>2, FS_AddElement
    <3>2. Unpaid(a)' = Unpaid(a) \cup {c} /\ failed'[a] = failed[a] + 1
      BY <1>6, <1>8, <2>3
    <3> QED BY <2>1, <3>1, <3>2
  <2>4. CASE ~(~ok /\ a = now.on)
    BY <1>6, <1>8, <2>1, <2>4
  <2> QED BY <2>3, <2>4
<1>10. SwitchPaid'
  <2> SUFFICES ASSUME NEW a \in 1..Adapters, a < current PROVE failed'[a] >= MaxFailures
    BY DEF SwitchPaid
  <2>1. failed[a] \in Nat /\ failed[a] >= MaxFailures
    BY DEF FallbackInv, Types, SwitchPaid
  <2>2. failed'[a] = failed[a] \/ failed'[a] = failed[a] + 1
    BY <1>6
  <2> QED BY <2>1, <2>2, FallbackAssumption
<1> QED BY <1>5, <1>7, <1>9, <1>10 DEF FallbackInv

\* One turn of the loop, of a call that is not in the line.
LEMMA AttemptKeeps ==
  ASSUME FallbackInv, NEW c \in ChatCalls, c \notin Queued, NEW kind \in {"chat", "stream"},
         NEW n \in 0..Adapters, Attempt(c, kind, n), UNCHANGED <<current, failures>>
  PROVE  FallbackInv'
<1> DEFINE now == [at |-> "asking", kind |-> kind, on |-> current, try |-> n, good |-> FALSE]
<1>1. now \in Doing /\ now.at = "asking" /\ now.on \in 1..Adapters
  BY FallbackAssumption DEF FallbackInv, Types, Doing
<1>2. \/ Settle(c, now) \/ Report(c, now, FALSE)
      \/ call' = [call EXCEPT ![c] = now] /\ UNCHANGED <<line, failed>>
  BY DEF Attempt
<1> HIDE DEF now
<1>3. CASE Settle(c, now)
  <2>1. [now EXCEPT !.at = "done"] \in Doing /\ [now EXCEPT !.at = "done"].at = "done"
    BY <1>1 DEF Doing
  <2> QED BY <1>3, <2>1, AsideKeeps DEF Settle
<1>4. CASE Report(c, now, FALSE)
  BY <1>1, <1>4, ReportKeeps
<1>5. CASE call' = [call EXCEPT ![c] = now] /\ UNCHANGED <<line, failed>>
  BY <1>1, <1>5, AsideKeeps
<1> QED BY <1>2, <1>3, <1>4, <1>5
\* The section of the lock's owner: a failure moves from the line to the count, or
\* is dropped because its adapter was left, and the count empties with a switch.
LEMMA SectionKeeps == ASSUME FallbackInv, Section PROVE FallbackInv'
<1> DEFINE h == Head(line)
           now == [call[h] EXCEPT !.at = "back"]
<1>1. line # <<>> /\ line' = Tail(line) /\ call' = [call EXCEPT ![h] = now] /\ failed' = failed
  BY DEF Section
<1>2. \/ call[h].good /\ failures' = 0 /\ current' = current
      \/ ~call[h].good /\ call[h].on = current /\ Count
      \/ ~call[h].good /\ call[h].on # current /\ failures' = failures /\ current' = current
  BY DEF Section
<1>3. /\ h \in ChatCalls /\ h \in Queued /\ line' \in Seq(ChatCalls) /\ IsInjective(line')
      /\ ToSet(line') = Queued \ {h}
  BY <1>1, ShiftLemma DEF FallbackInv, LineInv
<1>4. now \in Doing /\ now.at = "back"
  BY <1>3 DEF Doing, FallbackInv, Types
<1> HIDE DEF h, now
<1>5. /\ call' \in [ChatCalls -> Doing] /\ call'[h] = now
      /\ \A d \in ChatCalls \ {h} : call'[d] = call[d]
  BY <1>1, <1>3, <1>4 DEF FallbackInv, Types
<1>6. Queued' = Queued \ {h}
  BY <1>4, <1>5 DEF Queued
<1>7. LineInv'
  BY <1>3, <1>6 DEF LineInv
<1>8. \A a \in 1..Adapters : Unpaid(a)' = Unpaid(a) \ {h}
  BY <1>5, <1>6 DEF Unpaid, Queued
<1>9. \A a \in 1..Adapters : /\ IsFiniteSet(Unpaid(a)) /\ IsFiniteSet(Unpaid(a)')
                             /\ Cardinality(Unpaid(a)) \in Nat /\ Cardinality(Unpaid(a)') \in Nat
                             /\ Cardinality(Unpaid(a)') <= Cardinality(Unpaid(a))
                             /\ h \in Unpaid(a) => Cardinality(Unpaid(a)')
                                                     = Cardinality(Unpaid(a)) - 1
  <2> SUFFICES ASSUME NEW a \in 1..Adapters
               PROVE  /\ IsFiniteSet(Unpaid(a)) /\ IsFiniteSet(Unpaid(a) \ {h})
                      /\ Cardinality(Unpaid(a)) \in Nat /\ Cardinality(Unpaid(a) \ {h}) \in Nat
                      /\ Cardinality(Unpaid(a) \ {h}) <= Cardinality(Unpaid(a))
                      /\ h \in Unpaid(a) => Cardinality(Unpaid(a) \ {h})
                                              = Cardinality(Unpaid(a)) - 1
    BY <1>8
  <2>1. IsFiniteSet(Unpaid(a))
    BY DEF FallbackInv, Ledger
  <2>2. IsFiniteSet(Unpaid(a) \ {h})
        /\ Cardinality(Unpaid(a) \ {h}) <= Cardinality(Unpaid(a))
    BY <2>1, FS_Subset
  <2>3. h \in Unpaid(a) => Cardinality(Unpaid(a) \ {h}) = Cardinality(Unpaid(a)) - 1
    BY <2>1, FS_RemoveElement
  <2> QED BY <2>1, <2>2, <2>3, FS_CardinalityType
<1>10. /\ current \in 1..Adapters /\ failures \in Nat /\ Adapters \in Nat
       /\ MaxFailures \in Nat
       /\ failed \in [1..Adapters -> Nat]
       /\ \A a \in 1..Adapters : Charged(a) + Cardinality(Unpaid(a)) <= failed[a]
       /\ \A a \in 1..Adapters : a < current => failed[a] >= MaxFailures
  BY FallbackAssumption DEF FallbackInv, Types, Ledger, SwitchPaid
<1>11. current' \in 1..Adapters /\ failures' \in Nat => Types'
  BY <1>1, <1>4, <1>5 DEF FallbackInv, Types
<1>12. CASE failures' \in {0, failures} /\ current' = current
  <2>1. Ledger'
    BY <1>1, <1>9, <1>10, <1>12 DEF Ledger, Charged
  <2> QED BY <1>1, <1>7, <1>10, <1>11, <1>12, <2>1 DEF FallbackInv, SwitchPaid
<1>13. CASE ~call[h].good /\ call[h].on = current /\ Count
  <2> PICK b \in 1..Adapters : b = current
    BY <1>10
  <2>1. h \in Unpaid(b)
    BY <1>3, <1>13 DEF Unpaid
  <2>2. /\ Cardinality(Unpaid(b)') = Cardinality(Unpaid(b)) - 1
        /\ Cardinality(Unpaid(b)') \in Nat /\ Cardinality(Unpaid(b)) \in Nat
        /\ failed[b] \in Nat
    BY <1>9, <1>10, <2>1
  <2>3. failures + Cardinality(Unpaid(b)) <= failed[b]
    BY <1>10 DEF Charged
  <2>4. CASE failures + 1 >= MaxFailures /\ current < Adapters
    <3>1. current' = current + 1 /\ failures' = 0
      BY <1>13, <2>4 DEF Count
    <3>2. Ledger'
      <4> SUFFICES ASSUME NEW a \in 1..Adapters
                   PROVE  /\ IsFiniteSet(Unpaid(a)')
                          /\ Charged(a)' + Cardinality(Unpaid(a)') <= failed[a]
        BY <1>1 DEF Ledger
      <4>1. Charged(a)' = 0
        BY <3>1 DEF Charged
      <4>2. Charged(a) \in Nat
        BY <1>10 DEF Charged
      <4>3. /\ Charged(a) + Cardinality(Unpaid(a)) <= failed[a]
            /\ failed[a] \in Nat
        BY <1>10
      <4> QED BY <1>9, <4>1, <4>2, <4>3
    <3>3. failed[b] >= MaxFailures
      BY <1>10, <2>2, <2>3, <2>4
    <3>4. SwitchPaid'
      BY <1>1, <1>10, <3>1, <3>3 DEF SwitchPaid
    <3>5. Types'
      BY <1>10, <1>11, <2>4, <3>1
    <3> QED BY <1>7, <3>2, <3>4, <3>5 DEF FallbackInv
  <2>5. CASE ~(failures + 1 >= MaxFailures /\ current < Adapters)
    <3>1. current' = current /\ failures' = failures + 1
      BY <1>13, <2>5 DEF Count
    <3>2. Ledger'
      <4> SUFFICES ASSUME NEW a \in 1..Adapters
                   PROVE  /\ IsFiniteSet(Unpaid(a)')
                          /\ Charged(a)' + Cardinality(Unpaid(a)') <= failed[a]
        BY <1>1 DEF Ledger
      <4>1. CASE a = b
        BY <1>9, <1>10, <2>2, <2>3, <3>1, <4>1 DEF Charged
      <4>2. CASE a # b
        BY <1>9, <1>10, <3>1, <4>2 DEF Charged
      <4> QED BY <4>1, <4>2
    <3>3. Types'
      BY <1>10, <1>11, <3>1
    <3> QED BY <1>1, <1>7, <1>10, <3>1, <3>2, <3>3 DEF FallbackInv, SwitchPaid
  <2> QED BY <2>4, <2>5
<1> QED BY <1>2, <1>12, <1>13

\* Every step keeps the ledger, and with it what was paid for each switch.
LEMMA FallbackStep == FallbackInv /\ [FallbackNext]_fallbackVars => FallbackInv'
<1> SUFFICES ASSUME FallbackInv, [FallbackNext]_fallbackVars PROVE FallbackInv'
  OBVIOUS
<1>1. \A c \in ChatCalls : /\ call[c] \in Doing
                           /\ call[c].at # "queued" => c \notin Queued
                           /\ call[c].at = "asking" => call[c].on \in 1..Adapters
  BY DEF FallbackInv, Types, Queued
<1>2. \A c \in ChatCalls : /\ [call[c] EXCEPT !.at = "done"] \in Doing
                           /\ [call[c] EXCEPT !.at = "done"].at = "done"
  BY <1>1 DEF Doing
<1>3. ASSUME NEW c \in ChatCalls, Begin(c) PROVE FallbackInv'
  <2>1. PICK kind \in {"chat", "stream"} : Attempt(c, kind, 1)
    BY <1>3 DEF Begin
  <2>2. 1 \in 0..Adapters
    BY FallbackAssumption
  <2>3. c \notin Queued /\ UNCHANGED <<current, failures>>
    BY <1>1, <1>3 DEF Begin
  <2> QED BY <2>1, <2>2, <2>3, AttemptKeeps
<1>4. ASSUME NEW c \in ChatCalls, Succeed(c) \/ Fail(c) PROVE FallbackInv'
  <2>1. call[c].at = "asking" /\ UNCHANGED <<current, failures>>
        /\ (Report(c, call[c], TRUE) \/ Report(c, call[c], FALSE))
    BY <1>4 DEF Succeed, Fail
  <2> QED BY <1>1, <2>1, ReportKeeps
<1>5. ASSUME NEW c \in ChatCalls, Close(c) PROVE FallbackInv'
  BY <1>1, <1>2, <1>5, AsideKeeps DEF Close, Settle
<1>6. ASSUME NEW c \in ChatCalls, Resume(c) PROVE FallbackInv'
  <2>1. call[c].at = "back" /\ UNCHANGED <<current, failures>>
    BY <1>6 DEF Resume
  <2>2. CASE ~call[c].good /\ Again(c)
    <3>1. call[c].try \in 0..Adapters /\ call[c].kind \in {"chat", "stream"}
      BY <1>1 DEF Doing
    <3>2. call[c].try + 1 \in 0..Adapters
      BY <2>2, <3>1, FallbackAssumption DEF Again
    <3>3. Attempt(c, call[c].kind, call[c].try + 1)
      BY <1>6, <2>2 DEF Resume
    <3> QED BY <1>1, <2>1, <3>1, <3>2, <3>3, AttemptKeeps
  <2>3. CASE ~(~call[c].good /\ Again(c))
    <3>1. Settle(c, call[c])
      BY <1>6, <2>3 DEF Resume
    <3> QED BY <1>1, <1>2, <2>1, <3>1, AsideKeeps DEF Settle
  <2> QED BY <2>2, <2>3
<1>7. CASE Section
  BY <1>7, SectionKeeps
<1>8. CASE UNCHANGED fallbackVars
  BY <1>8 DEF fallbackVars, FallbackInv, Types, LineInv, Ledger, SwitchPaid, Queued, Unpaid, Charged
<1> QED BY <1>3, <1>4, <1>5, <1>6, <1>7, <1>8 DEF FallbackNext

\* The invariant holds in every reachable state.
THEOREM FallbackInvariance == FallbackSpec => []FallbackInv
  BY FallbackStart, FallbackStep, PTL DEF FallbackSpec

\* The state is well typed.
THEOREM FallbackTypeOK == FallbackSpec => []FallbackTypes
<1>1. FallbackInv => FallbackTypes
  BY DEF FallbackInv, Types, LineInv, FallbackTypes
<1> QED BY <1>1, FallbackInvariance, PTL

\* Every switch is paid by maxFailures failures of the adapter that was left.
THEOREM FallbackSwitchPaid == FallbackSpec => []SwitchPaid
<1>1. FallbackInv => SwitchPaid
  BY DEF FallbackInv
<1> QED BY <1>1, FallbackInvariance, PTL
=============================================================================
