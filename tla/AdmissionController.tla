------------------------ MODULE AdmissionController ------------------------
(***************************************************************************)
(* infra/admission-controller.ts: at most maxInflight permits per tenant,  *)
(* a queue of grant callbacks per tenant, and timeouts and abort signals   *)
(* that take a waiter out of its queue. One action is one synchronous      *)
(* segment of the event loop.                                              *)
(***************************************************************************)
EXTENDS Integers, Sequences, FiniteSets, SequencesExt

CONSTANTS Calls,        \* acquire() calls; each is made at most once
          Tenants,
          TenantOf,     \* the tenantId each call passes
          Abortable,    \* calls that pass an AbortSignal
          Timed,        \* calls whose timeoutMs is not negative
          MaxInflight

ASSUME AdmissionAssumption == /\ TenantOf \in [Calls -> Tenants]
                              /\ Abortable \subseteq Calls
                              /\ Timed \subseteq Calls
                              /\ MaxInflight \in Nat \ {0}

VARIABLES inflight,     \* TenantState.inflight
          queue,        \* TenantState.queue: the grants of waiting calls
          phase,        \* how far each call is
          fired,        \* signals that have aborted
          armed         \* waiting calls whose timer and abort listener are set

vars == <<inflight, queue, phase, fired, armed>>

\* "granted": the promise is resolved with a permit, the caller has not resumed.
\* "inside": withPermit runs fn(). "released": the permit was given back.
Phases == {"new", "waiting", "granted", "inside", "released", "rejected"}

TypeOK == /\ inflight \in [Tenants -> Nat]
          /\ queue \in [Tenants -> Seq(Calls)]
          /\ phase \in [Calls -> Phases]
          /\ fired \in SUBSET Abortable
          /\ armed \in SUBSET Calls

\* The calls that hold a permit of tenant t.
Holders(t) == {c \in Calls : TenantOf[c] = t /\ phase[c] \in {"granted", "inside"}}

Init == /\ inflight = [t \in Tenants |-> 0]
        /\ queue = [t \in Tenants |-> <<>>]
        /\ phase = [c \in Calls |-> "new"]
        /\ fired = {}
        /\ armed = {}

-----------------------------------------------------------------------------
\* Mutant: the limit is off by one.
AcquireFreeOver(c) ==
  LET t == TenantOf[c]
  IN /\ phase[c] = "new"
     /\ inflight[t] <= MaxInflight
     /\ inflight' = [inflight EXCEPT ![t] = @ + 1]
     /\ phase' = [phase EXCEPT ![c] = "granted"]
     /\ UNCHANGED <<queue, fired, armed>>

\* acquire() with a free permit: the signal is not even looked at.
AcquireFree(c) ==
  LET t == TenantOf[c]
  IN /\ phase[c] = "new"
     /\ inflight[t] < MaxInflight
     /\ inflight' = [inflight EXCEPT ![t] = @ + 1]
     /\ phase' = [phase EXCEPT ![c] = "granted"]
     /\ UNCHANGED <<queue, fired, armed>>

\* acquire() without one: an aborted signal rejects, any other call is queued.
AcquireAborted(c) == /\ phase[c] = "new"
                     /\ inflight[TenantOf[c]] >= MaxInflight
                     /\ c \in fired
                     /\ phase' = [phase EXCEPT ![c] = "rejected"]
                     /\ UNCHANGED <<inflight, queue, fired, armed>>

AcquireQueued(c) ==
  LET t == TenantOf[c]
  IN /\ phase[c] = "new"
     /\ inflight[t] >= MaxInflight
     /\ c \notin fired
     /\ queue' = [queue EXCEPT ![t] = Append(@, c)]
     /\ phase' = [phase EXCEPT ![c] = "waiting"]
     /\ armed' = armed \cup {c}
     /\ UNCHANGED <<inflight, fired>>

\* withPermit(): the continuation after `await this.acquire()` starts fn().
Enter(c) == /\ phase[c] = "granted"
            /\ phase' = [phase EXCEPT ![c] = "inside"]
            /\ UNCHANGED <<inflight, queue, fired, armed>>

\* Mutant: the newest waiter is served.
ServeNewest(t, ph) ==
  \/ /\ queue[t] = <<>>
     /\ inflight' = [inflight EXCEPT ![t] = @ - 1]
     /\ phase' = ph
     /\ UNCHANGED <<queue, armed>>
  \/ /\ queue[t] # <<>>
     /\ queue' = [queue EXCEPT ![t] = Front(@)]
     /\ phase' = [ph EXCEPT ![Last(queue[t])] = "granted"]
     /\ armed' = armed \ {Last(queue[t])}
     /\ UNCHANGED inflight

\* What release() does after its flag, with `ph` the phases it leaves: inflight
\* drops, and the oldest grant of the tenant, if there is one, raises it again
\* in the same segment.
Serve(t, ph) ==
  \/ /\ queue[t] = <<>>
     /\ inflight' = [inflight EXCEPT ![t] = @ - 1]
     /\ phase' = ph
     /\ UNCHANGED <<queue, armed>>
  \/ /\ queue[t] # <<>>
     /\ queue' = [queue EXCEPT ![t] = Tail(@)]
     /\ phase' = [ph EXCEPT ![Head(queue[t])] = "granted"]
     /\ armed' = armed \ {Head(queue[t])}
     /\ UNCHANGED inflight

\* A permit's release(): its flag makes a second call do nothing.
Release(c) ==
  \/ /\ phase[c] \in {"granted", "inside"}
     /\ Serve(TenantOf[c], [phase EXCEPT ![c] = "released"])
     /\ UNCHANGED fired
  \/ /\ phase[c] = "released"
     /\ UNCHANGED vars

\* removeFromQueue() and settle(reject) of a waiting call.
Cancel(c) == /\ queue' = [queue EXCEPT ![TenantOf[c]] = RemoveFirst(@, c)]
             /\ phase' = [phase EXCEPT ![c] = "rejected"]
             /\ armed' = armed \ {c}

Timeout(c) == c \in armed \cap Timed /\ Cancel(c) /\ UNCHANGED <<inflight, fired>>

\* The signal of c aborts; only a waiting call has onAbort registered.
Abort(c) == /\ c \in Abortable \ fired
            /\ fired' = fired \cup {c}
            /\ \/ c \in armed /\ Cancel(c)
               \/ c \notin armed /\ UNCHANGED <<queue, phase, armed>>
            /\ UNCHANGED inflight

Next == \E c \in Calls :
          \/ AcquireFree(c) \/ AcquireAborted(c) \/ AcquireQueued(c)
          \/ Enter(c) \/ Release(c) \/ Timeout(c) \/ Abort(c)

\* withPermit() resumes, and its `finally` releases once fn() settles. Nothing
\* makes a timer or a signal fire.
Fairness == \A c \in Calls : WF_vars(Enter(c)) /\ WF_vars(Release(c))

Spec == Init /\ [][Next]_vars
FairSpec == Spec /\ Fairness

-----------------------------------------------------------------------------
\* The concurrency budget: `inflight` counts the permits that are out, and a
\* tenant never has more of them than maxInflight, whatever second releases,
\* timeouts and aborts do.
Budget == \A t \in Tenants : /\ inflight[t] = Cardinality(Holders(t))
                             /\ inflight[t] <= MaxInflight

\* No permit lies idle beside a waiter of its tenant.
NoIdlePermit == \A t \in Tenants : queue[t] # <<>> => inflight[t] = MaxInflight

\* A tenant's queue holds exactly its pending calls, each once: a call that
\* timed out or aborted is gone, so release() never grants to nobody.
QueueIsPending ==
  \A t \in Tenants : /\ IsInjective(queue[t])
                     /\ ToSet(queue[t]) =
                          {c \in Calls : TenantOf[c] = t /\ phase[c] = "waiting"}

\* A settled call leaves no timer and no abort listener behind.
ArmedIsPending == armed = {c \in Calls : phase[c] = "waiting"}

\* Every waiter is answered, without the help of any timeout, as long as the
\* holders of permits finish.
WaitersSettle == \A c \in Calls : phase[c] = "waiting" ~> phase[c] # "waiting"

\* Each tenant sees a FIFO semaphore of its own.
Tenant(t) == INSTANCE FifoSemaphore WITH
  Requests <- {c \in Calls : TenantOf[c] = t}, Capacity <- MaxInflight,
  owners <- Holders(t), line <- queue[t],
  seen <- {c \in Calls : TenantOf[c] = t /\ phase[c] # "new"}, closed <- FALSE
Refinement == /\ \A t \in Tenants : Tenant(t)!Init
              /\ [][\A t \in Tenants : [Tenant(t)!Next]_(Tenant(t)!vars)]_vars
=============================================================================
