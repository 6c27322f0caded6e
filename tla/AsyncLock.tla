------------------------------ MODULE AsyncLock ------------------------------
(***************************************************************************)
(* infra/async-lock.ts: the mutex every await-spanning critical section of *)
(* the core package uses. JavaScript runs each handler to completion, so   *)
(* one action is one synchronous segment: an acquire() call, the call of a *)
(* release closure, an abort event, dispose(), and the resumption of a     *)
(* withLock() caller whose promise was resolved in an earlier segment.     *)
(***************************************************************************)
EXTENDS Naturals, Sequences, SequencesExt

CONSTANTS Requests,     \* acquire() calls; each is made at most once
          Abortable     \* those that pass an AbortSignal

ASSUME AbortableAssumption == Abortable \subseteq Requests

VARIABLES held,         \* `held`
          disposed,     \* `disposed`
          queue,        \* `queue`: the waiters, oldest first
          phase,        \* how far each acquire() call is
          fired,        \* signals that have aborted
          listening     \* requests whose onAbort is registered on their signal

lockVars == <<held, disposed, queue>>
vars == <<held, disposed, queue, phase, fired, listening>>

\* "new": not called. "waiting": its promise is pending. "granted": the promise
\* is resolved, the caller has not resumed. "inside": withLock runs fn().
\* "released": its closure ran. "rejected": acquire() threw or rejected.
Phases == {"new", "waiting", "granted", "inside", "released", "rejected"}

TypeOK == /\ held \in BOOLEAN
          /\ disposed \in BOOLEAN
          /\ queue \in Seq(Requests)
          /\ phase \in [Requests -> Phases]
          /\ fired \in SUBSET Abortable
          /\ listening \in SUBSET Abortable

Owners == {r \in Requests : phase[r] \in {"granted", "inside"}}

Init == /\ held = FALSE
        /\ disposed = FALSE
        /\ queue = <<>>
        /\ phase = [r \in Requests |-> "new"]
        /\ fired = {}
        /\ listening = {}

-----------------------------------------------------------------------------
\* acquire(): disposed, then an aborted signal, then the free lock, then the queue.
AcquireRefused(r) == /\ phase[r] = "new"
                     /\ disposed \/ r \in fired
                     /\ phase' = [phase EXCEPT ![r] = "rejected"]
                     /\ UNCHANGED <<lockVars, fired, listening>>

AcquireFree(r) == /\ phase[r] = "new"
                  /\ ~disposed /\ r \notin fired
                  /\ ~held
                  /\ held' = TRUE
                  /\ phase' = [phase EXCEPT ![r] = "granted"]
                  /\ UNCHANGED <<disposed, queue, fired, listening>>

AcquireQueued(r) == /\ phase[r] = "new"
                    /\ ~disposed /\ r \notin fired
                    /\ held
                    /\ queue' = Append(queue, r)
                    /\ phase' = [phase EXCEPT ![r] = "waiting"]
                    /\ listening' = listening \cup ({r} \cap Abortable)
                    /\ UNCHANGED <<held, disposed, fired>>

\* withLock(): the continuation after `await acquire()` starts fn().
Enter(r) == /\ phase[r] = "granted"
            /\ phase' = [phase EXCEPT ![r] = "inside"]
            /\ UNCHANGED <<lockVars, fired, listening>>

\* Mutant: handoff() pops the newest waiter.
HandoffNewest(ph) ==
  \/ /\ queue # <<>>
     /\ held' = TRUE
     /\ queue' = Front(queue)
     /\ phase' = [ph EXCEPT ![Last(queue)] = "granted"]
     /\ listening' = listening \ {Last(queue)}
  \/ /\ queue = <<>>
     /\ held' = FALSE
     /\ phase' = ph
     /\ UNCHANGED <<queue, listening>>

\* handoff(), with `ph` the phases after the release: the head of the queue
\* owns the lock before any other code runs, and drops its abort listener.
Handoff(ph) ==
  \/ /\ queue # <<>>
     /\ held' = TRUE
     /\ queue' = Tail(queue)
     /\ phase' = [ph EXCEPT ![Head(queue)] = "granted"]
     /\ listening' = listening \ {Head(queue)}
  \/ /\ queue = <<>>
     /\ held' = FALSE
     /\ phase' = ph
     /\ UNCHANGED <<queue, listening>>

\* Mutant: the closure frees the lock without calling handoff().
ReleaseNoHandoff(r) == /\ phase[r] \in {"granted", "inside"}
                       /\ held' = FALSE
                       /\ phase' = [phase EXCEPT ![r] = "released"]
                       /\ UNCHANGED <<disposed, queue, fired, listening>>

\* The closure may be called twice; its `released` flag makes the second call
\* do nothing.
Release(r) ==
  \/ /\ phase[r] \in {"granted", "inside"}
     /\ Handoff([phase EXCEPT ![r] = "released"])
     /\ UNCHANGED <<disposed, fired>>
  \/ /\ phase[r] = "released"
     /\ UNCHANGED vars

\* The signal of r aborts: a registered onAbort leaves the queue and rejects.
Abort(r) == /\ r \in Abortable \ fired
            /\ fired' = fired \cup {r}
            /\ queue' = IF r \in listening THEN RemoveFirst(queue, r) ELSE queue
            /\ phase' = IF r \in listening /\ phase[r] = "waiting"
                          THEN [phase EXCEPT ![r] = "rejected"] ELSE phase
            /\ listening' = listening \ {r}
            /\ UNCHANGED <<held, disposed>>

\* Mutant: dispose() does not detach the listeners.
DisposeListening == /\ disposed' = TRUE
                    /\ queue' = <<>>
                    /\ phase' = [r \in Requests |->
                                   IF r \in ToSet(queue)
                                     THEN "rejected" ELSE phase[r]]
                    /\ UNCHANGED <<held, fired, listening>>

\* dispose(): every waiter is rejected and stops listening; the owner stays.
Dispose == /\ disposed' = TRUE
           /\ queue' = <<>>
           /\ phase' = [r \in Requests |->
                          IF r \in ToSet(queue)
                            THEN "rejected" ELSE phase[r]]
           /\ listening' = {r \in listening : r \notin ToSet(queue)}
           /\ UNCHANGED <<held, fired>>

Next == \/ \E r \in Requests :
             \/ AcquireRefused(r) \/ AcquireFree(r) \/ AcquireQueued(r)
             \/ Enter(r) \/ Release(r) \/ Abort(r)
        \/ Dispose

\* withLock() resumes its caller, and its `finally` releases once fn() settles.
Fairness == \A r \in Requests : WF_vars(Enter(r)) /\ WF_vars(Release(r))

Spec == Init /\ [][Next]_vars
FairSpec == Spec /\ Fairness

-----------------------------------------------------------------------------
\* Two critical sections never overlap, whatever releases, aborts and disposal
\* come between (the reason of withLock).
MutualExclusion == \A r, s \in Owners : r = s

\* `held` tells the truth: it is set exactly while somebody owns the lock, so
\* no abort or disposal leaves the lock taken by nobody or free with an owner.
HeldIffOwned == held <=> Owners # {}

\* No lost wake-up: a waiter in the queue has an owner ahead of it, whose
\* release will hand the lock over; and the queue holds exactly the calls whose
\* promise is pending, each once.
NoLostWakeup == /\ queue # <<>> => held
                /\ \A r \in Requests :
                     phase[r] = "waiting" <=> r \in ToSet(queue)
                /\ IsInjective(queue)

\* No accumulation of abort listeners (the comment in onAbort): a listener is
\* registered exactly for the abortable calls still in the queue.
ListenersAreWaiters == listening = {r \in Abortable : phase[r] = "waiting"}

\* No barging: when a step makes r the owner, either nobody was waiting or r
\* was the head of the queue.
NoBarging ==
  [][\A r \in Requests : r \in Owners' \ Owners => \/ queue = <<>>
                                                   \/ r = Head(queue)]_vars

\* Every queued caller is eventually granted or rejected.
WaitersSettle == \A r \in Requests : phase[r] = "waiting" ~> phase[r] # "waiting"

\* The code implements a FIFO semaphore of one unit.
Abstract == INSTANCE FifoSemaphore WITH
  Capacity <- 1, owners <- Owners, line <- queue,
  seen <- {r \in Requests : phase[r] # "new"}, closed <- disposed
Refinement == Abstract!Spec
=============================================================================
