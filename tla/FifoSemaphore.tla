---------------------------- MODULE FifoSemaphore ----------------------------
(***************************************************************************)
(* What infra/async-lock.ts (Capacity = 1) and one tenant of               *)
(* infra/admission-controller.ts promise, without their promises, flags,   *)
(* timers and listeners: at most Capacity owners, a line served in order   *)
(* of arrival that a waiter may leave, and a closing that sends the whole  *)
(* line away.                                                              *)
(***************************************************************************)
EXTENDS Naturals, Sequences, FiniteSets

CONSTANTS Requests,     \* the acquire() calls
          Capacity      \* how many may own the resource at once

VARIABLES owners,       \* the requests that own a unit of the resource
          line,         \* the requests that wait, oldest first
          seen,         \* the requests that have been answered or queued
          closed        \* disposed: the line has been sent away

vars == <<owners, line, seen, closed>>

Init == owners = {} /\ line = <<>> /\ seen = {} /\ closed = FALSE

\* A unit is free and nobody waits: the newcomer owns it.
Take(r) == /\ r \notin seen /\ ~closed
           /\ Cardinality(owners) < Capacity /\ line = <<>>
           /\ owners' = owners \cup {r} /\ seen' = seen \cup {r}
           /\ UNCHANGED <<line, closed>>

\* Every unit is owned: the newcomer goes to the end of the line.
Join(r) == /\ r \notin seen /\ ~closed
           /\ Cardinality(owners) = Capacity
           /\ line' = Append(line, r) /\ seen' = seen \cup {r}
           /\ UNCHANGED <<owners, closed>>

Refuse(r) == /\ r \notin seen
             /\ seen' = seen \cup {r}
             /\ UNCHANGED <<owners, line, closed>>

\* An owner gives its unit to the oldest waiter, or back.
Pass(o) == /\ o \in owners
           /\ owners' = (owners \ {o}) \cup (IF line = <<>> THEN {} ELSE {Head(line)})
           /\ line' = IF line = <<>> THEN line ELSE Tail(line)
           /\ UNCHANGED <<seen, closed>>

\* A waiter gives up its place.
Leave(r) == /\ \E k \in 1..Len(line) :
                 /\ line[k] = r
                 /\ line' = SubSeq(line, 1, k - 1) \o SubSeq(line, k + 1, Len(line))
            /\ UNCHANGED <<owners, seen, closed>>

Close == closed' = TRUE /\ line' = <<>> /\ UNCHANGED <<owners, seen>>

Next == \/ \E r \in Requests : Take(r) \/ Join(r) \/ Refuse(r) \/ Pass(r) \/ Leave(r)
        \/ Close

Spec == Init /\ [][Next]_vars
=============================================================================
