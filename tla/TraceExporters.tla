--------------------------- MODULE TraceExporters ---------------------------
(***************************************************************************)
(* observe/trace-exporter-coordinator.ts with infra/lazy-async.ts: exports *)
(* and the lazy initialize() of each exporter run beside each other;       *)
(* flush() and dispose() wait for what is pending, up to a deadline, then  *)
(* flush the exporters, and dispose() shuts them down one after the other. *)
(* What initialize(), an export, flush() and shutdown() of an exporter do  *)
(* is external: each settles some time, or never.                          *)
(***************************************************************************)
EXTENDS Naturals, Sequences, FiniteSets, SequencesExt

CONSTANTS Exporters,  \* the configured exporters, in order
          Lazy,       \* those with an initialize()
          Drains,     \* the flush() and dispose() calls
          Disposes,   \* those of them that are dispose()
          MaxJobs,    \* bound: tracked promises ever
          MaxInits    \* bound: initialize() calls of one exporter

Jobs == 1..MaxJobs
All == {Exporters[i] : i \in 1..Len(Exporters)}

ASSUME ExportersAssumption == /\ Exporters \in Seq(All) /\ Lazy \subseteq All
                              /\ Disposes \subseteq Drains
                              /\ MaxJobs \in Nat /\ MaxInits \in Nat

VARIABLES lazy,       \* the cached promise of each exporter's lazy value, or 0
          inits,      \* initialize() calls made so far, per exporter
          running,    \* those in progress
          resets,     \* times the lazy values were dropped
          begun,      \* promises ever made
          job,        \* what each stands for
          pending,    \* `pendingExports`
          drain,      \* where each flush() or dispose() stands
          owed        \* the promises that were unsettled when it began, and still are

xvars == <<lazy, inits, running, resets, begun, job, pending, drain, owed>>

\* init: the initialize() it waits for, 0 if none; only an export goes out.
Promises == [to : All, init : 0..MaxInits, export : BOOLEAN,
             at : {"waiting", "out", "settled"}]

ExportersTypeOK ==
  /\ lazy \in [All -> 0..MaxInits] /\ inits \in [All -> 0..MaxInits]
  /\ running \subseteq (All \X (1..MaxInits))
  /\ resets \in Nat
  /\ begun \in 0..MaxJobs /\ pending \subseteq 1..begun
  /\ job \in Seq(Promises) /\ Len(job) = begun
  /\ drain \in [Drains -> [at : {"idle", "waiting", "flushing", "closing", "done"},
                           left : SUBSET (1..Len(Exporters)), late : BOOLEAN]]
  /\ owed \in [Drains -> SUBSET Jobs]

ExportersInit ==
  /\ lazy = [e \in All |-> 0]
  /\ inits = [e \in All |-> 0]
  /\ running = {}
  /\ resets = 0
  /\ begun = 0
  /\ job = <<>>
  /\ pending = {}
  /\ drain = [d \in Drains |-> [at |-> "idle", left |-> {}, late |-> FALSE]]
  /\ owed = [d \in Drains |-> {}]

Unsettled == {n \in 1..begun : job[n].at # "settled"}

-----------------------------------------------------------------------------
\* The exporters that must begin an initialize(): none is cached.
Fresh(S) == {e \in S \cap Lazy : lazy[e] = 0}

\* Mutant: the promise of a running initialize() is not kept.
EnsureEach(S) ==
  /\ \A e \in Fresh(S) : inits[e] < MaxInits
  /\ inits' = [e \in All |-> inits[e] + (IF e \in Fresh(S) THEN 1 ELSE 0)]
  /\ running' = running \cup {<<e, inits[e] + 1>> : e \in Fresh(S)}
  /\ UNCHANGED lazy

\* ensureInitialized() for each exporter of S: join the cached promise or begin.
Ensure(S) ==
  /\ \A e \in Fresh(S) : inits[e] < MaxInits
  /\ inits' = [e \in All |-> inits[e] + (IF e \in Fresh(S) THEN 1 ELSE 0)]
  /\ lazy' = [e \in All |-> IF e \in Fresh(S) THEN inits[e] + 1 ELSE lazy[e]]
  /\ running' = running \cup {<<e, inits[e] + 1>> : e \in Fresh(S)}

\* The promises of S; their order is data.
NewJobs(S, export) ==
  [i \in 1..Cardinality(S) |->
     [to |-> SetToSeq(S)[i], export |-> export, at |-> "waiting",
      init |-> lazy'[SetToSeq(S)[i]]]]

\* Mutant: an export is not among the pending promises.
TrackOut(S, export) ==
  /\ begun + Cardinality(S) <= MaxJobs
  /\ job' = job \o NewJobs(S, export)
  /\ begun' = begun + Cardinality(S)
  /\ pending' = IF export THEN pending ELSE pending \cup (begun + 1)..begun'

\* trackExport() of a promise for each exporter of S.
Track(S, export) ==
  /\ begun + Cardinality(S) <= MaxJobs
  /\ job' = job \o NewJobs(S, export)
  /\ begun' = begun + Cardinality(S)
  /\ pending' = pending \cup (begun + 1)..begun'

\* exportSpan(), exportTrace(): to those that are healthy and want it.
Export == \E S \in SUBSET All : /\ Ensure(S) /\ Track(S, TRUE)
                                /\ UNCHANGED <<resets, drain, owed>>

\* initializeAll()
InitializeAll == /\ Ensure(All) /\ Track(All, FALSE)
                 /\ UNCHANGED <<resets, drain, owed>>

\* initialize() returns, or throws: then the next caller tries again.
Initialized(e, k, ok) ==
  /\ <<e, k>> \in running
  /\ running' = running \ {<<e, k>>}
  /\ lazy' = IF ~ok /\ lazy[e] = k THEN [lazy EXCEPT ![e] = 0] ELSE lazy
  /\ UNCHANGED <<inits, resets, begun, job, pending, drain, owed>>

\* The initialize() a promise waited for has settled, either way: the exporter
\* is called, also after a failure.
CallExporter(n) ==
  /\ n \in 1..begun /\ job[n].at = "waiting" /\ job[n].export
  /\ <<job[n].to, job[n].init>> \notin running
  /\ job' = [job EXCEPT ![n].at = "out"]
  /\ UNCHANGED <<lazy, inits, running, resets, begun, pending, drain, owed>>

SettleJob(n) ==
  /\ n \in 1..begun
  /\ \/ job[n].at = "out"
     \/ job[n].at = "waiting" /\ ~job[n].export /\ <<job[n].to, job[n].init>> \notin running
  /\ job' = [job EXCEPT ![n] = [job[n] EXCEPT !.at = "settled", !.init = 0]]
  /\ pending' = pending \ {n}
  /\ owed' = [d \in Drains |-> owed[d] \ {n}]
  /\ UNCHANGED <<lazy, inits, running, resets, begun, drain>>

-----------------------------------------------------------------------------
\* flush() first joins the initialize() of every exporter; dispose() does not.
BeginDrain(d) ==
  /\ drain[d].at = "idle"
  /\ drain' = [drain EXCEPT ![d].at = "waiting"]
  /\ owed' = [owed EXCEPT ![d] = Unsettled]
  /\ IF d \in Disposes THEN UNCHANGED <<lazy, inits, running, begun, job, pending>>
                       ELSE Ensure(Lazy) /\ Track(Lazy, FALSE)
  /\ UNCHANGED resets

\* Every exporter's flush() is called at once.
FlushAll(d, late) ==
  drain' = [drain EXCEPT ![d] = [at |-> "flushing", left |-> 1..Len(Exporters), late |-> late]]

\* waitForPendingWithTimeout() ends: nothing is pending, ...
Waited(d) == /\ drain[d].at = "waiting" /\ pending = {}
             /\ FlushAll(d, FALSE)
             /\ UNCHANGED <<lazy, inits, running, resets, begun, job, pending, owed>>

\* Mutant: the deadline ends the wait only when it is over anyway.
DeadlineUnheard(d) ==
  /\ drain[d].at = "waiting" /\ pending = {}
  /\ FlushAll(d, TRUE)
  /\ UNCHANGED <<lazy, inits, running, resets, begun, job, pending, owed>>

\* ... or flushTimeoutMs has passed and the rest is abandoned.
Deadline(d) == /\ drain[d].at = "waiting" /\ pending # {}
               /\ FlushAll(d, TRUE)
               /\ UNCHANGED <<lazy, inits, running, resets, begun, job, pending, owed>>

\* A flush() settles; only that of flushAll() has a deadline.
Flushed(d, i) ==
  /\ drain[d].at = "flushing" /\ i \in drain[d].left
  /\ LET left == drain[d].left \ {i}
     IN drain' = [drain EXCEPT
          ![d].left = IF left = {} /\ d \in Disposes THEN 1..Len(Exporters) ELSE left,
          ![d].at = IF left # {} THEN "flushing"
                    ELSE IF d \in Disposes THEN "closing" ELSE "done"]
  /\ UNCHANGED <<lazy, inits, running, resets, begun, job, pending, owed>>

FlushTimeout(d, i) == d \notin Disposes /\ Flushed(d, i)

\* shutdown() of one exporter after the other, each up to its deadline.
ShutDown(d) ==
  /\ drain[d].at = "closing" /\ drain[d].left # {}
  /\ LET i == CHOOSE j \in drain[d].left : \A k \in drain[d].left : j <= k
     IN drain' = [drain EXCEPT ![d].left = @ \ {i}]
  /\ UNCHANGED <<lazy, inits, running, resets, begun, job, pending, owed>>

\* All are shut down: reset() drops the lazy values.
Reset(d) ==
  /\ drain[d].at = "closing" /\ drain[d].left = {}
  /\ drain' = [drain EXCEPT ![d].at = "done"]
  /\ lazy' = [e \in All |-> 0]
  /\ resets' = resets + 1
  /\ UNCHANGED <<inits, running, begun, job, pending, owed>>

-----------------------------------------------------------------------------
(***************************************************************************)
(* flush() and dispose() do not flush an exporter, nor shut it down, while *)
(* an export that was asked for before they began is still on its way,     *)
(* also one that still waits for initialize(); unless the deadline passed. *)
(***************************************************************************)
FlushCovers == \A d \in Drains : drain[d].at \in {"flushing", "closing"} /\ ~drain[d].late
                                   => owed[d] = {}

(***************************************************************************)
(* First exports that race share one initialize(): two run at the same     *)
(* time only if dispose() dropped the lazy values in between.              *)
(***************************************************************************)
InitOnce == \A e \in All : Cardinality({k \in 1..MaxInits : <<e, k>> \in running}) <= 1 + resets

(***************************************************************************)
(* flush() returns though exports, initialize() and flush() of an exporter *)
(* may hang for ever: each wait has a deadline.                            *)
(***************************************************************************)
DrainsReturn == \A d \in Drains \ Disposes : drain[d].at = "waiting" ~> drain[d].at = "done"

=============================================================================
