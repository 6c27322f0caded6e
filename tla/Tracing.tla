------------------------------- MODULE Tracing -------------------------------
(***************************************************************************)
(* observe/trace-manager.ts with trace-eviction.ts, trace-lru-list.ts and  *)
(* trace-retry-collector.ts, over the exporters of TraceExporters: traces  *)
(* and spans, the eviction of the oldest, the retry counters. The dead     *)
(* handles given out while every exporter is unhealthy are left out: they  *)
(* are in none of the maps.                                                *)
(***************************************************************************)
EXTENDS TraceExporters

CONSTANTS N,          \* bound: traces ever started; ids are drawn in order
          M,          \* bound: spans ever started
          MaxTraces,  \* maxTraces
          MaxRetries  \* bound: adapter_retry events

ASSUME TracingAssumption == N \in Nat /\ M \in Nat /\ MaxTraces \in Nat \ {0}

VARIABLES started,   \* traces started so far
          traces,    \* the keys of `traces`, in the order of the map
          ended,     \* those whose status is no longer "running"
          lru,       \* the list of `lru`, oldest first
          spanIds,   \* the spans of each trace
          made,      \* spans started so far
          spans,     \* the keys of `spans`
          retrying,  \* `retryingSpanIds`
          retries    \* totalRetries, successAfterRetry, failedAfterRetries

tvars == <<started, traces, ended, lru, spanIds, made, spans, retrying, retries>>
vars == <<xvars, tvars>>

Traces == 1..N
TypeOK == /\ ExportersTypeOK
          /\ started \in 0..N /\ made \in 0..M
          /\ traces \in Seq(Traces) /\ lru \in Seq(Traces)
          /\ ended \subseteq ToSet(traces)
          /\ spanIds \in [Traces -> SUBSET (1..M)]
          /\ spans \subseteq 1..M /\ retrying \subseteq 1..M
          /\ retries \in [total : Nat, good : Nat, bad : Nat]

NoRetries == [total |-> 0, good |-> 0, bad |-> 0]

Init == /\ ExportersInit
        /\ started = 0 /\ made = 0
        /\ traces = <<>> /\ ended = {} /\ lru = <<>>
        /\ spanIds = [t \in Traces |-> {}]
        /\ spans = {} /\ retrying = {} /\ retries = NoRetries

-----------------------------------------------------------------------------
\* The elements of a list that are in A, in their order: the list after the
\* others were deleted.
Filter(s, A) ==
  LET kept[i \in 0..Len(s)] ==
        IF i = 0 THEN <<>>
        ELSE IF s[i] \in A THEN Append(kept[i - 1], s[i]) ELSE kept[i - 1]
  IN kept[Len(s)]

\* Mutant: only the retry state of running traces is forgotten with them.
DiscardRunning(out) ==
  LET gone == UNION {spanIds[t] : t \in out}
  IN /\ spans' = spans \ gone
     /\ retrying' = retrying \ UNION {spanIds[t] : t \in out \ ended}

\* discardTraceForEviction() of each trace of out.
Discard(out) ==
  LET gone == UNION {spanIds[t] : t \in out}
  IN /\ spans' = spans \ gone
     /\ retrying' = retrying \ gone

\* evictIfNeeded() with the traces and the LRU list given: ended traces first,
\* in the order of the map, then the oldest of the list.
Evict(all, list) ==
  LET over == IF Len(all) > MaxTraces THEN Len(all) - MaxTraces ELSE 0
      line == Filter(all, ended) \o list
      out == {line[i] : i \in 1..over}
  IN /\ traces' = Filter(all, Traces \ out)
     /\ lru' = Filter(list, Traces \ out)
     /\ ended' = ended \ out
     /\ spanIds' = [t \in Traces |-> IF t \in out THEN {} ELSE spanIds[t]]
     /\ Discard(out)

StartTrace == /\ started < N
              /\ started' = started + 1
              /\ Evict(Append(traces, started'), Append(lru, started'))
              /\ UNCHANGED <<made, retries>>
              /\ UNCHANGED xvars

\* A span of a trace in the map, ended or not; its parent is data.
StartSpan(t) == /\ made < M /\ t \in ToSet(traces)
                /\ made' = made + 1
                /\ spans' = spans \cup {made'}
                /\ spanIds' = [spanIds EXCEPT ![t] = @ \cup {made'}]
                /\ UNCHANGED <<started, traces, ended, lru, retrying, retries>>
                /\ UNCHANGED xvars

\* addSpanEvent() of an adapter_retry, on a running or an ended span.
Retry(s) == /\ s \in spans /\ retries.total < MaxRetries
            /\ retries' = [retries EXCEPT !.total = @ + 1]
            /\ retrying' = retrying \cup {s}
            /\ UNCHANGED <<started, traces, ended, lru, spanIds, made, spans>>
            /\ UNCHANGED xvars

\* endSpan(), the first time or again: the outcome of its retries is counted,
\* the snapshot is exported.
EndSpan(s) ==
  /\ s \in spans
  /\ \E ok \in BOOLEAN :
       retries' = IF s \notin retrying THEN retries
                  ELSE IF ok THEN [retries EXCEPT !.good = @ + 1]
                  ELSE [retries EXCEPT !.bad = @ + 1]
  /\ retrying' = retrying \ {s}
  /\ Export
  /\ UNCHANGED <<started, traces, ended, lru, spanIds, made, spans>>

\* Mutant: an ended trace stays in the LRU list.
EndTraceListed(t) ==
  /\ t \in ToSet(traces)
  /\ ended' = ended \cup {t}
  /\ Export
  /\ UNCHANGED <<started, traces, lru, spanIds, made, spans, retrying, retries>>

\* endTrace(): it leaves the list but not the map; its spans are not ended.
EndTrace(t) ==
  /\ t \in ToSet(traces)
  /\ ended' = ended \cup {t}
  /\ lru' = Filter(lru, Traces \ {t})
  /\ Export
  /\ UNCHANGED <<started, traces, spanIds, made, spans, retrying, retries>>

\* dispose() after the coordinator has shut down: everything is dropped.
Clear(d) ==
  /\ Reset(d)
  /\ traces' = <<>> /\ ended' = {} /\ lru' = <<>>
  /\ spans' = {} /\ retrying' = {} /\ retries' = NoRetries
  /\ spanIds' = [t \in Traces |-> {}]
  /\ UNCHANGED <<started, made>>

Working == \/ InitializeAll
           \/ \E e \in All, k \in 1..MaxInits, ok \in BOOLEAN : Initialized(e, k, ok)
           \/ \E n \in Jobs : CallExporter(n) \/ SettleJob(n)
           \/ \E d \in Drains : \/ BeginDrain(d) \/ Waited(d) \/ Deadline(d) \/ ShutDown(d)
                                \/ \E i \in 1..Len(Exporters) : Flushed(d, i) \/ FlushTimeout(d, i)

Next == \/ StartTrace
        \/ \E t \in Traces : StartSpan(t) \/ EndTrace(t)
        \/ \E s \in 1..M : Retry(s) \/ EndSpan(s)
        \/ \E d \in Drains : Clear(d)
        \/ Working /\ UNCHANGED tvars

Spec == Init /\ [][Next]_vars

\* Timers fire and the event loop runs what is ready; exporters may hang.
FairSpec ==
  /\ Spec
  /\ \A d \in Drains :
       /\ WF_vars((Waited(d) \/ Deadline(d)) /\ UNCHANGED tvars)
       /\ \A i \in 1..Len(Exporters) : WF_vars(FlushTimeout(d, i) /\ UNCHANGED tvars)

-----------------------------------------------------------------------------
(***************************************************************************)
(* The LRU list is the running traces of the map, in the order they were   *)
(* started, and the map keeps to maxTraces: no ended trace is evicted as a *)
(* running one, no running trace is out of reach of the eviction.          *)
(***************************************************************************)
LruIsRunning == /\ TypeOK
                /\ lru = Filter(traces, Traces \ ended)
                /\ Len(traces) <= MaxTraces

(***************************************************************************)
(* What is kept about spans belongs to a trace in the map: no span and no  *)
(* retry outlives the eviction of its trace, whatever the order of         *)
(* endSpan(), late retries and eviction, and no retry has two outcomes.    *)
(***************************************************************************)
NoOrphans == /\ spans = UNION {spanIds[t] : t \in ToSet(traces)}
             /\ retrying \subseteq spans
             /\ retries.good + retries.bad + Cardinality(retrying) <= retries.total

=============================================================================
