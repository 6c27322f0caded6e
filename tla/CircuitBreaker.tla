--------------------------- MODULE CircuitBreaker ---------------------------
(***************************************************************************)
(* infra/circuit-breaker.ts: the breaker's three states, its failure       *)
(* count and its half-open probe slot, with any number of execute() calls  *)
(* in flight. A call is two segments: the entry up to `await fn()`, and    *)
(* the recording of the outcome, any time later. Clock time is abstracted  *)
(* to whether resetTimeoutMs has passed since the last failure.            *)
(***************************************************************************)
EXTENDS Naturals, FiniteSets

CONSTANTS Calls,            \* execute() calls; each is made at most once
          FailureThreshold,
          External,         \* TRUE: recordSuccess, recordFailure and reset are used
          MaxFailures,      \* bound on consecutiveFailures: no failure beyond it
          NoCall

ASSUME BreakerAssumption == /\ FailureThreshold \in Nat \ {0}
                            /\ MaxFailures \in Nat
                            /\ NoCall \notin Calls

VARIABLES state,                \* `state`
          consecutiveFailures,
          elapsed,              \* Date.now() - lastFailureTime >= resetTimeoutMs
          halfOpenProbe,        \* the call whose sentinel fills the slot, or NoCall
          progress,                \* how far each call is
          period                \* history: calls admitted since `state` last changed
                                \* to half_open

breakerVars == <<state, consecutiveFailures, elapsed, halfOpenProbe, progress, period>>

BreakerTypes == /\ state \in {"closed", "open", "half_open"}
                /\ consecutiveFailures \in Nat
                /\ elapsed \in BOOLEAN
                /\ halfOpenProbe \in Calls \cup {NoCall}
                /\ progress \in [Calls -> {"new", "running", "ok", "failed", "rejected"}]
                /\ period \in SUBSET Calls

BreakerInit == /\ state = "closed"
               /\ consecutiveFailures = 0
               /\ elapsed = TRUE
               /\ halfOpenProbe = NoCall
               /\ progress = [c \in Calls |-> "new"]
               /\ period = {}

-----------------------------------------------------------------------------
\* recordSuccess(): any success, of whatever call, closes the circuit.
RecordSuccess == /\ consecutiveFailures' = 0
                 /\ halfOpenProbe' = NoCall
                 /\ state' = "closed"
                 /\ period' = {}
                 /\ UNCHANGED elapsed

\* Mutant: the probe slot is not released on the failure path.
RecordFailureKeepsSlot ==
  /\ consecutiveFailures < MaxFailures
  /\ consecutiveFailures' = consecutiveFailures + 1
  /\ elapsed' = FALSE
  /\ state' = IF state = "half_open" \/ consecutiveFailures' >= FailureThreshold
                THEN "open" ELSE state
  /\ UNCHANGED <<halfOpenProbe, period>>

\* Mutant: the circuit trips one failure late.
RecordFailureLate ==
  /\ consecutiveFailures < MaxFailures
  /\ consecutiveFailures' = consecutiveFailures + 1
  /\ elapsed' = FALSE
  /\ halfOpenProbe' = NoCall
  /\ state' = IF state = "half_open" \/ consecutiveFailures' > FailureThreshold
                THEN "open" ELSE state
  /\ period' = {}

\* recordFailure(): any failure empties the probe slot and restarts the clock;
\* it opens the circuit when it is half open or the threshold is reached.
RecordFailure ==
  /\ consecutiveFailures < MaxFailures
  /\ consecutiveFailures' = consecutiveFailures + 1
  /\ elapsed' = FALSE
  /\ halfOpenProbe' = NoCall
  /\ state' = IF state = "half_open" \/ consecutiveFailures' >= FailureThreshold
                THEN "open" ELSE state
  /\ period' = {}

\* shouldAttemptReset() and the lazy transition that state() and execute() make.
Refreshed == IF state = "open" /\ elapsed THEN "half_open" ELSE state

ReadState == /\ state' = Refreshed
             /\ period' = IF state' = state THEN period ELSE {}
             /\ UNCHANGED <<consecutiveFailures, elapsed, halfOpenProbe, progress>>

\* execute() fast-fails: the circuit is open, or half open with its probe out.
Reject(c) == /\ progress[c] = "new"
             /\ Refreshed = "open" \/ (Refreshed = "half_open" /\ halfOpenProbe # NoCall)
             /\ state' = Refreshed
             /\ period' = IF state' = state THEN period ELSE {}
             /\ progress' = [progress EXCEPT ![c] = "rejected"]
             /\ UNCHANGED <<consecutiveFailures, elapsed, halfOpenProbe>>

\* Mutant: execute() does not fill the probe slot.
AdmitUnclaimed(c) ==
  /\ progress[c] = "new"
  /\ \/ Refreshed = "closed"
     \/ Refreshed = "half_open" /\ halfOpenProbe = NoCall
  /\ state' = Refreshed
  /\ period' = (IF state' = state THEN period ELSE {}) \cup
               (IF Refreshed = "half_open" THEN {c} ELSE {})
  /\ progress' = [progress EXCEPT ![c] = "running"]
  /\ UNCHANGED <<consecutiveFailures, elapsed, halfOpenProbe>>

\* execute() up to `await fn()`: closed lets every call through, half open the
\* one that finds the slot empty and fills it in the same segment.
Admit(c) ==
  /\ progress[c] = "new"
  /\ \/ /\ Refreshed = "closed"
        /\ UNCHANGED halfOpenProbe
     \/ /\ Refreshed = "half_open"
        /\ halfOpenProbe = NoCall
        /\ halfOpenProbe' = c
  /\ state' = Refreshed
  /\ period' = (IF state' = state THEN period ELSE {}) \cup
               (IF Refreshed = "half_open" THEN {c} ELSE {})
  /\ progress' = [progress EXCEPT ![c] = "running"]
  /\ UNCHANGED <<consecutiveFailures, elapsed>>

\* fn() settles: the outcome is recorded whatever has become of the circuit.
Succeed(c) == /\ progress[c] = "running"
              /\ RecordSuccess
              /\ progress' = [progress EXCEPT ![c] = "ok"]

Fail(c) == /\ progress[c] = "running"
           /\ RecordFailure
           /\ progress' = [progress EXCEPT ![c] = "failed"]

\* recordSuccess(), recordFailure() and reset() called from outside; reset()
\* changes the same variables as recordSuccess().
ExternalSuccess == External /\ RecordSuccess /\ UNCHANGED progress
ExternalFailure == External /\ RecordFailure /\ UNCHANGED progress

\* resetTimeoutMs passes without a failure.
Tick == /\ ~elapsed
        /\ elapsed' = TRUE
        /\ UNCHANGED <<state, consecutiveFailures, halfOpenProbe, progress, period>>

BreakerNext == \/ \E c \in Calls : Admit(c) \/ Reject(c) \/ Succeed(c) \/ Fail(c)
               \/ ReadState
               \/ ExternalSuccess
               \/ ExternalFailure
               \/ Tick

BreakerSpec == BreakerInit /\ [][BreakerNext]_breakerVars

-----------------------------------------------------------------------------
\* The circuit is away from CLOSED exactly while the failure count has reached
\* the threshold, through every late outcome, external record and reset.
TripsExactly == state # "closed" <=> consecutiveFailures >= FailureThreshold

\* The slot is released in both the success and the failure path, so the breaker
\* cannot wedge (the comment at halfOpenProbe): a filled slot belongs to a call
\* still in flight, and the circuit it guards is half open.
SlotIsLive == halfOpenProbe # NoCall => /\ progress[halfOpenProbe] = "running"
                                        /\ state = "half_open"

\* One stay in HALF_OPEN admits at most one call.
OneProbePerPeriod == Cardinality(period) <= 1

=============================================================================
