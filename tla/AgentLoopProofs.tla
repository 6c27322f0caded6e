-------------------------- MODULE AgentLoopProofs --------------------------
(***************************************************************************)
(* Proofs about AgentLoop: its type invariant, its safety invariants and   *)
(* that every run implements EventStream. The inductive invariant LoopInv  *)
(* says what each run has told its reader at each suspension (RunOK), what *)
(* an abort still lets through (LateOK) and that until an abort one run at *)
(* a time is active (Solo).                                                *)
(***************************************************************************)
EXTENDS AgentLoop, TLAPS

\* Suspensions before which nothing terminal was said.
Quiet == {"new", "preStart", "checked", "warn", "started", "inputGuard", "calling", "delta",
  "backoff",
          "outputGuard", "argGuard", "toolCall", "executing", "toolResult", "note", "stub",
          "top"}
\* Inside an iteration: its span is open, its onIterationEnd has not fired.
Inside == {"started", "inputGuard", "calling", "delta", "backoff", "outputGuard", "argGuard",
           "toolCall", "executing", "toolResult", "note", "stub", "blocked", "message", "bail"}

\* What a run at suspension p has in its context c and has said in its history o.
RunOK(p, c, o) ==
  /\ p = "new" => c = Fresh /\ o = Silent
  /\ p \in Quiet => /\ o.last \in {"none", "iteration_start", "content", "result_blocked"}
                   /\ o.errors = 0 /\ o.dones = 0
  /\ p = "blocked" => o.last = "guardrail_blocked" /\ o.errors = 0 /\ o.dones = 0
  /\ p = "message" => /\ o.last = "message" /\ o.errors = 0 /\ o.dones = 0
                      /\ c.reason \in {"end_turn", "token_budget"}
  /\ p \in {"bail", "preError"} => o.last = "error" /\ o.errors = 1 /\ o.dones = 0
  /\ p \in {"bail", "preStart", "preError"} => c.reason # "end_turn"
  /\ p \in {"done", "preDone"} => o.last = "done" /\ o.dones = 1 /\ o.errors = One(c.reason # "end_turn")
  /\ p \notin {"new", "checked", "warn", "closed"} => o.starts > 0
  /\ o.number = o.starts
  /\ p \in {"checked", "warn"} => c.iteration = o.starts + 1
  /\ p \in Inside \cup {"top"} => c.iteration = o.starts
  /\ p \in Inside => c.latch = 0 /\ o.ended = 0
  /\ p \in {"top", "done"} => o.ended = 1
  /\ p \in {"checked", "warn"} /\ c.span # 0 => o.ended = 1
  /\ o.ended <= 1
  /\ p \in {"new", "checked", "warn", "started", "inputGuard", "calling", "delta", "backoff", "top"}
       => c.open = 0
  /\ p \in {"argGuard", "toolCall", "executing"} => c.next \in 1..c.calls /\ c.open = c.calls
  /\ p \in Pushing => c.next \in 1..c.calls /\ c.open = c.calls - c.next + 1
  /\ p \in {"calling", "delta", "backoff"} => c.attempt <= MaxRetries + 1
  /\ p = "backoff" => c.attempt <= MaxRetries
  /\ p \in Quiet \ {"preStart"} => c.spent <= MaxTokens

\* The aborted loop (a) makes no further call and no further batch once past them.
LateOK(a, p, o) ==
  /\ o.lateCalls <= 1 /\ o.lateBatches <= 1
  /\ ~a => o.lateCalls = 0 /\ o.lateBatches = 0
  /\ p \in {"new", "checked", "warn", "started", "inputGuard"} => o.lateCalls = 0
  /\ p \in Quiet \ (Pushing \cup {"executing", "preStart"}) => o.lateBatches = 0

\* Between opening and the first terminal event; until an abort, one run at a time
\* is there, and the status says so.
Active == Working \cup {"preStart", "preError"}
Solo == /\ status = "disposed" => aborted
        /\ ~aborted => \A q, r \in Runs : pc[q] \in Active /\ pc[r] \in Active => q = r
        /\ ~aborted => (\A r \in Runs : pc[r] \in Active => status = "running")

\* The inductive invariant.
LoopInv == /\ TypeOK /\ Solo /\ OneWorking /\ SpanLedger
           /\ \A r \in Runs : /\ RunOK(pc[r], ctx[r], out[r]) /\ LateOK(aborted, pc[r], out[r])
                              /\ pc[r] = "new" => trace[r] = "none"

\* Run r goes to suspension p with context c and history o, the rest of the runs stay.
Move(r, p, c, o) == Goto(r, p, c) /\ Report(r, o)

Same(o0, o) == /\ o.last = o0.last /\ o.starts = o0.starts
               /\ o.errors = o0.errors /\ o.dones = o0.dones

\* The step of the abstract stream, or none, that the reader hears.
Heard(p0, o0, p, o) ==
  \/ (p0 = "closed" <=> p = "closed") /\ Same(o0, o)
  \/ /\ p0 # "closed"
     /\ \/ p = "closed" /\ Same(o0, o)
        \/ /\ p # "closed"
           /\ o0.last \in {"none", "iteration_start", "content", "result_blocked"}
           /\ o.errors = o0.errors /\ o.dones = o0.dones
           /\ \/ o.last = "iteration_start" /\ o.starts = o0.starts + 1
              \/ /\ o.last \in {"content", "result_blocked", "guardrail_blocked", "message"}
                 /\ o.starts = o0.starts
        \/ /\ p # "closed" /\ o0.starts > 0 /\ o0.last \notin {"error", "done"}
           /\ o.last = "error" /\ o.errors = o0.errors + 1
           /\ o.starts = o0.starts /\ o.dones = o0.dones
        \/ /\ p # "closed" /\ o0.last \in {"message", "error"}
           /\ o.last = "done" /\ o.dones = o0.dones + 1
           /\ o.starts = o0.starts /\ o.errors = o0.errors

\* A step of run r that leaves it in order and is heard as EventStream allows.
Sound(r) == \E p \in Points, c \in Contexts, o \in Outputs :
  /\ Move(r, p, c, o)
  /\ RunOK(p, c, o) /\ LateOK(aborted', p, o)
  /\ Heard(pc[r], out[r], p, o)

\* The fields of t, the history o with an event of this kind added.
ToldFields(o, kind, t) ==
  /\ t \in Outputs
  /\ t.last = kind
  /\ t.errors = IF kind = "error" THEN o.errors + 1 ELSE o.errors
  /\ t.dones = IF kind = "done" THEN o.dones + 1 ELSE o.dones
  /\ t.starts = o.starts /\ t.number = o.number /\ t.ended = o.ended
  /\ t.lateCalls = o.lateCalls /\ t.lateBatches = o.lateBatches

\* The initial records are well typed.
LEMMA FreshLemma == Fresh \in Contexts /\ Silent \in Outputs
  BY DEF Fresh, Contexts, Silent, Outputs, Reasons, Kinds

\* Every update an action makes to a context yields a context.
LEMMA ContextUpdates ==
  ASSUME NEW c \in Contexts, NEW m \in Nat, NEW n \in Nat, NEW x \in Reasons
  PROVE  /\ [c EXCEPT !.span = 0] \in Contexts
         /\ [c EXCEPT !.span = m, !.latch = 0] \in Contexts
         /\ [c EXCEPT !.reason = x] \in Contexts
         /\ [c EXCEPT !.attempt = m, !.chunks = 0] \in Contexts
         /\ [c EXCEPT !.chunks = m] \in Contexts
         /\ [c EXCEPT !.next = m] \in Contexts
         /\ [c EXCEPT !.spent = m, !.reason = x] \in Contexts
         /\ [c EXCEPT !.spent = m, !.calls = n, !.open = n, !.next = 1] \in Contexts
         /\ [c EXCEPT !.span = 0, !.latch = 1] \in Contexts
         /\ [c EXCEPT !.open = m, !.next = n] \in Contexts
         /\ [c EXCEPT !.open = m, !.latch = 1] \in Contexts
         /\ [c EXCEPT !.iteration = m, !.reason = x] \in Contexts
<1>1. [c EXCEPT !.span = 0] \in Contexts BY DEF Contexts
<1>2. [c EXCEPT !.span = m, !.latch = 0] \in Contexts BY DEF Contexts
<1>3. [c EXCEPT !.reason = x] \in Contexts BY DEF Contexts
<1>4. [c EXCEPT !.attempt = m, !.chunks = 0] \in Contexts BY DEF Contexts
<1>5. [c EXCEPT !.chunks = m] \in Contexts BY DEF Contexts
<1>6. [c EXCEPT !.next = m] \in Contexts BY DEF Contexts
<1>7. [c EXCEPT !.spent = m, !.reason = x] \in Contexts BY DEF Contexts
<1>8. [c EXCEPT !.spent = m, !.calls = n, !.open = n, !.next = 1] \in Contexts BY DEF Contexts
<1>9. [c EXCEPT !.span = 0, !.latch = 1] \in Contexts BY DEF Contexts
<1>10. [c EXCEPT !.open = m, !.next = n] \in Contexts BY DEF Contexts
<1>11. [c EXCEPT !.open = m, !.latch = 1] \in Contexts BY DEF Contexts
<1>12. [c EXCEPT !.iteration = m, !.reason = x] \in Contexts BY DEF Contexts
<1> QED BY <1>1, <1>2, <1>3, <1>4, <1>5, <1>6, <1>7, <1>8, <1>9, <1>10, <1>11, <1>12

\* Every update an action makes to a history yields a history.
LEMMA OutputUpdates ==
  ASSUME NEW o \in Outputs, NEW m \in Nat, NEW n \in Nat
  PROVE  /\ [o EXCEPT !.ended = m] \in Outputs
         /\ [o EXCEPT !.lateCalls = m] \in Outputs
         /\ [o EXCEPT !.lateBatches = m] \in Outputs
         /\ Announced(o, n) \in Outputs
         /\ [Announced(o, n) EXCEPT !.ended = 0] \in Outputs
         /\ [o EXCEPT !.last = "iteration_start", !.starts = m, !.number = n] \in Outputs
<1>1. [o EXCEPT !.ended = m] \in Outputs BY DEF Outputs
<1>2. [o EXCEPT !.lateCalls = m] \in Outputs BY DEF Outputs
<1>3. [o EXCEPT !.lateBatches = m] \in Outputs BY DEF Outputs
<1>4. [o EXCEPT !.last = "iteration_start", !.starts = m, !.number = n] \in Outputs
  BY DEF Outputs, Kinds
<1>5. Announced(o, n) \in Outputs
  <2> DEFINE s == o.starts + 1
  <2>1. s \in Nat /\ Announced(o, n) = [o EXCEPT !.last = "iteration_start", !.starts = s,
      !.number = n]
    BY DEF Announced, Outputs
  <2> HIDE DEF s
  <2> QED BY <2>1 DEF Outputs, Kinds
<1>6. [Announced(o, n) EXCEPT !.ended = 0] \in Outputs
  BY <1>5 DEF Outputs
<1> QED BY <1>1, <1>2, <1>3, <1>4, <1>5, <1>6

\* What yielding an event of some kind changes in the history.
LEMMA ToldLemma ==
  ASSUME NEW o \in Outputs, NEW kind \in Kinds
  PROVE  ToldFields(o, kind, Told(o, kind))
<1> DEFINE e == IF kind = "error" THEN o.errors + 1 ELSE o.errors
           d == IF kind = "done" THEN o.dones + 1 ELSE o.dones
           t == [o EXCEPT !.last = kind, !.errors = e, !.dones = d]
<1>1. o.errors + One(kind = "error") = e /\ o.dones + One(kind = "done") = d
  BY DEF One, Outputs
<1>2. Told(o, kind) = t
  BY <1>1, Zenon DEF Told
<1>3. e \in Nat /\ d \in Nat
  BY DEF Outputs
<1>4. t.errors = e /\ t.dones = d /\ t.last = kind
  <2> HIDE DEF e, d
  <2> QED BY DEF Outputs
<1>5. t \in Outputs
  <2> HIDE DEF e, d
  <2> QED BY <1>3 DEF Outputs
<1>6. /\ t.starts = o.starts /\ t.number = o.number /\ t.ended = o.ended
      /\ t.lateCalls = o.lateCalls /\ t.lateBatches = o.lateBatches
  <2> HIDE DEF e, d
  <2> QED BY DEF Outputs
<1> HIDE DEF t
<1> QED BY <1>2, <1>4, <1>5, <1>6 DEF ToldFields

\* checkPreIteration leaves the run sound, whether it stops it or lets it go on.
LEMMA CheckSound ==
  ASSUME TypeOK, NEW r \in Runs, NEW c0 \in Contexts, NEW ab \in BOOLEAN,
         Check(r, c0, ab), aborted' = ab, pc[r] # "closed",
         out[r].last \in {"none", "iteration_start", "content", "result_blocked"},
         out[r].errors = 0,
         out[r].dones = 0, out[r].number = out[r].starts, out[r].ended <= 1,
         c0.iteration = out[r].starts, c0.span # 0 => out[r].ended = 1, c0.open = 0,
         out[r].lateCalls <= 1, aborted' \/ out[r].lateCalls = 0, out[r].lateBatches = 0
  PROVE  Sound(r)
<1>1. PICK late \in BOOLEAN :
        LET stop == ab \/ late
            n == c0.iteration + 1
            d == [c0 EXCEPT !.iteration = IF stop THEN @ ELSE n,
                            !.reason = PreStop(c0, stop)]
        IN IF d.reason = "none" THEN Goto(r, "checked", d) /\ UNCHANGED out
              ELSE Goto(r, "preStart", d) /\ Report(r, Announced(out[r], n))
  BY DEF Check
<1> DEFINE stop == ab \/ late
           n == c0.iteration + 1
           i == IF stop THEN c0.iteration ELSE n
           x == PreStop(c0, stop)
           d == [c0 EXCEPT !.iteration = i, !.reason = x]
           o == Announced(out[r], n)
<1>2. /\ out[r] \in Outputs /\ pc[r] \in Points
      /\ out = [out EXCEPT ![r] = out[r]]
  BY DEF TypeOK
<1>3. n \in Nat /\ i \in Nat /\ n = out[r].starts + 1
  BY DEF Contexts
<1>4. /\ x \in Reasons \ {"end_turn"}
      /\ x = "none" => ~ab /\ i = n /\ c0.spent <= MaxTokens
  <2>1. CASE stop
    BY <2>1 DEF PreStop, Reasons
  <2>2. CASE ~stop
    BY <2>2, LoopAssumption DEF PreStop, Reasons, Contexts
  <2> QED BY <2>1, <2>2
<1>5. IF d.reason = "none" THEN Goto(r, "checked", d) /\ UNCHANGED out
         ELSE Goto(r, "preStart", d) /\ Report(r, o)
  BY <1>1
<1> HIDE DEF i, x, n
<1>6. /\ d \in Contexts /\ d.reason = x /\ d.iteration = i /\ d.span = c0.span
      /\ d.open = 0 /\ d.spent = c0.spent
  BY <1>3, <1>4 DEF Contexts
<1>7. o \in Outputs
  BY <1>2, <1>3, OutputUpdates
<1>8. /\ o.starts = out[r].starts + 1 /\ o.number = n /\ o.last = "iteration_start"
       /\ o.errors = 0 /\ o.dones = 0 /\ o.ended = out[r].ended
       /\ o.lateCalls = out[r].lateCalls /\ o.lateBatches = out[r].lateBatches
  BY <1>2 DEF Announced, Outputs
<1> HIDE DEF d, o
<1>9. CASE x = "none"
  <2>1. Move(r, "checked", d, out[r])
    BY <1>2, <1>5, <1>6, <1>9 DEF Move, Report
  <2>2. RunOK("checked", d, out[r]) /\ Heard(pc[r], out[r], "checked", out[r])
    BY <1>2, <1>3, <1>4, <1>6, <1>9 DEF RunOK, Pushing, Heard, Same, Quiet, Inside, Outputs
  <2>3. LateOK(aborted', "checked", out[r])
    BY <1>2, <1>4, <1>9 DEF LateOK, Pushing, Quiet, Outputs
  <2> QED BY <1>2, <1>6, <2>1, <2>2, <2>3 DEF Sound, Points
<1>10. CASE x # "none"
  <2>1. Move(r, "preStart", d, o)
    BY <1>5, <1>6, <1>10 DEF Move
  <2>2. RunOK("preStart", d, o)
    BY <1>2, <1>3, <1>4, <1>6, <1>8, <1>10 DEF RunOK, Pushing, Quiet, Inside, Outputs
  <2>3. "preStart" \in Points /\ Heard(pc[r], out[r], "preStart", o)
    BY <1>8 DEF Points, Yields, Heard
  <2>4. LateOK(aborted', "preStart", o)
    BY <1>2, <1>8 DEF LateOK, Pushing, Quiet, Outputs
  <2> QED BY <1>6, <1>7, <2>1, <2>2, <2>3, <2>4 DEF Sound
<1> QED BY <1>9, <1>10

\* Every step of a run is sound: one case per action.
LEMMA StepSound ==
  ASSUME TypeOK, NEW r \in Runs, RunOK(pc[r], ctx[r], out[r]),
         LateOK(aborted, pc[r], out[r]),
         Refuse(r) \/ Start(r) \/ Step(r) \/ Close(r)
  PROVE  Sound(r)
<1>a. pc[r] \in Points /\ ctx[r] \in Contexts /\ out[r] \in Outputs /\ Fresh \in Contexts
  BY FreshLemma DEF TypeOK
<1>b. out = [out EXCEPT ![r] = out[r]]
  BY DEF TypeOK
<1>c. Late \in {0, 1}
  BY DEF Late, One
<1>d. \A kind \in Kinds : ToldFields(out[r], kind, Told(out[r], kind))
  BY <1>a, ToldLemma
<1>e. /\ ctx[r].spent \in Nat /\ ctx[r].open \in Nat /\ ctx[r].latch \in {0, 1}
      /\ out[r].ended \in Nat /\ out[r].starts \in Nat
  BY <1>a DEF Contexts, Outputs
<1>1. CASE Refuse(r)
  <2> DEFINE c == Fresh
             o == out[r]
  <2>1. pc[r] = "new" /\ Move(r, "closed", c, o) /\ "closed" \in Points
    BY <1>1, <1>b DEF Refuse, Move, Report, Points, Yields, Throws
  <2>3. c \in Contexts
    BY <1>a
  <2>4. o \in Outputs
    BY <1>a
  <2>5. Heard(pc[r], out[r], "closed", o)
    BY <1>a, <1>1, <1>d, <2>1 DEF Refuse, Heard, Same, RunOK, Pushing, Quiet, Kinds, ToldFields,
      Outputs, Announced, Yields, Throws
  <2>6. RunOK("closed", c, o)
    BY <1>a, <1>e, <1>1, <1>d, <2>1, <2>3, <2>4, LoopAssumption DEF Refuse, RunOK, Pushing, Quiet,
      Inside, Kinds, ToldFields, Outputs, Contexts, Announced, One, Yields, Throws
  <2>7. LateOK(aborted', "closed", o)
    BY <1>a, <1>e, <1>1, <1>d, <2>1, <2>3, <2>4 DEF Refuse, LateOK, Pushing, Quiet, Late, One,
      Kinds, ToldFields, Outputs, Announced, loop, Yields, Throws
  <2> QED BY <2>1, <2>3, <2>4, <2>5, <2>6, <2>7 DEF Sound
<1>2. CASE PreError(r)
  <2> DEFINE c == [ctx[r] EXCEPT !.span = 0]
             o == Told(out[r], "error")
  <2>1. pc[r] = "preStart" /\ Move(r, "preError", c, o) /\ "preError" \in Points
    BY <1>2, <1>b DEF PreError, Tell, Move, Report, Points, Yields, Throws
  <2>3. c \in Contexts
    BY <1>a, ContextUpdates DEF Reasons
  <2>4. o \in Outputs
    BY <1>a, <1>d, OutputUpdates DEF Kinds, ToldFields
  <2>5. Heard(pc[r], out[r], "preError", o)
    BY <1>a, <1>2, <1>d, <2>1 DEF PreError, Heard, Same, RunOK, Pushing, Quiet, Kinds, ToldFields,
      Outputs, Announced, Yields, Throws
  <2>6. RunOK("preError", c, o)
    BY <1>a, <1>e, <1>2, <1>d, <2>1, <2>3, <2>4, LoopAssumption DEF PreError, RunOK, Pushing, Quiet,
      Inside, Kinds, ToldFields, Outputs, Contexts, Announced, One, Yields, Throws
  <2>7. LateOK(aborted', "preError", o)
    BY <1>a, <1>e, <1>2, <1>d, <2>1, <2>3, <2>4 DEF PreError, Tell, LateOK, Pushing, Quiet, Late,
      One, Kinds, ToldFields, Outputs, Announced, loop, Yields, Throws
  <2> QED BY <2>1, <2>3, <2>4, <2>5, <2>6, <2>7 DEF Sound
<1>3. CASE PreDone(r)
  <2> DEFINE c == ctx[r]
             o == Told(out[r], "done")
  <2>1. pc[r] = "preError" /\ Move(r, "preDone", c, o) /\ "preDone" \in Points
    BY <1>3, <1>b DEF PreDone, Tell, Move, Report, Points, Yields, Throws
  <2>3. c \in Contexts
    BY <1>a
  <2>4. o \in Outputs
    BY <1>a, <1>d, OutputUpdates DEF Kinds, ToldFields
  <2>5. Heard(pc[r], out[r], "preDone", o)
    BY <1>a, <1>3, <1>d, <2>1 DEF PreDone, Heard, Same, RunOK, Pushing, Quiet, Kinds, ToldFields,
      Outputs, Announced, Yields, Throws
  <2>6. RunOK("preDone", c, o)
    BY <1>a, <1>e, <1>3, <1>d, <2>1, <2>3, <2>4, LoopAssumption DEF PreDone, RunOK, Pushing, Quiet,
      Inside, Kinds, ToldFields, Outputs, Contexts, Announced, One, Yields, Throws
  <2>7. LateOK(aborted', "preDone", o)
    BY <1>a, <1>e, <1>3, <1>d, <2>1, <2>3, <2>4 DEF PreDone, Tell, LateOK, Pushing, Quiet, Late,
      One, Kinds, ToldFields, Outputs, Announced, loop, Yields, Throws
  <2> QED BY <2>1, <2>3, <2>4, <2>5, <2>6, <2>7 DEF Sound
<1>4. CASE Warn(r)
  <2> DEFINE c == ctx[r]
             o == Told(out[r], "content")
  <2>1. pc[r] = "checked" /\ Move(r, "warn", c, o) /\ "warn" \in Points
    BY <1>4, <1>b DEF Warn, Tell, Move, Report, Points, Yields, Throws
  <2>3. c \in Contexts
    BY <1>a
  <2>4. o \in Outputs
    BY <1>a, <1>d, OutputUpdates DEF Kinds, ToldFields
  <2>5. Heard(pc[r], out[r], "warn", o)
    BY <1>a, <1>4, <1>d, <2>1 DEF Warn, Heard, Same, RunOK, Pushing, Quiet, Kinds, ToldFields,
      Outputs, Announced, Yields, Throws
  <2>6. RunOK("warn", c, o)
    BY <1>a, <1>e, <1>4, <1>d, <2>1, <2>3, <2>4, LoopAssumption DEF Warn, RunOK, Pushing, Quiet,
      Inside, Kinds, ToldFields, Outputs, Contexts, Announced, One, Yields, Throws
  <2>7. LateOK(aborted', "warn", o)
    BY <1>a, <1>e, <1>4, <1>d, <2>1, <2>3, <2>4 DEF Warn, Tell, LateOK, Pushing, Quiet, Late, One,
      Kinds, ToldFields, Outputs, Announced, loop, Yields, Throws
  <2> QED BY <2>1, <2>3, <2>4, <2>5, <2>6, <2>7 DEF Sound
<1>5. CASE Begin(r)
  <2> DEFINE c == [ctx[r] EXCEPT !.span = ctx[r].iteration, !.latch = 0]
             o == [Announced(out[r], ctx[r].iteration) EXCEPT !.ended = 0]
  <2>1. pc[r] \in {"checked", "warn"} /\ Move(r, "started", c, o) /\ "started" \in Points
    BY <1>5, <1>b DEF Begin, Move, Report, Points, Yields, Throws
  <2>2. out[r].starts + 1 \in Nat /\ ctx[r].iteration \in Nat
    BY <1>a, <1>c, <1>e, <1>5, <2>1, LoopAssumption DEF Begin, RunOK, Contexts, Outputs
  <2>3. c \in Contexts
    BY <1>a, <2>2, ContextUpdates DEF Reasons
  <2>4. o \in Outputs
    BY <1>a, <1>d, <2>2, OutputUpdates DEF Kinds, ToldFields
  <2>5. Heard(pc[r], out[r], "started", o)
    BY <1>a, <1>5, <1>d, <2>1 DEF Begin, Same, Heard, Same, RunOK, Pushing, Quiet, Kinds,
      ToldFields, Outputs, Announced, Yields, Throws
  <2>6. RunOK("started", c, o)
    BY <1>a, <1>e, <1>5, <1>d, <2>1, <2>3, <2>4, LoopAssumption DEF Begin, RunOK, Pushing, Quiet,
      Inside, Kinds, ToldFields, Outputs, Contexts, Announced, One, Yields, Throws
  <2>7. LateOK(aborted', "started", o)
    BY <1>a, <1>e, <1>5, <1>d, <2>1, <2>3, <2>4 DEF Begin, LateOK, Pushing, Quiet, Late, One, Kinds,
      ToldFields, Outputs, Announced, loop, Yields, Throws
  <2> QED BY <2>1, <2>3, <2>4, <2>5, <2>6, <2>7 DEF Sound
<1>6. CASE GuardInput(r)
  <2> DEFINE c == ctx[r]
             o == out[r]
  <2>1. pc[r] = "started" /\ Move(r, "inputGuard", c, o) /\ "inputGuard" \in Points
    BY <1>6, <1>b DEF GuardInput, Move, Report, Points, Yields, Throws
  <2>3. c \in Contexts
    BY <1>a
  <2>4. o \in Outputs
    BY <1>a
  <2>5. Heard(pc[r], out[r], "inputGuard", o)
    BY <1>a, <1>6, <1>d, <2>1 DEF GuardInput, Heard, Same, RunOK, Pushing, Quiet, Kinds, ToldFields,
      Outputs, Announced, Yields, Throws
  <2>6. RunOK("inputGuard", c, o)
    BY <1>a, <1>e, <1>6, <1>d, <2>1, <2>3, <2>4, LoopAssumption DEF GuardInput, RunOK, Pushing,
      Quiet, Inside, Kinds, ToldFields, Outputs, Contexts, Announced, One, Yields, Throws
  <2>7. LateOK(aborted', "inputGuard", o)
    BY <1>a, <1>e, <1>6, <1>d, <2>1, <2>3, <2>4 DEF GuardInput, LateOK, Pushing, Quiet, Late, One,
      Kinds, ToldFields, Outputs, Announced, loop, Yields, Throws
  <2> QED BY <2>1, <2>3, <2>4, <2>5, <2>6, <2>7 DEF Sound
<1>7. CASE Block(r)
  <2> DEFINE c == ctx[r]
             o == Told(out[r], "guardrail_blocked")
  <2>1. pc[r] \in {"inputGuard", "argGuard", "outputGuard"} /\ Move(r, "blocked", c,
      o) /\ "blocked" \in Points
    BY <1>7, <1>b DEF Block, Tell, Move, Report, Points, Yields, Throws
  <2>3. c \in Contexts
    BY <1>a
  <2>4. o \in Outputs
    BY <1>a, <1>d, OutputUpdates DEF Kinds, ToldFields
  <2>5. Heard(pc[r], out[r], "blocked", o)
    BY <1>a, <1>7, <1>d, <2>1 DEF Block, Heard, Same, RunOK, Pushing, Quiet, Kinds, ToldFields,
      Outputs, Announced, Yields, Throws
  <2>6. RunOK("blocked", c, o)
    BY <1>a, <1>e, <1>7, <1>d, <2>1, <2>3, <2>4, LoopAssumption DEF Block, RunOK, Pushing, Quiet,
      Inside, Kinds, ToldFields, Outputs, Contexts, Announced, One, Yields, Throws
  <2>7. LateOK(aborted', "blocked", o)
    BY <1>a, <1>e, <1>7, <1>d, <2>1, <2>3, <2>4 DEF Block, Tell, LateOK, Pushing, Quiet, Late,
      One, Kinds, ToldFields, Outputs, Announced, loop, Yields, Throws
  <2> QED BY <2>1, <2>3, <2>4, <2>5, <2>6, <2>7 DEF Sound
<1>8. CASE BlockError(r)
  <2> DEFINE c == [ctx[r] EXCEPT !.reason = "error"]
             o == Told(out[r], "error")
  <2>1. pc[r] = "blocked" /\ Move(r, "bail", c, o) /\ "bail" \in Points
    BY <1>8, <1>b DEF BlockError, Bail, Tell, Move, Report, Points, Yields, Throws
  <2>3. c \in Contexts
    BY <1>a, ContextUpdates DEF Reasons
  <2>4. o \in Outputs
    BY <1>a, <1>d, OutputUpdates DEF Kinds, ToldFields
  <2>5. Heard(pc[r], out[r], "bail", o)
    BY <1>a, <1>8, <1>d, <2>1 DEF BlockError, Heard, Same, RunOK, Pushing, Quiet, Kinds, ToldFields,
      Outputs, Announced, Yields, Throws
  <2>6. RunOK("bail", c, o)
    BY <1>a, <1>e, <1>8, <1>d, <2>1, <2>3, <2>4, LoopAssumption DEF BlockError, RunOK, Pushing,
      Quiet, Inside, Kinds, ToldFields, Outputs, Contexts, Announced, One, Yields, Throws
  <2>7. LateOK(aborted', "bail", o)
    BY <1>a, <1>e, <1>8, <1>d, <2>1, <2>3, <2>4 DEF BlockError, Bail, Tell, LateOK, Pushing,
      Quiet, Late, One, Kinds, ToldFields, Outputs, Announced, loop, Yields, Throws
  <2> QED BY <2>1, <2>3, <2>4, <2>5, <2>6, <2>7 DEF Sound
<1>9. CASE CallModel(r)
  <2> DEFINE c == [ctx[r] EXCEPT !.attempt = 1, !.chunks = 0]
             o == [out[r] EXCEPT !.lateCalls = @ + Late]
  <2>0. Move(r, "calling", c, o)
    BY <1>9, Zenon DEF CallModel, Attempt, Move, Report
  <2>1. pc[r] = "inputGuard" /\ Move(r, "calling", c, o) /\ "calling" \in Points
    BY <1>9, <2>0 DEF CallModel, Points, Yields, Throws
  <2>2. out[r].lateCalls + Late \in Nat
    BY <1>a, <1>c, <1>e, <1>9, <2>1, LoopAssumption DEF CallModel, RunOK, Contexts, Outputs
  <2>3. c \in Contexts
    BY <1>a, <2>2, ContextUpdates DEF Reasons
  <2>4. o \in Outputs
    BY <1>a, <1>d, <2>2, OutputUpdates DEF Kinds, ToldFields
  <2>5. Heard(pc[r], out[r], "calling", o)
    BY <1>a, <1>9, <1>d, <2>1 DEF CallModel, Heard, Same, RunOK, Pushing, Quiet, Kinds, ToldFields,
      Outputs, Announced, Yields, Throws
  <2>6. RunOK("calling", c, o)
    BY <1>a, <1>e, <1>9, <1>d, <2>1, <2>3, <2>4, LoopAssumption DEF CallModel, RunOK, Pushing,
      Quiet, Inside, Kinds, ToldFields, Outputs, Contexts, Announced, One, Yields, Throws
  <2>7. LateOK(aborted', "calling", o)
    BY <1>a, <1>e, <1>9, <1>d, <2>1, <2>3, <2>4 DEF CallModel, Attempt, LateOK, Pushing, Quiet,
      Late, One, Kinds, ToldFields, Outputs, Announced, loop, Yields, Throws
  <2> QED BY <2>1, <2>3, <2>4, <2>5, <2>6, <2>7 DEF Sound
<1>10. CASE Chunk(r)
  <2> DEFINE c == [ctx[r] EXCEPT !.chunks = @ + 1]
             o == Told(out[r], "content")
  <2>1. pc[r] = "calling" /\ Move(r, "delta", c, o) /\ "delta" \in Points
    BY <1>10, <1>b DEF Chunk, Tell, Move, Report, Points, Yields, Throws
  <2>2. ctx[r].chunks + 1 \in Nat
    BY <1>a, <1>c, <1>e, <1>10, <2>1, LoopAssumption DEF Chunk, RunOK, Contexts, Outputs
  <2>3. c \in Contexts
    BY <1>a, <2>2, ContextUpdates DEF Reasons
  <2>4. o \in Outputs
    BY <1>a, <1>d, <2>2, OutputUpdates DEF Kinds, ToldFields
  <2>5. Heard(pc[r], out[r], "delta", o)
    BY <1>a, <1>10, <1>d, <2>1 DEF Chunk, Heard, Same, RunOK, Pushing, Quiet, Kinds, ToldFields,
      Outputs, Announced, Yields, Throws
  <2>6. RunOK("delta", c, o)
    BY <1>a, <1>e, <1>10, <1>d, <2>1, <2>3, <2>4, LoopAssumption DEF Chunk, RunOK, Pushing, Quiet,
      Inside, Kinds, ToldFields, Outputs, Contexts, Announced, One, Yields, Throws
  <2>7. LateOK(aborted', "delta", o)
    BY <1>a, <1>e, <1>10, <1>d, <2>1, <2>3, <2>4 DEF Chunk, Tell, LateOK, Pushing, Quiet, Late, One,
      Kinds, ToldFields, Outputs, Announced, loop, Yields, Throws
  <2> QED BY <2>1, <2>3, <2>4, <2>5, <2>6, <2>7 DEF Sound
<1>11. CASE Resume(r)
  <2> DEFINE c == ctx[r]
             o == out[r]
  <2>1. pc[r] = "delta" /\ Move(r, "calling", c, o) /\ "calling" \in Points
    BY <1>11, <1>b DEF Resume, Move, Report, Points, Yields, Throws
  <2>3. c \in Contexts
    BY <1>a
  <2>4. o \in Outputs
    BY <1>a
  <2>5. Heard(pc[r], out[r], "calling", o)
    BY <1>a, <1>11, <1>d, <2>1 DEF Resume, Heard, Same, RunOK, Pushing, Quiet, Kinds, ToldFields,
      Outputs, Announced, Yields, Throws
  <2>6. RunOK("calling", c, o)
    BY <1>a, <1>e, <1>11, <1>d, <2>1, <2>3, <2>4, LoopAssumption DEF Resume, RunOK, Pushing, Quiet,
      Inside, Kinds, ToldFields, Outputs, Contexts, Announced, One, Yields, Throws
  <2>7. LateOK(aborted', "calling", o)
    BY <1>a, <1>e, <1>11, <1>d, <2>1, <2>3, <2>4 DEF Resume, LateOK, Pushing, Quiet, Late, One,
      Kinds, ToldFields, Outputs, Announced, loop, Yields, Throws
  <2> QED BY <2>1, <2>3, <2>4, <2>5, <2>6, <2>7 DEF Sound
<1>12. CASE Retry(r)
  <2> DEFINE c == ctx[r]
             o == out[r]
  <2>1. pc[r] = "calling" /\ Move(r, "backoff", c, o) /\ "backoff" \in Points
    BY <1>12, <1>b DEF Retry, Move, Report, Points, Yields, Throws
  <2>3. c \in Contexts
    BY <1>a
  <2>4. o \in Outputs
    BY <1>a
  <2>5. Heard(pc[r], out[r], "backoff", o)
    BY <1>a, <1>12, <1>d, <2>1 DEF Retry, Heard, Same, RunOK, Pushing, Quiet, Kinds, ToldFields,
      Outputs, Announced, Yields, Throws
  <2>6. RunOK("backoff", c, o)
    BY <1>a, <1>e, <1>12, <1>d, <2>1, <2>3, <2>4, LoopAssumption DEF Retry, RunOK, Pushing, Quiet,
      Inside, Kinds, ToldFields, Outputs, Contexts, Announced, One, Yields, Throws
  <2>7. LateOK(aborted', "backoff", o)
    BY <1>a, <1>e, <1>12, <1>d, <2>1, <2>3, <2>4 DEF Retry, LateOK, Pushing, Quiet, Late, One,
      Kinds, ToldFields, Outputs, Announced, loop, Yields, Throws
  <2> QED BY <2>1, <2>3, <2>4, <2>5, <2>6, <2>7 DEF Sound
<1>13. CASE Wake(r)
  <2> DEFINE c == [ctx[r] EXCEPT !.attempt = ctx[r].attempt + 1, !.chunks = 0]
             o == [out[r] EXCEPT !.lateCalls = @ + Late]
  <2>0. Move(r, "calling", c, o)
    BY <1>13, Zenon DEF Wake, Attempt, Move, Report
  <2>1. pc[r] = "backoff" /\ Move(r, "calling", c, o) /\ "calling" \in Points
    BY <1>13, <2>0 DEF Wake, Points, Yields, Throws
  <2>2. ctx[r].attempt + 1 \in Nat /\ out[r].lateCalls + Late \in Nat
    BY <1>a, <1>c, <1>e, <1>13, <2>1, LoopAssumption DEF Wake, RunOK, Contexts, Outputs
  <2>3. c \in Contexts
    BY <1>a, <2>2, ContextUpdates DEF Reasons
  <2>4. o \in Outputs
    BY <1>a, <1>d, <2>2, OutputUpdates DEF Kinds, ToldFields
  <2>5. Heard(pc[r], out[r], "calling", o)
    BY <1>a, <1>13, <1>d, <2>1 DEF Wake, Heard, Same, RunOK, Pushing, Quiet, Kinds, ToldFields,
      Outputs, Announced, Yields, Throws
  <2>6. RunOK("calling", c, o)
    BY <1>a, <1>e, <1>13, <1>d, <2>1, <2>3, <2>4, LoopAssumption DEF Wake, RunOK, Pushing, Quiet,
      Inside, Kinds, ToldFields, Outputs, Contexts, Announced, One, Yields, Throws
  <2>7. LateOK(aborted', "calling", o)
    BY <1>a, <1>e, <1>13, <1>d, <2>1, <2>3, <2>4 DEF Wake, Attempt, LateOK, Pushing, Quiet, Late,
      One, Kinds, ToldFields, Outputs, Announced, loop, Yields, Throws
  <2> QED BY <2>1, <2>3, <2>4, <2>5, <2>6, <2>7 DEF Sound
<1>14. CASE WakeAborted(r)
  <2> DEFINE c == [ctx[r] EXCEPT !.reason = "aborted"]
             o == Told(out[r], "error")
  <2>1. pc[r] = "backoff" /\ Move(r, "bail", c, o) /\ "bail" \in Points
    BY <1>14, <1>b DEF WakeAborted, Bail, Tell, Move, Report, Points, Yields, Throws
  <2>3. c \in Contexts
    BY <1>a, ContextUpdates DEF Reasons
  <2>4. o \in Outputs
    BY <1>a, <1>d, OutputUpdates DEF Kinds, ToldFields
  <2>5. Heard(pc[r], out[r], "bail", o)
    BY <1>a, <1>14, <1>d, <2>1 DEF WakeAborted, Heard, Same, RunOK, Pushing, Quiet, Kinds,
      ToldFields, Outputs, Announced, Yields, Throws
  <2>6. RunOK("bail", c, o)
    BY <1>a, <1>e, <1>14, <1>d, <2>1, <2>3, <2>4, LoopAssumption DEF WakeAborted, RunOK, Pushing,
      Quiet, Inside, Kinds, ToldFields, Outputs, Contexts, Announced, One, Yields, Throws
  <2>7. LateOK(aborted', "bail", o)
    BY <1>a, <1>e, <1>14, <1>d, <2>1, <2>3, <2>4 DEF WakeAborted, Bail, Tell, LateOK, Pushing,
      Quiet, Late, One, Kinds, ToldFields, Outputs, Announced, loop, Yields, Throws
  <2> QED BY <2>1, <2>3, <2>4, <2>5, <2>6, <2>7 DEF Sound
<1>15. CASE Fail(r)
  <2> DEFINE c == [ctx[r] EXCEPT !.reason = "error"]
             o == Told(out[r], "error")
  <2>1. pc[r] = "calling" /\ Move(r, "bail", c, o) /\ "bail" \in Points
    BY <1>15, <1>b DEF Fail, Bail, Tell, Move, Report, Points, Yields, Throws
  <2>3. c \in Contexts
    BY <1>a, ContextUpdates DEF Reasons
  <2>4. o \in Outputs
    BY <1>a, <1>d, OutputUpdates DEF Kinds, ToldFields
  <2>5. Heard(pc[r], out[r], "bail", o)
    BY <1>a, <1>15, <1>d, <2>1 DEF Fail, Heard, Same, RunOK, Pushing, Quiet, Kinds, ToldFields,
      Outputs, Announced, Yields, Throws
  <2>6. RunOK("bail", c, o)
    BY <1>a, <1>e, <1>15, <1>d, <2>1, <2>3, <2>4, LoopAssumption DEF Fail, RunOK, Pushing, Quiet,
      Inside, Kinds, ToldFields, Outputs, Contexts, Announced, One, Yields, Throws
  <2>7. LateOK(aborted', "bail", o)
    BY <1>a, <1>e, <1>15, <1>d, <2>1, <2>3, <2>4 DEF Fail, Bail, Tell, LateOK, Pushing, Quiet,
      Late, One, Kinds, ToldFields, Outputs, Announced, loop, Yields, Throws
  <2> QED BY <2>1, <2>3, <2>4, <2>5, <2>6, <2>7 DEF Sound
<1>16. CASE AnswerAborted(r)
  <2> DEFINE c == [ctx[r] EXCEPT !.reason = "aborted"]
             o == Told(out[r], "error")
  <2>1. pc[r] = "calling" /\ Move(r, "bail", c, o) /\ "bail" \in Points
    BY <1>16, <1>b DEF AnswerAborted, Bail, Tell, Move, Report, Points, Yields, Throws
  <2>3. c \in Contexts
    BY <1>a, ContextUpdates DEF Reasons
  <2>4. o \in Outputs
    BY <1>a, <1>d, OutputUpdates DEF Kinds, ToldFields
  <2>5. Heard(pc[r], out[r], "bail", o)
    BY <1>a, <1>16, <1>d, <2>1 DEF AnswerAborted, Heard, Same, RunOK, Pushing, Quiet, Kinds,
      ToldFields, Outputs, Announced, Yields, Throws
  <2>6. RunOK("bail", c, o)
    BY <1>a, <1>e, <1>16, <1>d, <2>1, <2>3, <2>4, LoopAssumption DEF AnswerAborted, RunOK,
      Pushing, Quiet, Inside, Kinds, ToldFields, Outputs, Contexts, Announced, One, Yields, Throws
  <2>7. LateOK(aborted', "bail", o)
    BY <1>a, <1>e, <1>16, <1>d, <2>1, <2>3, <2>4 DEF AnswerAborted, Bail, Tell, LateOK, Pushing,
      Quiet, Late, One, Kinds, ToldFields, Outputs, Announced, loop, Yields, Throws
  <2> QED BY <2>1, <2>3, <2>4, <2>5, <2>6, <2>7 DEF Sound
<1>17. ASSUME NEW cost \in 0..MaxCost, AnswerOverBudget(r, cost)
       PROVE  Sound(r)
  <2> DEFINE c == [ctx[r] EXCEPT !.spent = @ + cost, !.reason = "token_budget"]
             o == Told(out[r], "message")
  <2>0. Move(r, "message", c, o)
    BY <1>17, Zenon DEF AnswerOverBudget, Move, Tell, Report
  <2>1. pc[r] = "calling" /\ Move(r, "message", c, o) /\ "message" \in Points
    BY <1>17, <2>0 DEF AnswerOverBudget, Points, Yields, Throws
  <2>2. ctx[r].spent + cost \in Nat
    BY <1>a, <1>c, <1>e, <1>17, <2>1, LoopAssumption DEF AnswerOverBudget, RunOK, Contexts, Outputs
  <2>3. c \in Contexts
    BY <1>a, <2>2, ContextUpdates DEF Reasons
  <2>4. o \in Outputs
    BY <1>a, <1>d, <2>2, OutputUpdates DEF Kinds, ToldFields
  <2>5. Heard(pc[r], out[r], "message", o)
    BY <1>a, <1>17, <1>d, <2>1 DEF AnswerOverBudget, Heard, Same, RunOK, Pushing, Quiet, Kinds,
      ToldFields, Outputs, Announced, Yields, Throws
  <2>6. RunOK("message", c, o)
    BY <1>a, <1>e, <1>17, <1>d, <2>1, <2>3, <2>4, LoopAssumption DEF AnswerOverBudget, RunOK,
      Pushing, Quiet, Inside, Kinds, ToldFields, Outputs, Contexts, Announced, One, Yields, Throws
  <2>7. LateOK(aborted', "message", o)
    BY <1>a, <1>e, <1>17, <1>d, <2>1, <2>3, <2>4 DEF AnswerOverBudget, LateOK, Pushing, Quiet,
      Late, One, Kinds, ToldFields, Outputs, Announced, loop, Yields, Throws
  <2> QED BY <2>1, <2>3, <2>4, <2>5, <2>6, <2>7 DEF Sound
<1>18. ASSUME NEW cost \in 0..MaxCost, NEW n \in 0..MaxTools, Answer(r, cost, n), n = 0
       PROVE  Sound(r)
  <2> DEFINE c == [ctx[r] EXCEPT !.spent = @ + cost, !.calls = n, !.open = n, !.next = 1]
             o == out[r]
  <2>0. Move(r, "outputGuard", c, o)
    <3>1. Goto(r, "outputGuard", c)
      BY <1>18, Zenon DEF Answer
    <3>2. Report(r, o)
      BY <1>b, <1>18 DEF Answer, Report
    <3> QED BY <3>1, <3>2, Zenon DEF Move
  <2>1. pc[r] = "calling" /\ Move(r, "outputGuard", c, o) /\ "outputGuard" \in Points
    BY <1>18, <2>0 DEF Answer, Points, Yields, Throws
  <2>2. ctx[r].spent + cost \in Nat /\ n \in Nat
    BY <1>a, <1>c, <1>e, <1>18, <2>1, LoopAssumption DEF Answer, RunOK, Contexts, Outputs
  <2>3. c \in Contexts
    BY <1>a, <2>2, ContextUpdates DEF Reasons
  <2>4. o \in Outputs
    BY <1>a, <1>d, <2>2, OutputUpdates DEF Kinds, ToldFields
  <2>5. Heard(pc[r], out[r], "outputGuard", o)
    BY <1>a, <1>18, <1>d, <2>1 DEF Answer, Heard, Same, RunOK, Pushing, Quiet, Kinds, ToldFields,
      Outputs, Announced, Yields, Throws
  <2>6. RunOK("outputGuard", c, o)
    BY <1>a, <1>e, <1>18, <1>d, <2>1, <2>3, <2>4, LoopAssumption DEF Answer, RunOK, Pushing, Quiet,
      Inside, Kinds, ToldFields, Outputs, Contexts, Announced, One, Yields, Throws
  <2>7. LateOK(aborted', "outputGuard", o)
    BY <1>a, <1>e, <1>18, <1>d, <2>1, <2>3, <2>4 DEF Answer, LateOK, Pushing, Quiet, Late, One,
      Kinds, ToldFields, Outputs, Announced, loop, Yields, Throws
  <2> QED BY <2>1, <2>3, <2>4, <2>5, <2>6, <2>7 DEF Sound
<1>19. ASSUME NEW cost \in 0..MaxCost, NEW n \in 0..MaxTools, Answer(r, cost, n), n # 0
       PROVE  Sound(r)
  <2> DEFINE c == [ctx[r] EXCEPT !.spent = @ + cost, !.calls = n, !.open = n, !.next = 1]
             o == out[r]
  <2>0. Move(r, "argGuard", c, o)
    <3>1. Goto(r, "argGuard", c)
      BY <1>19, Zenon DEF Answer
    <3>2. Report(r, o)
      BY <1>b, <1>19 DEF Answer, Report
    <3> QED BY <3>1, <3>2, Zenon DEF Move
  <2>1. pc[r] = "calling" /\ Move(r, "argGuard", c, o) /\ "argGuard" \in Points
    BY <1>19, <2>0 DEF Answer, Points, Yields, Throws
  <2>2. ctx[r].spent + cost \in Nat /\ n \in Nat
    BY <1>a, <1>c, <1>e, <1>19, <2>1, LoopAssumption DEF Answer, RunOK, Contexts, Outputs
  <2>3. c \in Contexts
    BY <1>a, <2>2, ContextUpdates DEF Reasons
  <2>4. o \in Outputs
    BY <1>a, <1>d, <2>2, OutputUpdates DEF Kinds, ToldFields
  <2>5. Heard(pc[r], out[r], "argGuard", o)
    BY <1>a, <1>19, <1>d, <2>1 DEF Answer, Heard, Same, RunOK, Pushing, Quiet, Kinds, ToldFields,
      Outputs, Announced, Yields, Throws
  <2>6. RunOK("argGuard", c, o)
    BY <1>a, <1>e, <1>19, <1>d, <2>1, <2>3, <2>4, LoopAssumption DEF Answer, RunOK, Pushing, Quiet,
      Inside, Kinds, ToldFields, Outputs, Contexts, Announced, One, Yields, Throws
  <2>7. LateOK(aborted', "argGuard", o)
    BY <1>a, <1>e, <1>19, <1>d, <2>1, <2>3, <2>4 DEF Answer, LateOK, Pushing, Quiet, Late, One,
      Kinds, ToldFields, Outputs, Announced, loop, Yields, Throws
  <2> QED BY <2>1, <2>3, <2>4, <2>5, <2>6, <2>7 DEF Sound
<1>20. CASE EndTurn(r)
  <2> DEFINE c == [ctx[r] EXCEPT !.reason = "end_turn"]
             o == Told(out[r], "message")
  <2>1. pc[r] = "outputGuard" /\ Move(r, "message", c, o) /\ "message" \in Points
    BY <1>20, <1>b DEF EndTurn, Tell, Move, Report, Points, Yields, Throws
  <2>3. c \in Contexts
    BY <1>a, ContextUpdates DEF Reasons
  <2>4. o \in Outputs
    BY <1>a, <1>d, OutputUpdates DEF Kinds, ToldFields
  <2>5. Heard(pc[r], out[r], "message", o)
    BY <1>a, <1>20, <1>d, <2>1 DEF EndTurn, Heard, Same, RunOK, Pushing, Quiet, Kinds, ToldFields,
      Outputs, Announced, Yields, Throws
  <2>6. RunOK("message", c, o)
    BY <1>a, <1>e, <1>20, <1>d, <2>1, <2>3, <2>4, LoopAssumption DEF EndTurn, RunOK, Pushing, Quiet,
      Inside, Kinds, ToldFields, Outputs, Contexts, Announced, One, Yields, Throws
  <2>7. LateOK(aborted', "message", o)
    BY <1>a, <1>e, <1>20, <1>d, <2>1, <2>3, <2>4 DEF EndTurn, Tell, LateOK, Pushing, Quiet, Late,
      One, Kinds, ToldFields, Outputs, Announced, loop, Yields, Throws
  <2> QED BY <2>1, <2>3, <2>4, <2>5, <2>6, <2>7 DEF Sound
<1>21. CASE BudgetError(r)
  <2> DEFINE c == [ctx[r] EXCEPT !.reason = "token_budget"]
             o == Told(out[r], "error")
  <2>1. pc[r] = "message" /\ Move(r, "bail", c, o) /\ "bail" \in Points
    BY <1>21, <1>b DEF BudgetError, Bail, Tell, Move, Report, Points, Yields, Throws
  <2>3. c \in Contexts
    BY <1>a, ContextUpdates DEF Reasons
  <2>4. o \in Outputs
    BY <1>a, <1>d, OutputUpdates DEF Kinds, ToldFields
  <2>5. Heard(pc[r], out[r], "bail", o)
    BY <1>a, <1>21, <1>d, <2>1 DEF BudgetError, Heard, Same, RunOK, Pushing, Quiet, Kinds,
      ToldFields, Outputs, Announced, Yields, Throws
  <2>6. RunOK("bail", c, o)
    BY <1>a, <1>e, <1>21, <1>d, <2>1, <2>3, <2>4, LoopAssumption DEF BudgetError, RunOK, Pushing,
      Quiet, Inside, Kinds, ToldFields, Outputs, Contexts, Announced, One, Yields, Throws
  <2>7. LateOK(aborted', "bail", o)
    BY <1>a, <1>e, <1>21, <1>d, <2>1, <2>3, <2>4 DEF BudgetError, Bail, Tell, LateOK, Pushing,
      Quiet, Late, One, Kinds, ToldFields, Outputs, Announced, loop, Yields, Throws
  <2> QED BY <2>1, <2>3, <2>4, <2>5, <2>6, <2>7 DEF Sound
<1>22. CASE Terminate(r)
  <2> DEFINE c == [ctx[r] EXCEPT !.span = 0, !.latch = 1]
             o == [Told(out[r], "done") EXCEPT !.ended = @ + (1 - ctx[r].latch)]
  <2>0. Move(r, "done", c, o)
    BY <1>22, Zenon DEF Terminate, Move, Report
  <2>1. pc[r] \in {"bail", "message"} /\ Move(r, "done", c, o) /\ "done" \in Points
    BY <1>22, <2>0 DEF Terminate, Points, Yields, Throws
  <2>2. ctx[r].spent \in Nat /\ out[r].ended + (1 - ctx[r].latch) \in Nat
    BY <1>a, <1>c, <1>e, <1>22, <2>1, LoopAssumption DEF Terminate, RunOK, Contexts, Outputs
  <2>3. c \in Contexts
    BY <1>a, <2>2, ContextUpdates DEF Reasons
  <2>4. o \in Outputs
    BY <1>a, <1>d, <2>2, OutputUpdates DEF Kinds, ToldFields
  <2>5. Heard(pc[r], out[r], "done", o)
    BY <1>a, <1>22, <1>d, <2>1 DEF Terminate, Heard, Same, RunOK, Pushing, Quiet, Kinds, ToldFields,
      Outputs, Announced, Yields, Throws
  <2>6. RunOK("done", c, o)
    BY <1>a, <1>e, <1>22, <1>d, <2>1, <2>3, <2>4, LoopAssumption DEF Terminate, RunOK, Pushing,
      Quiet, Inside, Kinds, ToldFields, Outputs, Contexts, Announced, One, Yields, Throws
  <2>7. LateOK(aborted', "done", o)
    BY <1>a, <1>e, <1>22, <1>d, <2>1, <2>3, <2>4 DEF Terminate, LateOK, Pushing, Quiet, Late, One,
      Kinds, ToldFields, Outputs, Announced, loop, Yields, Throws
  <2> QED BY <2>1, <2>3, <2>4, <2>5, <2>6, <2>7 DEF Sound
<1>23. CASE ToolCall(r)
  <2> DEFINE c == ctx[r]
             o == Told(out[r], "content")
  <2>1. pc[r] = "argGuard" /\ Move(r, "toolCall", c, o) /\ "toolCall" \in Points
    BY <1>23, <1>b DEF ToolCall, Tell, Move, Report, Points, Yields, Throws
  <2>3. c \in Contexts
    BY <1>a
  <2>4. o \in Outputs
    BY <1>a, <1>d, OutputUpdates DEF Kinds, ToldFields
  <2>5. Heard(pc[r], out[r], "toolCall", o)
    BY <1>a, <1>23, <1>d, <2>1 DEF ToolCall, Heard, Same, RunOK, Pushing, Quiet, Kinds, ToldFields,
      Outputs, Announced, Yields, Throws
  <2>6. RunOK("toolCall", c, o)
    BY <1>a, <1>e, <1>23, <1>d, <2>1, <2>3, <2>4, LoopAssumption DEF ToolCall, RunOK, Pushing,
      Quiet, Inside, Kinds, ToldFields, Outputs, Contexts, Announced, One, Yields, Throws
  <2>7. LateOK(aborted', "toolCall", o)
    BY <1>a, <1>e, <1>23, <1>d, <2>1, <2>3, <2>4 DEF ToolCall, Tell, LateOK, Pushing, Quiet, Late,
      One, Kinds, ToldFields, Outputs, Announced, loop, Yields, Throws
  <2> QED BY <2>1, <2>3, <2>4, <2>5, <2>6, <2>7 DEF Sound
<1>24. CASE NextTool(r)
  <2> DEFINE c == [ctx[r] EXCEPT !.next = @ + 1]
             o == out[r]
  <2>1. pc[r] = "toolCall" /\ Move(r, "argGuard", c, o) /\ "argGuard" \in Points
    BY <1>24, <1>b DEF NextTool, Move, Report, Points, Yields, Throws
  <2>2. ctx[r].next + 1 \in Nat
    BY <1>a, <1>c, <1>e, <1>24, <2>1, LoopAssumption DEF NextTool, RunOK, Contexts, Outputs
  <2>3. c \in Contexts
    BY <1>a, <2>2, ContextUpdates DEF Reasons
  <2>4. o \in Outputs
    BY <1>a
  <2>5. Heard(pc[r], out[r], "argGuard", o)
    BY <1>a, <1>24, <1>d, <2>1 DEF NextTool, Heard, Same, RunOK, Pushing, Quiet, Kinds, ToldFields,
      Outputs, Announced, Yields, Throws
  <2>6. RunOK("argGuard", c, o)
    BY <1>a, <1>e, <1>24, <1>d, <2>1, <2>3, <2>4, LoopAssumption DEF NextTool, RunOK, Pushing,
      Quiet, Inside, Kinds, ToldFields, Outputs, Contexts, Announced, One, Yields, Throws
  <2>7. LateOK(aborted', "argGuard", o)
    BY <1>a, <1>e, <1>24, <1>d, <2>1, <2>3, <2>4 DEF NextTool, LateOK, Pushing, Quiet, Late, One,
      Kinds, ToldFields, Outputs, Announced, loop, Yields, Throws
  <2> QED BY <2>1, <2>3, <2>4, <2>5, <2>6, <2>7 DEF Sound
<1>25. CASE Execute(r)
  <2> DEFINE c == ctx[r]
             o == [out[r] EXCEPT !.lateBatches = @ + Late]
  <2>0. Move(r, "executing", c, o)
    BY <1>25, Zenon DEF Execute, Move, Report
  <2>1. pc[r] = "toolCall" /\ Move(r, "executing", c, o) /\ "executing" \in Points
    BY <1>25, <2>0 DEF Execute, Points, Yields, Throws
  <2>2. out[r].lateBatches + Late \in Nat
    BY <1>a, <1>c, <1>e, <1>25, <2>1, LoopAssumption DEF Execute, RunOK, Contexts, Outputs
  <2>3. c \in Contexts
    BY <1>a
  <2>4. o \in Outputs
    BY <1>a, <1>d, <2>2, OutputUpdates DEF Kinds, ToldFields
  <2>5. Heard(pc[r], out[r], "executing", o)
    BY <1>a, <1>25, <1>d, <2>1 DEF Execute, Heard, Same, RunOK, Pushing, Quiet, Kinds, ToldFields,
      Outputs, Announced, Yields, Throws
  <2>6. RunOK("executing", c, o)
    BY <1>a, <1>e, <1>25, <1>d, <2>1, <2>3, <2>4, LoopAssumption DEF Execute, RunOK, Pushing, Quiet,
      Inside, Kinds, ToldFields, Outputs, Contexts, Announced, One, Yields, Throws
  <2>7. LateOK(aborted', "executing", o)
    BY <1>a, <1>e, <1>25, <1>d, <2>1, <2>3, <2>4 DEF Execute, LateOK, Pushing, Quiet, Late, One,
      Kinds, ToldFields, Outputs, Announced, loop, Yields, Throws
  <2> QED BY <2>1, <2>3, <2>4, <2>5, <2>6, <2>7 DEF Sound
<1>26. CASE Results(r)
  <2> DEFINE c == [ctx[r] EXCEPT !.next = 1]
             o == Told(out[r], "content")
  <2>1. pc[r] = "executing" /\ Move(r, "toolResult", c, o) /\ "toolResult" \in Points
    BY <1>26, <1>b DEF Results, Tell, Move, Report, Points, Yields, Throws
  <2>3. c \in Contexts
    BY <1>a, ContextUpdates DEF Reasons
  <2>4. o \in Outputs
    BY <1>a, <1>d, OutputUpdates DEF Kinds, ToldFields
  <2>5. Heard(pc[r], out[r], "toolResult", o)
    BY <1>a, <1>26, <1>d, <2>1 DEF Results, Heard, Same, RunOK, Pushing, Quiet, Kinds, ToldFields,
      Outputs, Announced, Yields, Throws
  <2>6. RunOK("toolResult", c, o)
    BY <1>a, <1>e, <1>26, <1>d, <2>1, <2>3, <2>4, LoopAssumption DEF Results, RunOK, Pushing, Quiet,
      Inside, Kinds, ToldFields, Outputs, Contexts, Announced, One, Yields, Throws
  <2>7. LateOK(aborted', "toolResult", o)
    BY <1>a, <1>e, <1>26, <1>d, <2>1, <2>3, <2>4 DEF Results, Tell, LateOK, Pushing, Quiet, Late,
      One, Kinds, ToldFields, Outputs, Announced, loop, Yields, Throws
  <2> QED BY <2>1, <2>3, <2>4, <2>5, <2>6, <2>7 DEF Sound
<1>27. CASE Note(r)
  <2> DEFINE c == ctx[r]
             o == Told(out[r], "content")
  <2>1. pc[r] = "toolResult" /\ Move(r, "note", c, o) /\ "note" \in Points
    BY <1>27, <1>b DEF Note, Tell, Move, Report, Points, Yields, Throws
  <2>3. c \in Contexts
    BY <1>a
  <2>4. o \in Outputs
    BY <1>a, <1>d, OutputUpdates DEF Kinds, ToldFields
  <2>5. Heard(pc[r], out[r], "note", o)
    BY <1>a, <1>27, <1>d, <2>1 DEF Note, Heard, Same, RunOK, Pushing, Quiet, Kinds, ToldFields,
      Outputs, Announced, Yields, Throws
  <2>6. RunOK("note", c, o)
    BY <1>a, <1>e, <1>27, <1>d, <2>1, <2>3, <2>4, LoopAssumption DEF Note, RunOK, Pushing, Quiet,
      Inside, Kinds, ToldFields, Outputs, Contexts, Announced, One, Yields, Throws
  <2>7. LateOK(aborted', "note", o)
    BY <1>a, <1>e, <1>27, <1>d, <2>1, <2>3, <2>4 DEF Note, Tell, LateOK, Pushing, Quiet, Late,
      One, Kinds, ToldFields, Outputs, Announced, loop, Yields, Throws
  <2> QED BY <2>1, <2>3, <2>4, <2>5, <2>6, <2>7 DEF Sound
<1>28. CASE PushNext(r)
  <2> DEFINE c == [ctx[r] EXCEPT !.open = @ - 1, !.next = @ + 1]
             o == Told(out[r], "content")
  <2>1. pc[r] \in Pushing /\ Move(r, "toolResult", c, o) /\ "toolResult" \in Points
    BY <1>28, <1>b DEF PushNext, Pushing, Tell, Move, Report, Points, Yields, Throws
  <2>2. ctx[r].open - 1 \in Nat /\ ctx[r].next + 1 \in Nat
    BY <1>a, <1>c, <1>e, <1>28, <2>1, LoopAssumption DEF PushNext, Pushing, RunOK, Contexts, Outputs
  <2>3. c \in Contexts
    BY <1>a, <2>2, ContextUpdates DEF Reasons
  <2>4. o \in Outputs
    BY <1>a, <1>d, <2>2, OutputUpdates DEF Kinds, ToldFields
  <2>5. Heard(pc[r], out[r], "toolResult", o)
    BY <1>a, <1>28, <1>d, <2>1 DEF PushNext, Pushing, Heard, Same, RunOK, Pushing, Quiet, Kinds,
      ToldFields, Outputs, Announced, Yields, Throws
  <2>6. RunOK("toolResult", c, o)
    BY <1>a, <1>e, <1>28, <1>d, <2>1, <2>3, <2>4, LoopAssumption DEF PushNext, Pushing, RunOK,
      Pushing, Quiet, Inside, Kinds, ToldFields, Outputs, Contexts, Announced, One, Yields, Throws
  <2>7. LateOK(aborted', "toolResult", o)
    BY <1>a, <1>e, <1>28, <1>d, <2>1, <2>3, <2>4 DEF PushNext, Pushing, Tell, LateOK, Pushing,
      Quiet, Late, One, Kinds, ToldFields, Outputs, Announced, loop, Yields, Throws
  <2> QED BY <2>1, <2>3, <2>4, <2>5, <2>6, <2>7 DEF Sound
<1>29. CASE PushAborted(r)
  <2> DEFINE c == [ctx[r] EXCEPT !.reason = "aborted"]
             o == Told(out[r], "error")
  <2>1. pc[r] \in Pushing /\ Move(r, "bail", c, o) /\ "bail" \in Points
    BY <1>29, <1>b DEF PushAborted, Pushing, Bail, Tell, Move, Report, Points, Yields, Throws
  <2>3. c \in Contexts
    BY <1>a, ContextUpdates DEF Reasons
  <2>4. o \in Outputs
    BY <1>a, <1>d, OutputUpdates DEF Kinds, ToldFields
  <2>5. Heard(pc[r], out[r], "bail", o)
    BY <1>a, <1>29, <1>d, <2>1 DEF PushAborted, Pushing, Heard, Same, RunOK, Pushing, Quiet,
      Kinds, ToldFields, Outputs, Announced, Yields, Throws
  <2>6. RunOK("bail", c, o)
    BY <1>a, <1>e, <1>29, <1>d, <2>1, <2>3, <2>4, LoopAssumption DEF PushAborted, Pushing, RunOK,
      Pushing, Quiet, Inside, Kinds, ToldFields, Outputs, Contexts, Announced, One, Yields, Throws
  <2>7. LateOK(aborted', "bail", o)
    BY <1>a, <1>e, <1>29, <1>d, <2>1, <2>3, <2>4 DEF PushAborted, Pushing, Bail, Tell, LateOK,
      Pushing, Quiet, Late, One, Kinds, ToldFields, Outputs, Announced, loop, Yields, Throws
  <2> QED BY <2>1, <2>3, <2>4, <2>5, <2>6, <2>7 DEF Sound
<1>30. CASE PushLast(r)
  <2> DEFINE c == [ctx[r] EXCEPT !.open = @ - 1, !.latch = 1]
             o == [out[r] EXCEPT !.ended = @ + (1 - ctx[r].latch)]
  <2>0. Move(r, "top", c, o)
    BY <1>30, Zenon DEF PushLast, Pushing, Move, Report
  <2>1. pc[r] \in Pushing /\ Move(r, "top", c, o) /\ "top" \in Points
    BY <1>30, <2>0 DEF PushLast, Pushing, Points, Yields, Throws
  <2>2. ctx[r].open - 1 \in Nat /\ out[r].ended + (1 - ctx[r].latch) \in Nat
    BY <1>a, <1>c, <1>e, <1>30, <2>1, LoopAssumption DEF PushLast, Pushing, RunOK, Contexts, Outputs
  <2>3. c \in Contexts
    BY <1>a, <2>2, ContextUpdates DEF Reasons
  <2>4. o \in Outputs
    BY <1>a, <1>d, <2>2, OutputUpdates DEF Kinds, ToldFields
  <2>5. Heard(pc[r], out[r], "top", o)
    BY <1>a, <1>30, <1>d, <2>1 DEF PushLast, Pushing, Heard, Same, RunOK, Pushing, Quiet, Kinds,
      ToldFields, Outputs, Announced, Yields, Throws
  <2>6. RunOK("top", c, o)
    BY <1>a, <1>e, <1>30, <1>d, <2>1, <2>3, <2>4, LoopAssumption DEF PushLast, Pushing, RunOK,
      Pushing, Quiet, Inside, Kinds, ToldFields, Outputs, Contexts, Announced, One, Yields, Throws
  <2>7. LateOK(aborted', "top", o)
    BY <1>a, <1>e, <1>30, <1>d, <2>1, <2>3, <2>4 DEF PushLast, Pushing, LateOK, Pushing, Quiet,
      Late, One, Kinds, ToldFields, Outputs, Announced, loop, Yields, Throws
  <2> QED BY <2>1, <2>3, <2>4, <2>5, <2>6, <2>7 DEF Sound
<1>31. CASE Finish(r)
  <2> DEFINE c == Fresh
             o == out[r]
  <2>1. pc[r] \in {"done", "preDone"} /\ Move(r, "closed", c, o) /\ "closed" \in Points
    BY <1>31, <1>b DEF Finish, Finalize, Move, Report, Points, Yields, Throws
  <2>3. c \in Contexts
    BY <1>a
  <2>4. o \in Outputs
    BY <1>a
  <2>5. Heard(pc[r], out[r], "closed", o)
    BY <1>a, <1>31, <1>d, <2>1 DEF Finish, Heard, Same, RunOK, Pushing, Quiet, Kinds, ToldFields,
      Outputs, Announced, Yields, Throws
  <2>6. RunOK("closed", c, o)
    BY <1>a, <1>e, <1>31, <1>d, <2>1, <2>3, <2>4, LoopAssumption DEF Finish, RunOK, Pushing, Quiet,
      Inside, Kinds, ToldFields, Outputs, Contexts, Announced, One, Yields, Throws
  <2>7. LateOK(aborted', "closed", o)
    BY <1>a, <1>e, <1>31, <1>d, <2>1, <2>3, <2>4 DEF Finish, Finalize, LateOK, Pushing, Quiet,
      Late, One, Kinds, ToldFields, Outputs, Announced, loop, Yields, Throws
  <2> QED BY <2>1, <2>3, <2>4, <2>5, <2>6, <2>7 DEF Sound
<1>32. CASE Close(r)
  <2> DEFINE c == Fresh
             o == out[r]
  <2>1. pc[r] \in Yields \cup Throws /\ Move(r, "closed", c, o) /\ "closed" \in Points
    BY <1>32, <1>b DEF Close, Finalize, Move, Report, Points, Yields, Throws
  <2>3. c \in Contexts
    BY <1>a
  <2>4. o \in Outputs
    BY <1>a
  <2>5. Heard(pc[r], out[r], "closed", o)
    BY <1>a, <1>32, <1>d, <2>1 DEF Close, Heard, Same, RunOK, Pushing, Quiet, Kinds, ToldFields,
      Outputs, Announced, Yields, Throws
  <2>6. RunOK("closed", c, o)
    BY <1>a, <1>e, <1>32, <1>d, <2>1, <2>3, <2>4, LoopAssumption DEF Close, RunOK, Pushing, Quiet,
      Inside, Kinds, ToldFields, Outputs, Contexts, Announced, One, Yields, Throws
  <2>7. LateOK(aborted', "closed", o)
    BY <1>a, <1>e, <1>32, <1>d, <2>1, <2>3, <2>4 DEF Close, Finalize, LateOK, Pushing, Quiet,
      Late, One, Kinds, ToldFields, Outputs, Announced, loop, Yields, Throws
  <2> QED BY <2>1, <2>3, <2>4, <2>5, <2>6, <2>7 DEF Sound
<1>33. CASE Top(r)
  <2>1. /\ Check(r, ctx[r], aborted) /\ pc[r] = "top" /\ aborted' = aborted
    BY <1>33 DEF Top
  <2>2. /\ out[r].last \in {"none", "iteration_start", "content", "result_blocked"}
        /\ out[r].errors = 0
        /\ out[r].dones = 0 /\ out[r].number = out[r].starts /\ out[r].ended = 1
        /\ ctx[r].iteration = out[r].starts /\ ctx[r].open = 0
    BY <2>1 DEF RunOK, Pushing, Quiet, Inside
  <2>3. out[r].lateCalls <= 1 /\ (aborted' \/ out[r].lateCalls = 0) /\ out[r].lateBatches = 0
    BY <2>1 DEF LateOK, Pushing, Quiet
  <2> QED BY <1>a, <1>e, <2>1, <2>2, <2>3, CheckSound DEF TypeOK
<1>34. CASE Start(r)
  <2>1. Check(r, Fresh, aborted') /\ pc[r] = "new" /\ aborted' \in BOOLEAN /\ usage \in Nat
    BY <1>34 DEF Start, TypeOK
  <2>2. out[r] = Silent
    BY <2>1 DEF RunOK
  <2> QED BY <1>a, <2>1, <2>2, CheckSound DEF Fresh, Silent
<1>35. CASE BlockResult(r)
  <2> DEFINE c == ctx[r]
             o == Told(out[r], "result_blocked")
  <2>1. pc[r] \in {"toolResult", "note"} /\ Move(r, "stub", c, o) /\ "stub" \in Points
    BY <1>35, <1>b DEF BlockResult, Tell, Move, Report, Points, Yields, Throws
  <2>3. c \in Contexts
    BY <1>a
  <2>4. o \in Outputs
    BY <1>a, <1>d, OutputUpdates DEF Kinds, ToldFields
  <2>5. Heard(pc[r], out[r], "stub", o)
    BY <1>a, <1>35, <1>d, <2>1 DEF BlockResult, Heard, Same, RunOK, Pushing, Quiet, Kinds,
      ToldFields, Outputs, Announced, Yields, Throws
  <2>6. RunOK("stub", c, o)
    BY <1>a, <1>e, <1>35, <1>d, <2>1, <2>3, <2>4, LoopAssumption DEF BlockResult, RunOK, Pushing,
      Quiet, Inside, Kinds, ToldFields, Outputs, Contexts, Announced, One, Yields, Throws
  <2>7. LateOK(aborted', "stub", o)
    BY <1>a, <1>e, <1>35, <1>d, <2>1, <2>3, <2>4 DEF BlockResult, Tell, LateOK, Pushing, Quiet,
      Late, One, Kinds, ToldFields, Outputs, Announced, loop, Yields, Throws
  <2> QED BY <2>1, <2>3, <2>4, <2>5, <2>6, <2>7 DEF Sound
<1> QED BY <1>1, <1>2, <1>3, <1>4, <1>5, <1>6, <1>7, <1>8, <1>9, <1>10, <1>11, <1>12, <1>13,
    <1>14, <1>15, <1>16, <1>17, <1>18, <1>19, <1>20, <1>21, <1>22, <1>23, <1>24, <1>25, <1>26,
        <1>27, <1>28, <1>29, <1>30, <1>31, <1>32, <1>33, <1>34, <1>35 DEF Step

\* A sound step of one run keeps every run as it should be, and is heard as it should.
LEMMA SoundKeeps ==
  ASSUME TypeOK, NEW r \in Runs, Sound(r), aborted' \in BOOLEAN, aborted => aborted',
         \A q \in Runs : RunOK(pc[q], ctx[q], out[q]) /\ LateOK(aborted, pc[q], out[q])
  PROVE  /\ pc' \in [Runs -> Points] /\ ctx' \in [Runs -> Contexts] /\ out' \in [Runs -> Outputs]
         /\ (\A q \in Runs : RunOK(pc[q], ctx[q], out[q]) /\ LateOK(aborted, pc[q], out[q]))'
         /\ \A q \in Runs : Heard(pc[q], out[q], pc'[q], out'[q])
<1>1. PICK p \in Points, c \in Contexts, o \in Outputs :
        /\ Move(r, p, c, o)
        /\ RunOK(p, c, o) /\ LateOK(aborted', p, o)
        /\ Heard(pc[r], out[r], p, o)
  BY DEF Sound
<1>2. /\ pc' = [pc EXCEPT ![r] = p] /\ ctx' = [ctx EXCEPT ![r] = c]
      /\ out' = [out EXCEPT ![r] = o]
  BY <1>1 DEF Move, Goto, Report
<1>3. pc' \in [Runs -> Points] /\ ctx' \in [Runs -> Contexts] /\ out' \in [Runs -> Outputs]
  BY <1>2 DEF TypeOK
<1>4. ASSUME NEW q \in Runs
      PROVE  /\ RunOK(pc'[q], ctx'[q], out'[q]) /\ LateOK(aborted', pc'[q], out'[q])
             /\ Heard(pc[q], out[q], pc'[q], out'[q])
  <2>1. CASE q = r
    <3>1. pc'[q] = p /\ ctx'[q] = c /\ out'[q] = o
      BY <1>2, <2>1 DEF TypeOK
    <3> QED BY <1>1, <2>1, <3>1
  <2>2. CASE q # r
    <3>1. pc'[q] = pc[q] /\ ctx'[q] = ctx[q] /\ out'[q] = out[q]
      BY <1>2, <2>2 DEF TypeOK
    <3>2. RunOK(pc'[q], ctx'[q], out'[q])
      BY <3>1
    <3>3. LateOK(aborted', pc'[q], out'[q])
      BY <3>1 DEF LateOK
    <3> QED BY <3>1, <3>2, <3>3 DEF Heard, Same
  <2> QED BY <2>1, <2>2
<1> QED BY <1>3, <1>4

\* What a step of run r does to the state the runs share, and to its spans.
Effects(r) ==
  /\ aborted' \in BOOLEAN /\ (aborted => aborted')
  /\ pc[r] \in Active \/ pc'[r] \notin Active
  /\ pc[r] \in Working \/ pc'[r] \notin Working
  /\ pc'[r] # "new" /\ (pc[r] = "new" => trace' = trace)
  /\ \/ status' = status
     \/ pc[r] \in Active /\ pc'[r] \notin Active /\ status # "disposed" /\ status' \in {"completed", "errored"}
  /\ handler' \in {handler, NoRun} /\ listeners' \subseteq listeners /\ signalled' = signalled
  /\ usage' \in {usage, ctx[r].spent}
  /\ \/ trace' = trace /\ (pc'[r] = "closed" => pc[r] \in {"new", "closed"})
     \/ trace' = [trace EXCEPT ![r] = "completed"]
     \/ trace' = [trace EXCEPT ![r] = "error"]
  /\ spans' = [spans EXCEPT ![r] = {ctx'[r].span} \ {0}]

\* Every step of a run but Start has these effects.
LEMMA StepEffects ==
  ASSUME TypeOK, NEW r \in Runs, RunOK(pc[r], ctx[r], out[r]), spans[r] = {ctx[r].span} \ {0},
         Refuse(r) \/ Step(r) \/ Close(r)
  PROVE  Effects(r)
<1>a. /\ pc \in [Runs -> Points] /\ ctx \in [Runs -> Contexts] /\ aborted \in BOOLEAN
      /\ pc[r] \in Points /\ ctx[r] \in Contexts /\ Fresh \in Contexts
      /\ spans = [spans EXCEPT ![r] = {ctx[r].span} \ {0}]
      /\ trace \in [Runs -> {"none", "open", "completed", "error"}]
      /\ spans \in [Runs -> SUBSET (Nat \ {0})]
  BY FreshLemma DEF TypeOK
<1>1. CASE Refuse(r)
  <2>1. ctx[r] = Fresh
    BY <1>1 DEF Refuse, RunOK
  <2> QED BY <1>a, <1>1, <2>1 DEF Refuse, Effects, Goto, Active, Working, Points, Yields, loop,
      signal, traces, Contexts
<1>2. CASE Top(r)
  <2>1. Check(r, ctx[r], aborted)
    BY <1>2 DEF Top
  <2>2. PICK c, p : p \in {"checked", "preStart"} /\ c.span = ctx[r].span /\ Goto(r, p, c)
    <3>1. PICK late \in BOOLEAN :
            LET stop == aborted \/ late
                n == ctx[r].iteration + 1
                d == [ctx[r] EXCEPT !.iteration = IF stop THEN @ ELSE n,
                                    !.reason = PreStop(ctx[r], stop)]
            IN Goto(r, "checked", d) \/ Goto(r, "preStart", d)
      BY <2>1 DEF Check
    <3> DEFINE i == IF aborted \/ late THEN ctx[r].iteration ELSE ctx[r].iteration + 1
               x == PreStop(ctx[r], aborted \/ late)
               d == [ctx[r] EXCEPT !.iteration = i, !.reason = x]
    <3>2. Goto(r, "checked", d) \/ Goto(r, "preStart", d)
      BY <3>1
    <3> HIDE DEF i, x
    <3>3. d.span = ctx[r].span
      BY <1>a DEF Contexts
    <3> QED BY <3>2, <3>3
  <2> QED BY <1>a, <1>2, <2>2 DEF Top, Effects, Goto, Active, Working, Points, Yields, Throws,
      signal, traces
<1>3. CASE PreError(r)
  BY <1>a, <1>3 DEF PreError, Effects, Goto, Active, Working, Points, Yields, Throws, Contexts,
    loop, signal, traces
<1>4. CASE PreDone(r)
  BY <1>a, <1>4 DEF PreDone, Settle, Effects, Goto, Active, Working, Points, Yields, Throws,
    Contexts, loop, signal, traces
<1>5. CASE Warn(r)
  BY <1>a, <1>5 DEF Warn, Effects, Goto, Active, Working, Points, Yields, Throws, Contexts, loop,
    signal, traces
<1>6. CASE Begin(r)
  <2> DEFINE n == ctx[r].iteration
             c == [ctx[r] EXCEPT !.span = n, !.latch = 0]
  <2>1. n \in Nat \ {0}
    BY <1>6 DEF Begin, RunOK, TypeOK, Outputs
  <2>2. c.span = n /\ (spans[r] \ {ctx[r].span}) \cup {n} = {n} \ {0}
    BY <1>a, <2>1 DEF Contexts
  <2>3. /\ ctx' = [ctx EXCEPT ![r] = c] /\ pc' = [pc EXCEPT ![r] = "started"]
        /\ spans' = [spans EXCEPT ![r] = (spans[r] \ {ctx[r].span}) \cup {n}]
        /\ pc[r] \in {"checked", "warn"} /\ UNCHANGED <<loop, signal, trace>>
    BY <1>6 DEF Begin, Goto
  <2> HIDE DEF c, n
  <2>4. spans' = [spans EXCEPT ![r] = {ctx'[r].span} \ {0}]
    BY <1>a, <2>2, <2>3
  <2> QED BY <1>a, <2>3, <2>4 DEF Effects, Active, Working, Points, Yields, Throws, loop, signal
<1>7. CASE GuardInput(r)
  BY <1>a, <1>7 DEF GuardInput, Effects, Goto, Active, Working, Points, Yields, Throws, Contexts,
    loop, signal, traces
<1>8. CASE Block(r)
  BY <1>a, <1>8 DEF Block, Effects, Goto, Active, Working, Points, Yields, Throws, Contexts,
    loop, signal, traces
<1>9. CASE BlockError(r)
  BY <1>a, <1>9 DEF BlockError, Bail, Effects, Goto, Active, Working, Points, Yields, Throws,
    Contexts, loop, signal, traces
<1>10. CASE CallModel(r)
  BY <1>a, <1>10 DEF CallModel, Attempt, Effects, Goto, Active, Working, Points, Yields, Throws,
    Contexts, loop, signal, traces
<1>11. CASE Chunk(r)
  BY <1>a, <1>11 DEF Chunk, Effects, Goto, Active, Working, Points, Yields, Throws, Contexts,
    loop, signal, traces
<1>12. CASE Resume(r)
  BY <1>a, <1>12 DEF Resume, Effects, Goto, Active, Working, Points, Yields, Throws, Contexts,
    loop, signal, traces
<1>13. CASE Retry(r)
  BY <1>a, <1>13 DEF Retry, Effects, Goto, Active, Working, Points, Yields, Throws, Contexts,
    loop, signal, traces
<1>14. CASE Wake(r)
  BY <1>a, <1>14 DEF Wake, Attempt, Effects, Goto, Active, Working, Points, Yields, Throws,
    Contexts, loop, signal, traces
<1>15. CASE WakeAborted(r)
  BY <1>a, <1>15 DEF WakeAborted, Bail, Effects, Goto, Active, Working, Points, Yields, Throws,
    Contexts, loop, signal, traces
<1>16. CASE Fail(r)
  BY <1>a, <1>16 DEF Fail, Bail, Effects, Goto, Active, Working, Points, Yields, Throws,
    Contexts, loop, signal, traces
<1>17. CASE AnswerAborted(r)
  BY <1>a, <1>17 DEF AnswerAborted, Bail, Effects, Goto, Active, Working, Points, Yields, Throws,
    Contexts, loop, signal, traces
<1>18. ASSUME NEW cost \in 0..MaxCost, AnswerOverBudget(r, cost) PROVE Effects(r)
  BY <1>a, <1>18 DEF AnswerOverBudget, Effects, Goto, Active, Working, Points, Yields, Throws,
    Contexts, loop, signal, traces
<1>19. ASSUME NEW cost \in 0..MaxCost, NEW n \in 0..MaxTools, Answer(r, cost, n) PROVE Effects(r)
  BY <1>a, <1>19 DEF Answer, Effects, Goto, Active, Working, Points, Yields, Throws, Contexts,
    loop, signal, traces
<1>20. CASE EndTurn(r)
  BY <1>a, <1>20 DEF EndTurn, Effects, Goto, Active, Working, Points, Yields, Throws, Contexts,
    loop, signal, traces
<1>21. CASE BudgetError(r)
  BY <1>a, <1>21 DEF BudgetError, Bail, Effects, Goto, Active, Working, Points, Yields, Throws,
    Contexts, loop, signal, traces
<1>22. CASE Terminate(r)
  BY <1>a, <1>22 DEF Terminate, Settle, Effects, Goto, Active, Working, Points, Yields, Throws,
    Contexts, loop, signal, traces
<1>23. CASE ToolCall(r)
  BY <1>a, <1>23 DEF ToolCall, Effects, Goto, Active, Working, Points, Yields, Throws, Contexts,
    loop, signal, traces
<1>24. CASE NextTool(r)
  BY <1>a, <1>24 DEF NextTool, Effects, Goto, Active, Working, Points, Yields, Throws, Contexts,
    loop, signal, traces
<1>25. CASE Execute(r)
  BY <1>a, <1>25 DEF Execute, Effects, Goto, Active, Working, Points, Yields, Throws, Contexts,
    loop, signal, traces
<1>26. CASE Results(r)
  BY <1>a, <1>26 DEF Results, Effects, Goto, Active, Working, Points, Yields, Throws, Contexts,
    loop, signal, traces
<1>27. CASE Note(r)
  BY <1>a, <1>27 DEF Note, Effects, Goto, Active, Working, Points, Yields, Throws, Contexts,
    loop, signal, traces
<1>28. CASE PushNext(r)
  BY <1>a, <1>28 DEF PushNext, Pushing, Effects, Goto, Active, Working, Points, Yields, Throws,
    Contexts, loop, signal, traces
<1>29. CASE PushAborted(r)
  BY <1>a, <1>29 DEF PushAborted, Pushing, Bail, Effects, Goto, Active, Working, Points, Yields,
    Throws, Contexts, loop, signal, traces
<1>30. CASE PushLast(r)
  BY <1>a, <1>30 DEF PushLast, Pushing, Effects, Goto, Active, Working, Points, Yields, Throws,
    Contexts, loop, signal, traces
<1>31. CASE Finish(r)
  BY <1>a, <1>31 DEF Finish, Finalize, Fresh, Effects, Goto, Active, Working, Points, Yields,
    Throws, Contexts, loop, signal, traces
<1>32. CASE Close(r)
  BY <1>a, <1>32 DEF Close, Finalize, Fresh, Effects, Goto, Active, Working, Points, Yields,
    Throws, Contexts, loop, signal, traces
<1>33. CASE BlockResult(r)
  BY <1>a, <1>33 DEF BlockResult, Effects, Goto, Active, Working, Points, Yields, Throws, Contexts,
    loop, signal, traces
<1> QED BY <1>1, <1>2, <1>3, <1>4, <1>5, <1>6, <1>7, <1>8, <1>9, <1>10, <1>11, <1>12, <1>13,
    <1>14, <1>15, <1>16, <1>17, <1>18, <1>19, <1>20, <1>21, <1>22, <1>23, <1>24, <1>25, <1>26,
        <1>27, <1>28, <1>29, <1>30, <1>31, <1>32, <1>33 DEF Step

\* What Start does to the shared state: it opens no iteration on an aborted loop.
LEMMA StartEffects ==
  ASSUME TypeOK, Solo, NEW r \in Runs, RunOK(pc[r], ctx[r], out[r]), spans[r] = {ctx[r].span} \ {0},
         Start(r)
  PROVE  /\ aborted' \in BOOLEAN /\ (aborted => aborted') /\ status' = "running"
         /\ status # "running" /\ pc[r] = "new" /\ pc'[r] \in {"checked", "preStart"}
         /\ (aborted' => pc'[r] = "preStart")
         /\ handler' \in {handler, r} /\ listeners' \subseteq listeners \cup {r}
         /\ usage' = usage /\ signalled' = signalled
         /\ trace' = [trace EXCEPT ![r] = "open"]
         /\ spans' = [spans EXCEPT ![r] = {ctx'[r].span} \ {0}]
<1>1. pc[r] = "new" /\ ctx[r] = Fresh /\ spans[r] = {}
  BY DEF Start, RunOK, Fresh
<1>2. PICK late \in BOOLEAN :
        LET stop == aborted' \/ late
            n == Fresh.iteration + 1
            d == [Fresh EXCEPT !.iteration = IF stop THEN @ ELSE n,
                               !.reason = PreStop(Fresh, stop)]
        IN IF d.reason = "none" THEN Goto(r, "checked", d) ELSE Goto(r, "preStart", d)
  BY DEF Start, Check
<1> DEFINE i == IF aborted' \/ late THEN Fresh.iteration ELSE Fresh.iteration + 1
           x == PreStop(Fresh, aborted' \/ late)
           d == [Fresh EXCEPT !.iteration = i, !.reason = x]
<1>3. IF d.reason = "none" THEN Goto(r, "checked", d) ELSE Goto(r, "preStart", d)
  BY <1>2
<1>4. aborted' => x = "aborted"
  BY DEF PreStop
<1> HIDE DEF i, x
<1>5. d.span = 0 /\ d.reason = x
  BY DEF Fresh
<1> HIDE DEF d
<1>6. /\ pc'[r] \in {"checked", "preStart"} /\ ctx'[r].span = 0
      /\ aborted' => pc'[r] = "preStart"
  BY <1>3, <1>5, <1>4 DEF Goto, TypeOK
<1>7. spans' = [spans EXCEPT ![r] = {ctx'[r].span} \ {0}]
  BY <1>1, <1>6 DEF Start, TypeOK
<1> QED BY <1>1, <1>6, <1>7 DEF Start, TypeOK

\* What every step of the loop does to the streams and to a disposed status.
Heeded == \A r \in Runs : Heard(pc[r], out[r], pc'[r], out'[r])
Reopened == status = "disposed" /\ status' # "disposed" =>
              \E r \in Runs : pc[r] = "new" /\ pc'[r] # "new"

\* The invariant holds initially.
LEMMA LoopInit == Init => LoopInv
<1> SUFFICES ASSUME Init PROVE LoopInv
  OBVIOUS
<1>1. TypeOK
  BY FreshLemma DEF Init, TypeOK, Points, Yields
<1>2. \A r \in Runs : RunOK(pc[r], ctx[r], out[r]) /\ LateOK(aborted, pc[r], out[r])
  BY LoopAssumption DEF Init, RunOK, LateOK, Fresh, Silent, Pushing, Quiet, Inside
<1>3. Solo /\ OneWorking /\ SpanLedger
  BY DEF Init, Solo, OneWorking, SpanLedger, Active, Working, Fresh
<1> QED BY <1>1, <1>2, <1>3 DEF Init, LoopInv

\* A step of a run keeps the invariant.
LEMMA RunStep ==
  ASSUME LoopInv, NEW r \in Runs, Refuse(r) \/ Start(r) \/ Step(r) \/ Close(r)
  PROVE  LoopInv' /\ Heeded /\ Reopened
<1>1. TypeOK /\ Solo /\ SpanLedger /\ RunOK(pc[r], ctx[r], out[r])
      /\ spans[r] = {ctx[r].span} \ {0}
  BY DEF LoopInv, SpanLedger
<1>2. Sound(r)
  BY <1>1, StepSound DEF LoopInv
<1>3. aborted' \in BOOLEAN /\ (aborted => aborted')
  BY <1>1, StepEffects, StartEffects DEF Effects
<1>4. /\ pc' \in [Runs -> Points] /\ ctx' \in [Runs -> Contexts] /\ out' \in [Runs -> Outputs]
      /\ (\A q \in Runs : RunOK(pc[q], ctx[q], out[q]) /\ LateOK(aborted, pc[q], out[q]))'
      /\ Heeded
  BY <1>1, <1>2, <1>3, SoundKeeps DEF LoopInv, Heeded
<1>5. \A q \in Runs \ {r} : pc'[q] = pc[q] /\ ctx'[q] = ctx[q]
  BY <1>1, <1>2 DEF Sound, Move, Goto, TypeOK
<1>6. CASE Start(r)
  <2>1. /\ status' = "running" /\ status # "running" /\ pc[r] = "new"
        /\ pc'[r] \in {"checked", "preStart"} /\ (aborted' => pc'[r] = "preStart")
        /\ handler' \in {handler, r} /\ listeners' \subseteq listeners \cup {r}
        /\ usage' = usage /\ signalled' = signalled
        /\ trace' = [trace EXCEPT ![r] = "open"]
        /\ spans' = [spans EXCEPT ![r] = {ctx'[r].span} \ {0}]
    BY <1>1, <1>6, StartEffects
  <2>2. ctx'[r].span \in Nat
    BY <1>4 DEF Contexts
  <2>3. TypeOK'
    BY <1>1, <1>3, <1>4, <2>1, <2>2 DEF TypeOK
  <2>4. Solo'
    BY <1>1, <1>3, <1>5, <2>1 DEF Solo
  <2>5. SpanLedger'
    BY <1>1, <1>5, <2>1 DEF SpanLedger, TypeOK
  <2>6. \A q \in Runs : pc'[q] = "new" => trace'[q] = "none"
    BY <1>1, <1>5, <2>1 DEF LoopInv, TypeOK
  <2>7. Reopened
    BY <2>1 DEF Reopened
  <2>8. OneWorking'
    <3>1. CASE aborted'
      BY <1>5, <2>1, <3>1 DEF LoopInv, OneWorking, Working
    <3>2. CASE ~aborted'
      BY <2>4, <3>2 DEF Solo, OneWorking, Active
    <3> QED BY <3>1, <3>2
  <2> QED BY <1>4, <2>3, <2>4, <2>5, <2>6, <2>7, <2>8 DEF LoopInv
<1>7. CASE ~Start(r)
  <2>1. Effects(r)
    BY <1>1, <1>7, StepEffects
  <2>2. ctx'[r].span \in Nat /\ ctx[r].spent \in Nat
    BY <1>1, <1>4 DEF Contexts, TypeOK
  <2>3. TypeOK'
    BY <1>1, <1>4, <2>1, <2>2 DEF TypeOK, Effects
  <2>4. Solo'
    <3>1. \A q \in Runs : pc'[q] \in Active => pc[q] \in Active
      BY <1>5, <2>1 DEF Effects
    <3>2. ~aborted' => \A q \in Runs : pc'[q] \in Active => status' = "running"
      BY <1>1, <1>5, <2>1, <3>1 DEF Solo, Effects
    <3> QED BY <1>1, <2>1, <3>1, <3>2 DEF Solo, Effects
  <2>6. SpanLedger'
    BY <1>1, <1>5, <2>1 DEF SpanLedger, TypeOK, Effects, LoopInv
  <2>7. \A q \in Runs : pc'[q] = "new" => trace'[q] = "none"
    BY <1>1, <1>5, <2>1 DEF LoopInv, TypeOK, Effects
  <2>8. Reopened
    BY <2>1 DEF Reopened, Effects
  <2>9. OneWorking'
    BY <1>5, <2>1 DEF LoopInv, OneWorking, Effects
  <2> QED BY <1>4, <2>3, <2>4, <2>6, <2>7, <2>8, <2>9 DEF LoopInv
<1> QED BY <1>6, <1>7

\* abort(), dispose() and the external signal keep the invariant.
LEMMA OuterStep ==
  ASSUME LoopInv, Abort \/ Signal \/ Dispose \/ UNCHANGED vars
  PROVE  LoopInv' /\ Heeded /\ Reopened
<1> DEFINE Outer == /\ UNCHANGED <<pc, ctx, trace, spans, out>>
                    /\ aborted' \in BOOLEAN /\ (aborted => aborted')
                    /\ status' = status \/ (status' = "disposed" /\ aborted' = TRUE)
                    /\ usage' = usage /\ listeners' \subseteq listeners
                    /\ handler' \in {handler, NoRun} /\ signalled' \in BOOLEAN
<1>1. Outer
  <2>0. {aborted, signalled} \subseteq BOOLEAN
    BY DEF LoopInv, TypeOK
  <2>1. CASE Abort
    BY <2>0, <2>1 DEF Abort, signal, traces
  <2>2. CASE Signal
    BY <2>0, <2>2 DEF Signal, traces
  <2>3. CASE Dispose
    BY <2>0, <2>3 DEF Dispose, traces
  <2>4. CASE UNCHANGED vars
    BY <2>0, <2>4 DEF vars, loop, signal, traces
  <2> QED BY <2>1, <2>2, <2>3, <2>4
<1>2. TypeOK'
  BY <1>1 DEF LoopInv, TypeOK
<1>3. Solo' /\ OneWorking' /\ SpanLedger'
  BY <1>1 DEF LoopInv, Solo, OneWorking, SpanLedger
<1>4. \A r \in Runs : RunOK(pc'[r], ctx'[r], out'[r]) /\ (pc'[r] = "new" => trace'[r] = "none")
  BY <1>1 DEF LoopInv
<1>5. \A r \in Runs : LateOK(aborted', pc'[r], out'[r])
  BY <1>1 DEF LoopInv, LateOK
<1>6. Heeded
  BY <1>1 DEF Heeded, Heard, Same
<1>7. Reopened
  BY <1>1 DEF Reopened
<1> QED BY <1>2, <1>3, <1>4, <1>5, <1>6, <1>7 DEF LoopInv

\* The invariant is inductive.
LEMMA LoopStep ==
  ASSUME LoopInv, [Next]_vars
  PROVE  LoopInv' /\ Heeded /\ Reopened
BY RunStep, OuterStep DEF Next

\* The invariant holds in every reachable state.
THEOREM LoopInvariance == Spec => []LoopInv
<1>1. LoopInv /\ [Next]_vars => LoopInv'
  BY LoopStep
<1> QED BY <1>1, LoopInit, PTL DEF Spec

\* TypeOK: the state of loop and runs is well typed for any number of runs, limits and answers.
THEOREM LoopTypeOK == Spec => []TypeOK
<1>1. LoopInv => TypeOK
  BY DEF LoopInv
<1> QED BY <1>1, LoopInvariance, PTL

\* OneWorking: no two runs of one loop are in an iteration together.
THEOREM LoopOneWorking == Spec => []OneWorking
<1>1. LoopInv => OneWorking
  BY DEF LoopInv
<1> QED BY <1>1, LoopInvariance, PTL

\* SpanLedger: iteration spans do not leak, no trace outlives its run.
THEOREM LoopSpanLedger == Spec => []SpanLedger
<1>1. LoopInv => SpanLedger
  BY DEF LoopInv
<1> QED BY <1>1, LoopInvariance, PTL

\* OneErrorPerFailedRun: a failed run has said exactly one error when it says done.
THEOREM LoopOneError == Spec => []OneErrorPerFailedRun
<1>1. LoopInv => OneErrorPerFailedRun
  BY DEF LoopInv, RunOK, OneErrorPerFailedRun
<1> QED BY <1>1, LoopInvariance, PTL

\* StartsNumbered: iteration_start events carry 1, 2, 3, ...
THEOREM LoopStartsNumbered == Spec => []StartsNumbered
<1>1. LoopInv => StartsNumbered
  BY DEF LoopInv, RunOK, StartsNumbered
<1> QED BY <1>1, LoopInvariance, PTL

\* EndHookOnce: onIterationEnd fires exactly once per iteration.
THEOREM LoopEndHookOnce == Spec => []EndHookOnce
<1>1. LoopInv => EndHookOnce
  BY DEF LoopInv, RunOK, EndHookOnce
<1> QED BY <1>1, LoopInvariance, PTL

\* IterationLedger: spans, traces and the hook balance.
THEOREM LoopIterationLedger == Spec => []IterationLedger
<1>1. SpanLedger /\ EndHookOnce => IterationLedger
  BY DEF IterationLedger
<1> QED BY <1>1, LoopSpanLedger, LoopEndHookOnce, PTL

\* AbortBounds: an abort leaves at most one model call and one batch of tools.
THEOREM LoopAbortBounds == Spec => []AbortBounds
<1>1. LoopInv => AbortBounds
  BY DEF LoopInv, LateOK, AbortBounds
<1> QED BY <1>1, LoopInvariance, PTL

\* SoundCall: the model sees an answered conversation, within attempts and budget.
THEOREM LoopSoundCall == Spec => []SoundCall
<1>1. LoopInv => SoundCall
  BY DEF LoopInv, RunOK, SoundCall, Quiet
<1> QED BY <1>1, LoopInvariance, PTL

\* DisposedUntilReopened: only opening another run takes a disposed loop out of `disposed`.
THEOREM LoopDisposed == Spec => DisposedUntilReopened
<1>1. LoopInv /\ [Next]_vars => [Reopened]_vars
  BY LoopStep
<1>2. [][Reopened]_vars => DisposedUntilReopened
  BY PTL DEF DisposedUntilReopened, Reopened
<1> QED BY <1>1, <1>2, LoopInvariance, PTL DEF Spec

\* Streams: every run of the loop implements EventStream.
THEOREM LoopStreams == Spec => Streams
<1>1. Init => \A r \in Runs : Stream(r)!Init
  <2> SUFFICES ASSUME Init, NEW r \in Runs PROVE Stream(r)!Init
    OBVIOUS
  <2>1. pc[r] = "new" /\ out[r] = Silent
    BY DEF Init
  <2>2. (pc[r] = "closed") = FALSE
    BY <2>1
  <2> QED BY <2>1, <2>2 DEF Stream!Init, Silent
<1>2. ASSUME NEW r \in Runs, Heard(pc[r], out[r], pc'[r], out'[r])
      PROVE  [Stream(r)!Next]_(Stream(r)!vars)
  BY <1>2 DEF Heard, Same, Stream!Next, Stream!Begin, Stream!Say, Stream!Fail, Stream!Finish,
    Stream!Close, Stream!Talking, Stream!vars
<1>3. LoopInv /\ [Next]_vars => [\A r \in Runs : [Stream(r)!Next]_(Stream(r)!vars)]_vars
  BY <1>2, LoopStep DEF Heeded
<1> QED BY <1>1, <1>3, LoopInvariance, PTL DEF Spec, Streams
=============================================================================
